------------------------------- MODULE Stats -------------------------------
(***************************************************************************)
(* The statistics store of the gateway: internal/stats/stats.go.           *)
(*                                                                         *)
(* Counters live in memory under one mutex.  Every change leaves a signal  *)
(* in a channel of capacity one; a goroutine takes the signals, restarts a *)
(* timer at each, and writes all counters to a file when the timer ends.   *)
(* The file is written under the mutex, to a temporary file that is then   *)
(* renamed.  The process may die between any two steps and start again.    *)
(*                                                                         *)
(* An account's row keeps three counters: requests, the failed ones among  *)
(* them, and how often tokens were added.  The other fields are derived    *)
(* from the same calls.  A row that does not exist is a row of zeros, as   *)
(* ForAccounts reports it.                                                 *)
(***************************************************************************)
EXTENDS Integers

CONSTANTS
    Accounts,   \* account ids
    Debounce,   \* the 500ms, in ticks
    MaxCount    \* bound of an account's request and token counters

ASSUME StatsAssumption == Debounce \in Nat \ {0} /\ MaxCount \in Nat

VARIABLES
    stats,      \* Store.stats
    wiped,      \* history: ResetAll was called since the last save or start
    dirty,      \* whether Store.dirty holds a signal
    timer,      \* the loop's timer: ticks left, or Off
    closed,     \* whether Store.close is closed
    loop,       \* where the persistence goroutine is
    saveFailed, \* history: the last save failed, which nobody is told
    tmp, disk   \* the temporary file and the file

loopVars == <<timer, closed, loop, saveFailed>>
fileVars == <<tmp, disk>>
statsVars == <<stats, wiped, dirty, loopVars, fileVars>>

Off == Debounce + 1

Row == [requests : Nat, errors : Nat, usages : Nat]
Rows == [Accounts -> Row]
NoRows == [id \in Accounts |-> [requests |-> 0, errors |-> 0, usages |-> 0]]

\* A missing file is read as one without rows.
File == [content : {"whole", "torn"}, rows : Rows]
Whole(rows) == [content |-> "whole", rows |-> rows]
Torn == [content |-> "torn", rows |-> NoRows]

(***************************************************************************)
(* The goroutine waits in its select; then persistNow waits for the mutex, *)
(* holds it while it writes the temporary file and renames it; the save    *)
(* that follows Close is the last one.  Down: there is no process.         *)
(***************************************************************************)
Waiting == {"lock", "last lock"}
Writing == {"write", "last write"}
Renaming == {"rename", "last rename"}
LoopStates == {"down", "select", "stopped"} \cup Waiting \cup Writing \cup Renaming

Step(next) == IF loop \in {"last lock", "last write"}
              THEN (IF next = "write" THEN "last write" ELSE "last rename") ELSE next
AfterSave == IF loop \in {"last lock", "last write", "last rename"} THEN "stopped" ELSE "select"

Running == loop # "down"
MutexFree == loop \notin Writing \cup Renaming

StatsInit ==
    /\ stats = NoRows /\ wiped = FALSE
    /\ dirty = FALSE /\ timer = Off /\ closed = FALSE
    /\ loop = "select" /\ saveFailed = FALSE
    /\ tmp = Whole(NoRows) /\ disk = Whole(NoRows)

----------------------------------------------------------------------------
(* What callers do. *)

Touch == dirty' = TRUE

RecordRequest(id, success) ==
    /\ Running /\ MutexFree
    /\ stats[id].requests < MaxCount
    /\ stats' = [stats EXCEPT ![id].requests = @ + 1,
                              ![id].errors = IF success THEN @ ELSE @ + 1]
    /\ Touch
    /\ UNCHANGED <<wiped, loopVars, fileVars>>

AddTokens(id) ==
    /\ Running /\ MutexFree
    /\ stats[id].usages < MaxCount
    /\ stats' = [stats EXCEPT ![id].usages = @ + 1]
    /\ Touch
    /\ UNCHANGED <<wiped, loopVars, fileVars>>

\* Mutant: no signal.
ResetSilently ==
    /\ Running /\ MutexFree
    /\ stats' = NoRows
    /\ wiped' = TRUE
    /\ UNCHANGED <<dirty, loopVars, fileVars>>

ResetAll ==
    /\ Running /\ MutexFree
    /\ stats' = NoRows
    /\ wiped' = TRUE
    /\ Touch
    /\ UNCHANGED <<loopVars, fileVars>>

\* Closing twice panics; the only caller is the end of the program.
Close ==
    /\ Running /\ ~closed
    /\ closed' = TRUE
    /\ UNCHANGED <<stats, wiped, dirty, timer, loop, saveFailed, fileVars>>

----------------------------------------------------------------------------
(* The persistence goroutine: select picks any case that is ready. *)

\* Mutant: a signal only prolongs a timer that runs.
TakeSignalNoStart ==
    /\ loop = "select" /\ dirty
    /\ dirty' = FALSE
    /\ timer' = IF timer = Off THEN Off ELSE Debounce
    /\ UNCHANGED <<stats, wiped, closed, loop, saveFailed, fileVars>>

TakeSignal ==
    /\ loop = "select" /\ dirty
    /\ dirty' = FALSE
    /\ timer' = Debounce
    /\ UNCHANGED <<stats, wiped, closed, loop, saveFailed, fileVars>>

TimerEnds ==
    /\ loop = "select" /\ timer = 0
    /\ timer' = Off
    /\ loop' = "lock"
    /\ UNCHANGED <<stats, wiped, dirty, closed, saveFailed, fileVars>>

TakeClose ==
    /\ loop = "select" /\ closed
    /\ loop' = "last lock"
    /\ UNCHANGED <<stats, wiped, dirty, timer, closed, saveFailed, fileVars>>

\* persistNow returns an error; the loop drops it.
SaveFails ==
    /\ loop \in Waiting \cup Writing \cup Renaming
    /\ loop' = AfterSave
    /\ saveFailed' = TRUE
    /\ UNCHANGED <<stats, wiped, dirty, timer, closed, fileVars>>

\* Mutant: the file itself is written, without a temporary file.
WriteInPlace ==
    /\ loop \in Waiting
    /\ loop' = Step("write")
    /\ tmp' = Torn /\ disk' = Torn
    /\ UNCHANGED <<stats, wiped, dirty, timer, closed, saveFailed>>

\* The mutex is taken and the temporary file truncated.
BeginWrite ==
    /\ loop \in Waiting
    /\ loop' = Step("write")
    /\ tmp' = Torn
    /\ UNCHANGED <<stats, wiped, dirty, timer, closed, saveFailed, disk>>

EndWrite ==
    /\ loop \in Writing
    /\ loop' = Step("rename")
    /\ tmp' = Whole(stats)
    /\ UNCHANGED <<stats, wiped, dirty, timer, closed, saveFailed, disk>>

Rename ==
    /\ loop \in Renaming
    /\ disk' = tmp
    /\ loop' = AfterSave
    /\ wiped' = FALSE /\ saveFailed' = FALSE
    /\ UNCHANGED <<stats, dirty, timer, closed, tmp>>

LoopStep == TakeSignal \/ TimerEnds \/ BeginWrite \/ EndWrite \/ Rename

Tick ==
    /\ timer \in 1..Debounce
    /\ timer' = timer - 1
    /\ UNCHANGED <<stats, wiped, dirty, closed, loop, saveFailed, fileVars>>

----------------------------------------------------------------------------
(* The process ends, by itself or not, and starts again with New and Load. *)

Crash ==
    /\ Running
    /\ stats' = NoRows /\ wiped' = FALSE
    /\ dirty' = FALSE /\ timer' = Off /\ closed' = FALSE
    /\ loop' = "down" /\ saveFailed' = FALSE
    /\ UNCHANGED fileVars

BootEmpty ==    \* mutant: Load is not called
    /\ ~Running
    /\ loop' = "select"
    /\ UNCHANGED <<stats, wiped, dirty, timer, closed, saveFailed, fileVars>>

Boot ==
    /\ ~Running
    /\ disk.content = "whole"
    /\ stats' = disk.rows
    /\ loop' = "select"
    /\ UNCHANGED <<wiped, dirty, timer, closed, saveFailed, fileVars>>

ProcessStep == LoopStep \/ SaveFails \/ TakeClose \/ Tick \/ Close \/ Crash \/ Boot

StatsNext ==
    \/ ProcessStep
    \/ \E id \in Accounts, success \in BOOLEAN : RecordRequest(id, success)
    \/ \E id \in Accounts : AddTokens(id)
    \/ ResetAll

StatsSpec == StatsInit /\ [][StatsNext]_statsVars

(***************************************************************************)
(* Fairness.  The goroutine is scheduled, time passes, and select chooses  *)
(* among the ready cases at random, so a closed channel is noticed at last *)
(* although signals keep coming.                                           *)
(***************************************************************************)
StatsFairness ==
    /\ WF_statsVars(LoopStep) /\ WF_statsVars(Tick)
    /\ SF_statsVars(TimerEnds) /\ SF_statsVars(TakeClose)

----------------------------------------------------------------------------
(* Properties. *)

StatsTypeOK ==
    /\ stats \in Rows /\ wiped \in BOOLEAN
    /\ dirty \in BOOLEAN /\ timer \in 0..Off /\ closed \in BOOLEAN
    /\ loop \in LoopStates /\ saveFailed \in BOOLEAN
    /\ tmp \in File /\ disk \in File

\* No change is forgotten: while memory and file differ a signal is in the
\* channel, the timer runs or a save is under way, unless the last save failed.
\* After the last save the goroutine has gone, and only later changes are lost.
NoChangeForgotten ==
    Running /\ stats # disk.rows =>
        \/ dirty \/ saveFailed
        \/ loop # "stopped" /\ timer # Off
        \/ loop \in Waiting \cup Writing \cup Renaming

\* Whenever the process dies, the next one finds a file that Load can read.
FileReadable == disk.content = "whole"

\* a's counters are all at most b's.
AtMost(a, b) ==
    \A id \in Accounts : /\ a[id].requests <= b[id].requests
                         /\ a[id].errors <= b[id].errors
                         /\ a[id].usages <= b[id].usages

\* Saved history never shrinks, through crashes, failed saves and restarts,
\* unless the administrator has reset it since the last save.
HistoryKept == [][~wiped => AtMost(disk.rows, disk'.rows)]_statsVars

Saved == stats = disk.rows \/ saveFailed \/ ~Running

\* When changes stop coming, the file catches up with memory.
EventuallySaved == <>[](~dirty) => []<>Saved

=============================================================================
