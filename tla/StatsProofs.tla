---------------------------- MODULE StatsProofs ----------------------------
(***************************************************************************)
(* Theorems about the statistics store and its callers, for any accounts,  *)
(* any debounce time and any number of requests.                           *)
(***************************************************************************)
EXTENDS V1Handler, FiniteSetTheorems, TLAPS

(***************************************************************************)
(* The inductive invariant.  A change may only be forgotten by a save that *)
(* writes something else than memory, so the invariant says what a save    *)
(* has in its hands: the mutex is held from the write to the rename, and   *)
(* the temporary file then holds what memory holds.                        *)
(***************************************************************************)
SaveHoldsMemory == loop \in Renaming => tmp = Whole(stats)
FileBehind == Running /\ ~wiped => AtMost(disk.rows, stats)

StatsInv ==
    /\ StatsTypeOK
    /\ FileReadable
    /\ NoChangeForgotten
    /\ SaveHoldsMemory
    /\ FileBehind

----------------------------------------------------------------------------
\* Rows of zeros, and files made of rows, are well-formed.
LEMMA FileTypes ==
    /\ NoRows \in Rows
    /\ Torn \in File
    /\ \A rows \in Rows : Whole(rows) \in File
BY DEF NoRows, Rows, Row, Torn, File, Whole

\* The timer's values.
LEMMA TimerRange ==
    /\ Off \in 0..Off /\ Debounce \in 0..Off /\ Debounce # Off
    /\ \A t \in 1..Debounce : t - 1 \in 0..Off /\ t - 1 # Off
BY StatsAssumption DEF Off

\* AtMost is reflexive.
LEMMA AtMostItself == \A rows \in Rows : AtMost(rows, rows)
BY DEF AtMost, Rows, Row

\* Counting a request keeps the rows well-formed and only adds to them.
LEMMA RequestAdds ==
    ASSUME stats \in Rows, NEW id \in Accounts, NEW success \in BOOLEAN,
           RecordRequest(id, success)
    PROVE  stats' \in Rows /\ AtMost(stats, stats')
<1> DEFINE errors == IF success THEN stats[id].errors ELSE stats[id].errors + 1
           counted == [stats[id] EXCEPT !.requests = @ + 1]
           row == [counted EXCEPT !.errors = errors]
<1>1. stats[id] \in Row
  BY DEF Rows
<1>2. stats' = [stats EXCEPT ![id] = row]
  BY DEF RecordRequest, Rows
<1>3. errors \in Nat /\ stats[id].errors <= errors
  <2>1. stats[id].errors \in Nat
    BY <1>1 DEF Row
  <2>2. CASE success
    BY <2>1, <2>2
  <2>3. CASE ~success
    BY <2>1, <2>3
  <2> QED
    BY <2>2, <2>3
<1> HIDE DEF errors
<1>4. /\ row \in Row
      /\ stats[id].requests <= row.requests
      /\ stats[id].errors <= row.errors
      /\ stats[id].usages <= row.usages
  <2>1. /\ counted \in Row /\ stats[id].requests <= counted.requests
        /\ counted.errors = stats[id].errors /\ counted.usages = stats[id].usages
    BY <1>1 DEF Row
  <2> HIDE DEF counted
  <2>2. /\ row \in Row /\ row.requests = counted.requests
        /\ row.errors = errors /\ row.usages = counted.usages
    BY <1>3, <2>1 DEF Row
  <2>3. counted.usages \in Nat
    BY <2>1 DEF Row
  <2> QED
    BY <1>3, <2>1, <2>2, <2>3
<1> HIDE DEF row
<1>5. stats' \in Rows
  BY <1>4, <1>2 DEF Rows
<1>6. AtMost(stats, stats')
  BY <1>4, <1>2 DEF AtMost, Rows, Row
<1> QED
  BY <1>5, <1>6

\* Adding tokens keeps the rows well-formed and only adds to them.
LEMMA TokensAdd ==
    ASSUME stats \in Rows, NEW id \in Accounts, AddTokens(id)
    PROVE  stats' \in Rows /\ AtMost(stats, stats')
<1> DEFINE row == [stats[id] EXCEPT !.usages = @ + 1]
<1>1. stats[id] \in Row
  BY DEF Rows
<1>2. /\ row \in Row
      /\ stats[id].requests <= row.requests
      /\ stats[id].errors <= row.errors
      /\ stats[id].usages <= row.usages
  BY <1>1 DEF Row
<1>3. stats' = [stats EXCEPT ![id] = row]
  BY DEF AddTokens, Rows
<1> HIDE DEF row
<1>4. stats' \in Rows
  BY <1>2, <1>3 DEF Rows
<1>5. AtMost(stats, stats')
  BY <1>2, <1>3 DEF AtMost, Rows, Row
<1> QED
  BY <1>4, <1>5

\* What is at most a file's successor in memory is at most the next one.
LEMMA AtMostTransitive ==
    ASSUME NEW a \in Rows, NEW b \in Rows, NEW c \in Rows, AtMost(a, b), AtMost(b, c)
    PROVE  AtMost(a, c)
<1> SUFFICES ASSUME NEW id \in Accounts
             PROVE  /\ a[id].requests <= c[id].requests
                    /\ a[id].errors <= c[id].errors
                    /\ a[id].usages <= c[id].usages
  BY DEF AtMost
<1>1. a[id] \in Row /\ b[id] \in Row /\ c[id] \in Row
  BY DEF Rows
<1>2. /\ a[id].requests <= b[id].requests /\ b[id].requests <= c[id].requests
      /\ a[id].errors <= b[id].errors /\ b[id].errors <= c[id].errors
      /\ a[id].usages <= b[id].usages /\ b[id].usages <= c[id].usages
  BY DEF AtMost
<1> QED
  BY <1>1, <1>2 DEF Row

----------------------------------------------------------------------------
(* One operation at a time. *)

\* A change that only adds, and leaves its signal, keeps the invariant.
LEMMA ChangeKeepsInv ==
    ASSUME StatsInv, MutexFree, stats' \in Rows,
           AtMost(stats, stats') \/ wiped', wiped' = wiped \/ wiped', wiped' \in BOOLEAN,
           Touch, UNCHANGED <<loopVars, fileVars>>
    PROVE  StatsInv'
<1>1. StatsTypeOK'
  BY DEF StatsInv, StatsTypeOK, Touch, loopVars, fileVars
<1>2. FileReadable' /\ NoChangeForgotten'
  BY DEF StatsInv, FileReadable, NoChangeForgotten, Touch, loopVars, fileVars
<1>3. SaveHoldsMemory'
  BY DEF MutexFree, SaveHoldsMemory, loopVars
<1>4. FileBehind'
  <2> SUFFICES ASSUME Running, ~wiped' PROVE AtMost(disk.rows, stats')
    BY DEF FileBehind, Running, loopVars, fileVars
  <2>1. AtMost(disk.rows, stats) /\ AtMost(stats, stats')
    BY DEF StatsInv, FileBehind
  <2>2. disk.rows \in Rows /\ stats \in Rows
    BY DEF StatsInv, StatsTypeOK, File
  <2> QED
    BY <2>1, <2>2, AtMostTransitive
<1> QED
  BY <1>1, <1>2, <1>3, <1>4 DEF StatsInv

\* The operations of the callers.
LEMMA CallersKeepInv ==
    ASSUME StatsInv,
           \/ \E id \in Accounts, success \in BOOLEAN : RecordRequest(id, success)
           \/ \E id \in Accounts : AddTokens(id)
           \/ ResetAll
    PROVE  StatsInv'
<1>1. stats \in Rows /\ wiped \in BOOLEAN
  BY DEF StatsInv, StatsTypeOK
<1>2. CASE \E id \in Accounts, success \in BOOLEAN : RecordRequest(id, success)
  <2>1. PICK id \in Accounts, success \in BOOLEAN : RecordRequest(id, success)
    BY <1>2
  <2>2. stats' \in Rows /\ AtMost(stats, stats')
    BY <1>1, <2>1, RequestAdds
  <2>3. MutexFree /\ Touch /\ UNCHANGED <<wiped, loopVars, fileVars>>
    BY <2>1 DEF RecordRequest
  <2> QED
    BY <1>1, <2>2, <2>3, ChangeKeepsInv
<1>3. CASE \E id \in Accounts : AddTokens(id)
  <2>1. PICK id \in Accounts : AddTokens(id)
    BY <1>3
  <2>2. stats' \in Rows /\ AtMost(stats, stats')
    BY <1>1, <2>1, TokensAdd
  <2>3. MutexFree /\ Touch /\ UNCHANGED <<wiped, loopVars, fileVars>>
    BY <2>1 DEF AddTokens
  <2> QED
    BY <1>1, <2>2, <2>3, ChangeKeepsInv
<1>4. CASE ResetAll
  <2>1. stats' \in Rows /\ wiped' = TRUE
    BY <1>4, FileTypes DEF ResetAll
  <2>2. MutexFree /\ Touch /\ UNCHANGED <<loopVars, fileVars>>
    BY <1>4 DEF ResetAll
  <2> QED
    BY <2>1, <2>2, ChangeKeepsInv
<1> QED
  BY <1>2, <1>3, <1>4

\* The waiting part of the persistence goroutine, the clock and Close.
LEMMA WaitingKeepsInv ==
    ASSUME StatsInv, TakeSignal \/ TimerEnds \/ TakeClose \/ Tick \/ Close
    PROVE  StatsInv'
<1>1. UNCHANGED <<stats, wiped, saveFailed, tmp, disk>>
  BY DEF TakeSignal, TimerEnds, TakeClose, Tick, Close, fileVars
<1>2. StatsTypeOK'
  <2>1. timer' \in 0..Off
    BY TimerRange DEF StatsInv, StatsTypeOK, TakeSignal, TimerEnds, TakeClose, Tick, Close
  <2>2. loop' \in LoopStates /\ dirty' \in BOOLEAN /\ closed' \in BOOLEAN
    BY DEF StatsInv, StatsTypeOK, TakeSignal, TimerEnds, TakeClose, Tick, Close, LoopStates, Waiting
  <2> QED
    BY <1>1, <2>1, <2>2 DEF StatsInv, StatsTypeOK
<1>3. NoChangeForgotten'
  <2>1. CASE TakeSignal
    BY <1>1, <2>1, TimerRange DEF TakeSignal, NoChangeForgotten
  <2>2. CASE TimerEnds \/ TakeClose
    BY <2>2 DEF TimerEnds, TakeClose, NoChangeForgotten, Waiting
  <2>3. CASE Tick
    <3>1. timer # Off /\ timer' # Off
      BY <2>3, StatsAssumption DEF Tick, Off
    <3> QED
      BY <1>1, <2>3, <3>1 DEF StatsInv, NoChangeForgotten, Tick, Running
  <2>4. CASE Close
    BY <1>1, <2>4 DEF StatsInv, NoChangeForgotten, Close, Running
  <2> QED
    BY <2>1, <2>2, <2>3, <2>4
<1>4. FileReadable'
  BY <1>1 DEF StatsInv, FileReadable
<1>5. SaveHoldsMemory'
  BY <1>1 DEF StatsInv, SaveHoldsMemory, TakeSignal, TimerEnds, TakeClose, Tick, Close, Renaming
<1>6. FileBehind'
  BY <1>1 DEF StatsInv, FileBehind, Running, TakeSignal, TimerEnds, TakeClose, Tick, Close
<1> QED
  BY <1>2, <1>3, <1>4, <1>5, <1>6 DEF StatsInv

\* Where a save goes next.
LEMMA SaveMoves ==
    /\ AfterSave \in {"stopped", "select"}
    /\ loop \in Waiting => Step("write") \in Writing
    /\ loop \in Writing => Step("rename") \in Renaming
BY DEF AfterSave, Step, Waiting, Writing, Renaming

\* A save that fails leaves its mark, and the file as it was.
LEMMA FailureKeepsInv == StatsInv /\ SaveFails => StatsInv'
<1> SUFFICES ASSUME StatsInv, SaveFails PROVE StatsInv'
  OBVIOUS
<1>1. /\ UNCHANGED <<stats, wiped, dirty, timer, closed, tmp, disk>>
      /\ loop' \in {"stopped", "select"} /\ saveFailed' = TRUE
      /\ Running
  BY SaveMoves DEF SaveFails, fileVars, Running, Waiting, Writing, Renaming
<1>2. StatsTypeOK'
  BY <1>1 DEF StatsInv, StatsTypeOK, LoopStates
<1>3. NoChangeForgotten' /\ FileReadable'
  BY <1>1 DEF StatsInv, NoChangeForgotten, FileReadable
<1>4. SaveHoldsMemory' /\ FileBehind'
  BY <1>1 DEF StatsInv, SaveHoldsMemory, FileBehind, Renaming, Running
<1> QED
  BY <1>2, <1>3, <1>4 DEF StatsInv

\* Writing the temporary file touches neither memory nor the file.
LEMMA WriteKeepsInv == StatsInv /\ (BeginWrite \/ EndWrite) => StatsInv'
<1> SUFFICES ASSUME StatsInv, BeginWrite \/ EndWrite PROVE StatsInv'
  OBVIOUS
<1>1. /\ UNCHANGED <<stats, wiped, dirty, timer, closed, saveFailed, disk>>
      /\ loop' \in Writing \/ (loop' \in Renaming /\ tmp' = Whole(stats))
      /\ Running
  BY SaveMoves DEF BeginWrite, EndWrite, Running, Waiting, Writing
<1>2. tmp' \in File
  BY FileTypes DEF BeginWrite, EndWrite, StatsInv, StatsTypeOK
<1>3. StatsTypeOK'
  BY <1>1, <1>2 DEF StatsInv, StatsTypeOK, LoopStates
<1>4. NoChangeForgotten' /\ FileReadable'
  BY <1>1 DEF StatsInv, NoChangeForgotten, FileReadable
<1>5. SaveHoldsMemory' /\ FileBehind'
  BY <1>1 DEF StatsInv, SaveHoldsMemory, FileBehind, Writing, Renaming, Running
<1> QED
  BY <1>3, <1>4, <1>5 DEF StatsInv

\* The rename makes the file what memory is.
LEMMA RenameResult == StatsInv /\ Rename => disk' = Whole(stats)
BY DEF StatsInv, SaveHoldsMemory, Rename

\* After the rename nothing is unsaved.
LEMMA RenameKeepsInv == StatsInv /\ Rename => StatsInv'
<1> SUFFICES ASSUME StatsInv, Rename PROVE StatsInv'
  OBVIOUS
<1>1. /\ UNCHANGED <<stats, dirty, timer, closed, tmp>>
      /\ loop' \in {"stopped", "select"} /\ wiped' = FALSE /\ saveFailed' = FALSE
      /\ disk' = Whole(stats)
  BY SaveMoves, RenameResult DEF Rename
<1>2. stats \in Rows /\ disk'.rows = stats /\ disk'.content = "whole"
  BY <1>1 DEF StatsInv, StatsTypeOK, Whole
<1>3. StatsTypeOK'
  BY <1>1, <1>2, FileTypes DEF StatsInv, StatsTypeOK, LoopStates
<1>4. NoChangeForgotten' /\ FileReadable'
  BY <1>1, <1>2 DEF NoChangeForgotten, FileReadable
<1>5. SaveHoldsMemory' /\ FileBehind'
  BY <1>1, <1>2, AtMostItself DEF SaveHoldsMemory, FileBehind, Renaming
<1> QED
  BY <1>3, <1>4, <1>5 DEF StatsInv

\* A crash and a start.
LEMMA RestartKeepsInv == StatsInv /\ (Crash \/ Boot) => StatsInv'
<1> SUFFICES ASSUME StatsInv, Crash \/ Boot PROVE StatsInv'
  OBVIOUS
<1>1. UNCHANGED <<tmp, disk>>
  BY DEF Crash, Boot, fileVars
<1>2. disk.rows \in Rows
  BY DEF StatsInv, StatsTypeOK, File
<1>3. StatsTypeOK'
  BY <1>1, <1>2, FileTypes, TimerRange DEF StatsInv, StatsTypeOK, Crash, Boot, LoopStates
<1>4. NoChangeForgotten' /\ FileReadable'
  BY <1>1 DEF StatsInv, NoChangeForgotten, FileReadable, Crash, Boot, Running
<1>5. SaveHoldsMemory'
  BY DEF SaveHoldsMemory, Crash, Boot, Renaming
<1>6. FileBehind'
  BY <1>1, <1>2, AtMostItself DEF FileBehind, Crash, Boot, Running
<1> QED
  BY <1>3, <1>4, <1>5, <1>6 DEF StatsInv

----------------------------------------------------------------------------
(* Theorems of the store's specification. *)

\* The store starts with an empty memory and no file.
LEMMA StatsInitInv == StatsInit => StatsInv
<1> SUFFICES ASSUME StatsInit PROVE StatsInv
  OBVIOUS
<1>1. StatsTypeOK
  BY FileTypes, TimerRange DEF StatsInit, StatsTypeOK, LoopStates
<1>2. FileReadable /\ NoChangeForgotten /\ SaveHoldsMemory
  BY DEF StatsInit, FileReadable, NoChangeForgotten, SaveHoldsMemory, Whole, Renaming
<1>3. FileBehind
  BY FileTypes, AtMostItself DEF StatsInit, FileBehind, Whole
<1> QED
  BY <1>1, <1>2, <1>3 DEF StatsInv

\* Every step preserves the invariant.
LEMMA StatsNextInv == StatsInv /\ [StatsNext]_statsVars => StatsInv'
<1> SUFFICES ASSUME StatsInv, [StatsNext]_statsVars PROVE StatsInv'
  OBVIOUS
<1>1. CASE ProcessStep
  BY <1>1, WaitingKeepsInv, FailureKeepsInv, WriteKeepsInv, RenameKeepsInv, RestartKeepsInv
     DEF ProcessStep, LoopStep
<1>2. CASE \/ \E id \in Accounts, success \in BOOLEAN : RecordRequest(id, success)
           \/ \E id \in Accounts : AddTokens(id)
           \/ ResetAll
  BY <1>2, CallersKeepInv
<1>3. CASE UNCHANGED statsVars
  BY <1>3 DEF statsVars, loopVars, fileVars, StatsInv, StatsTypeOK, FileReadable, NoChangeForgotten,
     SaveHoldsMemory, FileBehind, Running
<1> QED
  BY <1>1, <1>2, <1>3 DEF StatsNext

\* The invariant holds in every state of every execution of the store.
THEOREM StatsInvariant == StatsSpec => []StatsInv
<1> QED
  BY StatsInitInv, StatsNextInv, PTL DEF StatsSpec

\* However requests, resets, failing saves, Close, crashes and restarts interleave,
\* an unsaved change has a signal, a running timer or a save under way.
THEOREM NothingForgotten == StatsSpec => []NoChangeForgotten
<1>1. StatsInv => NoChangeForgotten
  BY DEF StatsInv
<1> QED
  BY <1>1, StatsInvariant, PTL

\* At whatever step the process dies, Load finds a whole file.
THEOREM FileAlwaysReadable == StatsSpec => []FileReadable
<1>1. StatsInv => FileReadable
  BY DEF StatsInv
<1> QED
  BY <1>1, StatsInvariant, PTL

\* Saved counters never shrink, through any number of crashes and failed saves,
\* unless they were reset since the last save.
THEOREM HistoryNeverShrinks == StatsSpec => HistoryKept
<1>1. StatsInv /\ [StatsNext]_statsVars => [~wiped => AtMost(disk.rows, disk'.rows)]_statsVars
  <2> SUFFICES ASSUME StatsInv, StatsNext, ~wiped PROVE AtMost(disk.rows, disk'.rows)
    OBVIOUS
  <2>1. disk.rows \in Rows
    BY DEF StatsInv, StatsTypeOK, File
  <2>2. CASE Rename
    <3>1. AtMost(disk.rows, stats)
      BY <2>2 DEF StatsInv, FileBehind, Rename, Running, Renaming
    <3> QED
      BY <2>2, <3>1, RenameResult DEF Whole
  <2>3. CASE disk' = disk
    BY <2>1, <2>3, AtMostItself
  <2>4. Rename \/ disk' = disk
    BY DEF StatsNext, ProcessStep, LoopStep, TakeSignal, TimerEnds, BeginWrite, EndWrite, SaveFails,
       TakeClose, Tick, Close, Crash, Boot, RecordRequest, AddTokens, ResetAll, fileVars
  <2> QED
    BY <2>2, <2>3, <2>4
<1> QED
  BY <1>1, StatsInvariant, PTL DEF StatsSpec, HistoryKept

----------------------------------------------------------------------------
(* The requests use the store as its specification allows. *)

\* A request that is to be counted has an account and an answer, and no other has.
CallFits(c) ==
    IF c.pc \in {"idle", "forward"} THEN c.worker = None /\ c.answer = None
    ELSE c.worker \in Accounts /\ c.answer # None

CallsOK == call \in [Handlers -> Calls] /\ \A h \in Handlers : CallFits(call[h])

\* Every step of a request keeps its account.
LEMMA CallsStay == CallsOK /\ [V1Next]_v1Vars => CallsOK'
<1> SUFFICES ASSUME CallsOK, [V1Next]_v1Vars PROVE CallsOK'
  OBVIOUS
<1>1. ASSUME NEW h \in Handlers, NEW c \in Calls, call' = [call EXCEPT ![h] = c], CallFits(c)
      PROVE  CallsOK'
  BY <1>1 DEF CallsOK
<1>2. ASSUME NEW h \in Handlers, NEW pc \in {"copy", "read", "tokens"},
             call[h].pc \notin {"idle", "forward"}, Goto(h, pc)
      PROVE  CallsOK'
  <2> DEFINE c == [call[h] EXCEPT !.pc = pc]
  <2>1. c \in Calls /\ CallFits(c)
    BY <1>2 DEF CallsOK, Calls, CallFits
  <2>2. call' = [call EXCEPT ![h] = c]
    BY <1>2 DEF Goto
  <2> HIDE DEF c
  <2> QED
    BY <1>1, <2>1, <2>2
<1>3. /\ Idle \in Calls /\ CallFits(Idle)
      /\ [Idle EXCEPT !.pc = "forward"] \in Calls /\ CallFits([Idle EXCEPT !.pc = "forward"])
  BY DEF Idle, Calls, CallFits
<1>4. ASSUME NEW h \in Handlers, Receive(h) \/ Unavailable(h) \/ CountTokens(h) PROVE CallsOK'
  BY <1>1, <1>3, <1>4 DEF Receive, Unavailable, CountTokens
<1>5. ASSUME NEW h \in Handlers, Count(h) PROVE CallsOK'
  BY <1>2, <1>5 DEF Count
<1>6. ASSUME NEW h \in Handlers, NEW usage \in BOOLEAN, Read(h, usage) \/ Copy(h, usage)
      PROVE CallsOK'
  BY <1>1, <1>2, <1>3, <1>6 DEF Read, Copy
<1>7. ASSUME NEW h \in Handlers, NEW id \in Accounts,
             NEW answer \in {"stream", "json", "other", "error"}, Answered(h, id, answer)
      PROVE CallsOK'
  <2> DEFINE c == [pc |-> "record", worker |-> id, answer |-> answer]
  <2>1. c \in Calls /\ CallFits(c)
    BY DEF Calls, CallFits, None
  <2>2. call' = [call EXCEPT ![h] = c]
    BY <1>7 DEF Answered
  <2> HIDE DEF c
  <2> QED
    BY <1>1, <2>1, <2>2
<1>8. CASE Die
  BY <1>3, <1>8 DEF Die, CallsOK
<1>9. CASE UNCHANGED call
  BY <1>9 DEF CallsOK
<1> QED
  BY <1>4, <1>5, <1>6, <1>7, <1>8, <1>9 DEF V1Next, ResetStats, handlerVars, v1Vars

\* Every step is a step of the store or leaves it alone.
LEMMA V1Steps == CallsOK /\ [V1Next]_v1Vars => [StatsNext]_statsVars
<1> SUFFICES ASSUME CallsOK, [V1Next]_v1Vars PROVE [StatsNext]_statsVars
  OBVIOUS
<1>1. ASSUME NEW h \in Handlers, Count(h) PROVE StatsNext
  BY <1>1 DEF CallsOK, CallFits, Count, StatsNext
<1>2. ASSUME NEW h \in Handlers, CountTokens(h) PROVE StatsNext
  BY <1>2 DEF CallsOK, CallFits, CountTokens, StatsNext
<1>3. CASE ResetStats \/ Die \/ LoopStep \/ SaveFails \/ TakeClose \/ Tick \/ Close \/ Boot
  BY <1>3 DEF ResetStats, Die, StatsNext, ProcessStep
<1>4. ASSUME NEW h \in Handlers,
             \/ Receive(h) \/ Unavailable(h)
             \/ \E id \in Accounts, answer \in {"stream", "json", "other", "error"} :
                   Answered(h, id, answer)
             \/ \E usage \in BOOLEAN : Read(h, usage) \/ Copy(h, usage)
      PROVE UNCHANGED statsVars
  BY <1>4 DEF Receive, Unavailable, Answered, Read, Copy
<1>5. CASE UNCHANGED v1Vars
  BY <1>5 DEF v1Vars
<1> QED
  BY <1>1, <1>2, <1>3, <1>4, <1>5 DEF V1Next

\* Any number of concurrent requests, resets and crashes drive the store only
\* through its operations.
THEOREM HandlersUseStats == V1Spec => UsesStats
<1>1. V1Init => CallsOK /\ StatsInit
  BY DEF V1Init, CallsOK, CallFits, Calls, Idle
<1> QED
  BY <1>1, CallsStay, V1Steps, PTL DEF V1Spec, UsesStats, StatsSpec

\* Hence the store's promises hold while requests run.
THEOREM HandlersInheritStats ==
    V1Spec => []NoChangeForgotten /\ []FileReadable /\ HistoryKept
<1> QED
  BY HandlersUseStats, NothingForgotten, FileAlwaysReadable, HistoryNeverShrinks, PTL DEF UsesStats

----------------------------------------------------------------------------
(***************************************************************************)
(* The requests' accounting.  A reset or a crash takes counters away while *)
(* requests hold results still to be counted, and a start brings back what *)
(* was saved; the invariant adds that no request outlives its process.     *)
(***************************************************************************)
IdleWhenDown == ~Running => \A h \in Handlers : call[h] = Idle

HistoryTyped == surfaced \in [Accounts -> Nat] /\ straddled \in BOOLEAN

AccountingInv ==
    /\ StatsInv /\ CallsOK /\ HistoryTyped
    /\ IdleWhenDown
    /\ TokensWithinRequests
    /\ CountedOnce

\* A set of requests has a size; one more request makes it one larger, and one
\* less one smaller.
LEMMA GroupSize ==
    ASSUME NEW S \in SUBSET Handlers
    PROVE  /\ Cardinality(S) \in Nat
           /\ \A h \in Handlers \ S : Cardinality(S \cup {h}) = Cardinality(S) + 1
           /\ \A h \in S : Cardinality(S \ {h}) = Cardinality(S) - 1
<1>1. IsFiniteSet(S)
  BY HandlersAssumption, FS_Subset
<1> QED
  BY <1>1, FS_CardinalityType, FS_AddElement, FS_RemoveElement

\* No request, no size.
LEMMA NoGroup == Cardinality({}) = 0
BY FS_EmptySet

\* What a request's step does to the two groups of an account.
LEMMA GroupsMove ==
    ASSUME CallsOK, NEW h \in Handlers, NEW c, NEW id,
           call' = [call EXCEPT ![h] = c]
    PROVE  /\ Open(id)' = IF c.worker = id /\ c.pc \in {"copy", "read", "tokens"}
                          THEN Open(id) \cup {h} ELSE Open(id) \ {h}
           /\ Recording(id)' = IF c.worker = id /\ c.pc = "record"
                               THEN Recording(id) \cup {h} ELSE Recording(id) \ {h}
<1>1. \A g \in Handlers : call'[g] = IF g = h THEN c ELSE call[g]
  BY DEF CallsOK
<1>2. \A g \in Handlers : g \in Open(id)' <=>
         IF g = h THEN c.worker = id /\ c.pc \in {"copy", "read", "tokens"} ELSE g \in Open(id)
  BY <1>1 DEF Open
<1>3. \A g \in Handlers : g \in Recording(id)' <=>
         IF g = h THEN c.worker = id /\ c.pc = "record" ELSE g \in Recording(id)
  BY <1>1 DEF Recording
<1>4. /\ Open(id) \subseteq Handlers /\ Open(id)' \subseteq Handlers
      /\ Recording(id) \subseteq Handlers /\ Recording(id)' \subseteq Handlers
  BY DEF Open, Recording
<1>5. ASSUME NEW S \in SUBSET Handlers, NEW T \in SUBSET Handlers, NEW b \in BOOLEAN,
             \A g \in Handlers : g \in T <=> IF g = h THEN b ELSE g \in S
      PROVE  T = IF b THEN S \cup {h} ELSE S \ {h}
  BY <1>5
<1>6. PICK b \in BOOLEAN : b <=> (c.worker = id /\ c.pc \in {"copy", "read", "tokens"})
  OBVIOUS
<1>7. Open(id)' = IF b THEN Open(id) \cup {h} ELSE Open(id) \ {h}
  BY <1>2, <1>4, <1>5, <1>6
<1>8. PICK d \in BOOLEAN : d <=> (c.worker = id /\ c.pc = "record")
  OBVIOUS
<1>9. Recording(id)' = IF d THEN Recording(id) \cup {h} ELSE Recording(id) \ {h}
  BY <1>3, <1>4, <1>5, <1>8
<1> QED
  BY <1>6, <1>7, <1>8, <1>9

\* What RecordRequest and AddTokens do to each account's counters.
LEMMA RequestCounts ==
    ASSUME stats \in Rows, NEW id \in Accounts, NEW success \in BOOLEAN,
           RecordRequest(id, success)
    PROVE  \A i \in Accounts :
              /\ stats'[i].requests = IF i = id THEN stats[i].requests + 1 ELSE stats[i].requests
              /\ stats'[i].usages = stats[i].usages
BY DEF RecordRequest, Rows, Row

LEMMA TokenCounts ==
    ASSUME stats \in Rows, NEW id \in Accounts, AddTokens(id)
    PROVE  \A i \in Accounts :
              /\ stats'[i].requests = stats[i].requests
              /\ stats'[i].usages = IF i = id THEN stats[i].usages + 1 ELSE stats[i].usages
BY DEF AddTokens, Rows, Row

\* A smaller group is not larger.
LEMMA GroupShrinks ==
    ASSUME NEW S \in SUBSET Handlers, NEW T \in SUBSET Handlers, T \subseteq S
    PROVE  Cardinality(T) <= Cardinality(S)
<1>1. IsFiniteSet(S)
  BY HandlersAssumption, FS_Subset
<1> QED
  BY <1>1, FS_Subset

\* The two groups are sets of requests.
LEMMA Groups ==
    /\ \A id : Open(id) \in SUBSET Handlers /\ Recording(id) \in SUBSET Handlers
    /\ \A id : Open(id)' \in SUBSET Handlers /\ Recording(id)' \in SUBSET Handlers
BY DEF Open, Recording

\* Counters are numbers.
LEMMA CountsAreNumbers ==
    ASSUME StatsInv, HistoryTyped, NEW id \in Accounts
    PROVE  /\ stats[id].requests \in Nat /\ stats[id].usages \in Nat
           /\ disk.rows[id].requests \in Nat /\ disk.rows[id].usages \in Nat
           /\ surfaced[id] \in Nat
BY DEF StatsInv, StatsTypeOK, HistoryTyped, File, Rows, Row

\* When nothing is counted and no group grows, the accounts stay right.
LEMMA NothingCounted ==
    ASSUME StatsInv, HistoryTyped, TokensWithinRequests, CountedOnce,
           UNCHANGED <<stats, disk, surfaced, straddled>>,
           \A id \in Accounts : Open(id)' \subseteq Open(id) /\ Recording(id)' \subseteq Recording(id)
    PROVE  TokensWithinRequests' /\ CountedOnce'
<1>1. ASSUME NEW id \in Accounts
      PROVE  /\ Cardinality(Open(id)') <= Cardinality(Open(id))
             /\ Cardinality(Recording(id)') <= Cardinality(Recording(id))
             /\ Cardinality(Open(id)') \in Nat /\ Cardinality(Recording(id)') \in Nat
             /\ Cardinality(Open(id)) \in Nat /\ Cardinality(Recording(id)) \in Nat
  BY Groups, GroupShrinks, GroupSize
<1>2. TokensWithinRequests'
  <2> SUFFICES ASSUME ~straddled, NEW id \in Accounts
               PROVE  /\ stats[id].usages + Cardinality(Open(id)') <= stats[id].requests
                      /\ disk.rows[id].usages <= disk.rows[id].requests
    BY DEF TokensWithinRequests
  <2> QED
    BY <1>1, CountsAreNumbers DEF TokensWithinRequests
<1>3. CountedOnce'
  <2> SUFFICES ASSUME NEW id \in Accounts
               PROVE  /\ disk.rows[id].requests <= surfaced[id]
                      /\ stats[id].requests + Cardinality(Recording(id)') <= surfaced[id]
    BY DEF CountedOnce
  <2> QED
    BY <1>1, CountsAreNumbers DEF CountedOnce
<1> QED
  BY <1>2, <1>3

\* The steps of a request that count nothing.
LEMMA QuietSteps ==
    ASSUME AccountingInv, NEW h \in Handlers,
           Receive(h) \/ Unavailable(h) \/ \E usage \in BOOLEAN : Read(h, usage) \/ Copy(h, usage)
    PROVE  TokensWithinRequests' /\ CountedOnce'
<1>1. UNCHANGED <<stats, disk, surfaced, straddled>>
  BY DEF Receive, Unavailable, Read, Copy, statsVars, fileVars
<1>2. ASSUME NEW c, call' = [call EXCEPT ![h] = c],
             \/ c.pc \in {"idle", "forward"}
             \/ /\ c.pc = "tokens" /\ c.worker = call[h].worker
                /\ call[h].pc \in {"read", "copy"}
      PROVE  \A id \in Accounts : Open(id)' \subseteq Open(id) /\ Recording(id)' \subseteq Recording(id)
  <2> TAKE id \in Accounts
  <2>1. c.worker = id /\ c.pc \in {"copy", "read", "tokens"} => h \in Open(id)
    BY <1>2 DEF Open
  <2>2. c.pc # "record"
    BY <1>2
  <2>3. CallsOK
    BY DEF AccountingInv
  <2>4. /\ Open(id)' = IF c.worker = id /\ c.pc \in {"copy", "read", "tokens"}
                        THEN Open(id) \cup {h} ELSE Open(id) \ {h}
        /\ Recording(id)' = IF c.worker = id /\ c.pc = "record"
                            THEN Recording(id) \cup {h} ELSE Recording(id) \ {h}
    BY <1>2, <2>3, GroupsMove
  <2> QED
    BY <2>1, <2>2, <2>4
<1>3. PICK c : /\ call' = [call EXCEPT ![h] = c]
               /\ \/ c.pc \in {"idle", "forward"}
                  \/ /\ c.pc = "tokens" /\ c.worker = call[h].worker
                     /\ call[h].pc \in {"read", "copy"}
  <2> DEFINE t == [call[h] EXCEPT !.pc = "tokens"]
  <2>1. call[h] \in Calls
    BY DEF AccountingInv, CallsOK
  <2>2. t.pc = "tokens" /\ t.worker = call[h].worker
    BY <2>1 DEF Calls
  <2>3. Goto(h, "tokens") => call' = [call EXCEPT ![h] = t]
    BY DEF Goto
  <2> HIDE DEF t
  <2>4. CASE Receive(h) \/ Unavailable(h)
    <3>1. Idle.pc = "idle" /\ [Idle EXCEPT !.pc = "forward"].pc = "forward"
      BY DEF Idle
    <3> QED
      BY <2>4, <3>1 DEF Receive, Unavailable
  <2>5. CASE \E usage \in BOOLEAN : Read(h, usage) \/ Copy(h, usage)
    <3>1. call[h].pc \in {"read", "copy"} /\ (Goto(h, "tokens") \/ call' = [call EXCEPT ![h] = Idle])
      BY <2>5 DEF Read, Copy
    <3>2. Idle.pc = "idle"
      BY DEF Idle
    <3> QED
      BY <3>1, <3>2, <2>2, <2>3
  <2> QED
    BY <2>4, <2>5
<1> QED
  BY <1>1, <1>2, <1>3, NothingCounted DEF AccountingInv

\* A result arrives: the account owes one more count.
LEMMA AnsweredStep ==
    ASSUME AccountingInv, NEW h \in Handlers, NEW id \in Accounts, NEW answer,
           Answered(h, id, answer)
    PROVE  TokensWithinRequests' /\ CountedOnce' /\ HistoryTyped'
<1> DEFINE c == [pc |-> "record", worker |-> id, answer |-> answer]
<1>1. /\ UNCHANGED <<stats, disk, straddled>>
      /\ call' = [call EXCEPT ![h] = c]
      /\ call[h].pc = "forward"
  BY DEF Answered, statsVars, fileVars
<1>2. /\ surfaced' \in [Accounts -> Nat]
      /\ \A i \in Accounts : surfaced'[i] = IF i = id THEN surfaced[i] + 1 ELSE surfaced[i]
  BY DEF Answered, AccountingInv, HistoryTyped
<1>3. ASSUME NEW i \in Accounts
      PROVE  /\ Open(i)' = Open(i)
             /\ Recording(i)' = IF i = id THEN Recording(i) \cup {h} ELSE Recording(i)
             /\ h \notin Recording(i)
  <2>1. h \notin Open(i) /\ h \notin Recording(i)
    BY <1>1 DEF Open, Recording
  <2>2. c.worker = id /\ c.pc = "record"
    OBVIOUS
  <2>3. CallsOK
    BY DEF AccountingInv
  <2> HIDE DEF c
  <2>4. /\ Open(i)' = IF c.worker = i /\ c.pc \in {"copy", "read", "tokens"}
                       THEN Open(i) \cup {h} ELSE Open(i) \ {h}
        /\ Recording(i)' = IF c.worker = i /\ c.pc = "record"
                           THEN Recording(i) \cup {h} ELSE Recording(i) \ {h}
    BY <1>1, <2>3, GroupsMove
  <2> QED
    BY <2>1, <2>2, <2>4
<1>4. ASSUME NEW i \in Accounts
      PROVE  /\ Cardinality(Recording(i)) \in Nat
             /\ Cardinality(Recording(i)') = IF i = id THEN Cardinality(Recording(i)) + 1
                                                       ELSE Cardinality(Recording(i))
  BY <1>3, Groups, GroupSize
<1>5. TokensWithinRequests'
  BY <1>1, <1>3 DEF TokensWithinRequests, AccountingInv
<1>6. CountedOnce'
  <2> SUFFICES ASSUME NEW i \in Accounts
               PROVE  /\ disk.rows[i].requests <= surfaced'[i]
                      /\ stats[i].requests + Cardinality(Recording(i)') <= surfaced'[i]
    BY <1>1 DEF CountedOnce
  <2> QED
    BY <1>2, <1>4, CountsAreNumbers DEF CountedOnce, AccountingInv
<1> QED
  BY <1>1, <1>2, <1>5, <1>6 DEF AccountingInv, HistoryTyped

\* A request is counted: what was owed is now in the counter, and its tokens
\* have room.
LEMMA CountStep ==
    ASSUME AccountingInv, NEW h \in Handlers, Count(h)
    PROVE  TokensWithinRequests' /\ CountedOnce'
<1> DEFINE id == call[h].worker
           next == IF call[h].answer = "json" THEN "read" ELSE "copy"
           c == [call[h] EXCEPT !.pc = next]
<1>1. CallsOK /\ stats \in Rows /\ call[h] \in Calls /\ id \in Accounts
  BY DEF AccountingInv, StatsInv, StatsTypeOK, CallsOK, CallFits, Count
<1>2. /\ UNCHANGED <<disk, surfaced, straddled>>
      /\ call' = [call EXCEPT ![h] = c]
      /\ call[h].pc = "record"
  BY DEF Count, Goto, RecordRequest, fileVars
<1>3. \A i \in Accounts :
         /\ stats'[i].requests = IF i = id THEN stats[i].requests + 1 ELSE stats[i].requests
         /\ stats'[i].usages = stats[i].usages
  BY <1>1, RequestCounts DEF Count
<1>4. c.worker = id /\ c.pc \in {"copy", "read"}
  BY <1>1 DEF Calls
<1> HIDE DEF c
<1>5. ASSUME NEW i \in Accounts
      PROVE  /\ Open(i)' = IF i = id THEN Open(i) \cup {h} ELSE Open(i)
             /\ Recording(i)' = IF i = id THEN Recording(i) \ {h} ELSE Recording(i)
             /\ h \notin Open(i)
             /\ i = id => h \in Recording(i)
  <2>1. h \notin Open(i) /\ (h \in Recording(i) <=> i = id)
    BY <1>2 DEF Open, Recording
  <2>2. /\ Open(i)' = IF c.worker = i /\ c.pc \in {"copy", "read", "tokens"}
                       THEN Open(i) \cup {h} ELSE Open(i) \ {h}
        /\ Recording(i)' = IF c.worker = i /\ c.pc = "record"
                           THEN Recording(i) \cup {h} ELSE Recording(i) \ {h}
    BY <1>1, <1>2, GroupsMove
  <2> QED
    BY <1>4, <2>1, <2>2
<1> HIDE DEF id
<1>6. ASSUME NEW i \in Accounts
      PROVE  /\ Cardinality(Open(i)) \in Nat /\ Cardinality(Recording(i)) \in Nat
             /\ Cardinality(Open(i)') = IF i = id THEN Cardinality(Open(i)) + 1
                                                  ELSE Cardinality(Open(i))
             /\ Cardinality(Recording(i)') = IF i = id THEN Cardinality(Recording(i)) - 1
                                                       ELSE Cardinality(Recording(i))
  BY <1>5, Groups, GroupSize
<1>7. TokensWithinRequests'
  <2> SUFFICES ASSUME ~straddled, NEW i \in Accounts
               PROVE  /\ stats'[i].usages + Cardinality(Open(i)') <= stats'[i].requests
                      /\ disk.rows[i].usages <= disk.rows[i].requests
    BY <1>2 DEF TokensWithinRequests
  <2> QED
    BY <1>3, <1>6, CountsAreNumbers DEF TokensWithinRequests, AccountingInv
<1>8. CountedOnce'
  <2> SUFFICES ASSUME NEW i \in Accounts
               PROVE  /\ disk.rows[i].requests <= surfaced[i]
                      /\ stats'[i].requests + Cardinality(Recording(i)') <= surfaced[i]
    BY <1>2 DEF CountedOnce
  <2> QED
    BY <1>3, <1>6, CountsAreNumbers DEF CountedOnce, AccountingInv
<1> QED
  BY <1>7, <1>8

\* Tokens are added: the request gives its room up.
LEMMA TokensStep ==
    ASSUME AccountingInv, NEW h \in Handlers, CountTokens(h)
    PROVE  TokensWithinRequests' /\ CountedOnce'
<1> DEFINE id == call[h].worker
<1>1. CallsOK /\ stats \in Rows /\ id \in Accounts
  BY DEF AccountingInv, StatsInv, StatsTypeOK, CallsOK, CallFits, CountTokens
<1>2. /\ UNCHANGED <<disk, surfaced, straddled>>
      /\ call' = [call EXCEPT ![h] = Idle]
      /\ call[h].pc = "tokens"
  BY DEF CountTokens, AddTokens, fileVars
<1>3. \A i \in Accounts :
         /\ stats'[i].requests = stats[i].requests
         /\ stats'[i].usages = IF i = id THEN stats[i].usages + 1 ELSE stats[i].usages
  BY <1>1, TokenCounts DEF CountTokens
<1>4. Idle.pc = "idle"
  BY DEF Idle
<1>5. ASSUME NEW i \in Accounts
      PROVE  /\ Open(i)' = IF i = id THEN Open(i) \ {h} ELSE Open(i)
             /\ Recording(i)' = Recording(i)
             /\ i = id => h \in Open(i)
  <2>1. h \notin Recording(i) /\ (h \in Open(i) <=> i = id)
    BY <1>2 DEF Open, Recording
  <2>2. Open(i)' = Open(i) \ {h} /\ Recording(i)' = Recording(i) \ {h}
    <3> DEFINE c == Idle
    <3>1. c.pc = "idle" /\ call' = [call EXCEPT ![h] = c]
      BY <1>2, <1>4
    <3> HIDE DEF c
    <3>2. /\ Open(i)' = IF c.worker = i /\ c.pc \in {"copy", "read", "tokens"}
                         THEN Open(i) \cup {h} ELSE Open(i) \ {h}
          /\ Recording(i)' = IF c.worker = i /\ c.pc = "record"
                             THEN Recording(i) \cup {h} ELSE Recording(i) \ {h}
      BY <1>1, <3>1, GroupsMove
    <3> QED
      BY <3>1, <3>2
  <2> QED
    BY <2>1, <2>2
<1> HIDE DEF id
<1>6. ASSUME NEW i \in Accounts
      PROVE  /\ Cardinality(Open(i)) \in Nat
             /\ Cardinality(Open(i)') = IF i = id THEN Cardinality(Open(i)) - 1
                                                  ELSE Cardinality(Open(i))
  BY <1>5, Groups, GroupSize
<1>7. TokensWithinRequests'
  <2> SUFFICES ASSUME ~straddled, NEW i \in Accounts
               PROVE  /\ stats'[i].usages + Cardinality(Open(i)') <= stats'[i].requests
                      /\ disk.rows[i].usages <= disk.rows[i].requests
    BY <1>2 DEF TokensWithinRequests
  <2> QED
    BY <1>3, <1>6, CountsAreNumbers DEF TokensWithinRequests, AccountingInv
<1>8. CountedOnce'
  BY <1>2, <1>3, <1>5 DEF CountedOnce, AccountingInv
<1> QED
  BY <1>7, <1>8

\* A reset: memory has no tokens and no requests, and unless it is remembered
\* as straddling no request is open.
LEMMA ResetStep ==
    ASSUME AccountingInv, ResetStats
    PROVE  TokensWithinRequests' /\ CountedOnce' /\ straddled' \in BOOLEAN
<1>1. /\ stats' = NoRows
      /\ UNCHANGED <<disk, surfaced, call>>
      /\ straddled' = (straddled \/ \E id \in Accounts : Open(id) # {})
  BY DEF ResetStats, ResetAll, fileVars
<1>2. \A id \in Accounts : stats'[id].requests = 0 /\ stats'[id].usages = 0
  BY <1>1 DEF NoRows
<1>3. \A id : Open(id)' = Open(id) /\ Recording(id)' = Recording(id)
  BY <1>1 DEF Open, Recording
<1>4. TokensWithinRequests'
  <2> SUFFICES ASSUME ~straddled', NEW id \in Accounts
               PROVE  /\ stats'[id].usages + Cardinality(Open(id)') <= stats'[id].requests
                      /\ disk'.rows[id].usages <= disk'.rows[id].requests
    BY DEF TokensWithinRequests
  <2>1. Cardinality(Open(id)') = 0
    BY <1>1, <1>3, NoGroup
  <2>2. disk.rows[id].usages <= disk.rows[id].requests
    BY <1>1 DEF AccountingInv, TokensWithinRequests
  <2> QED
    BY <1>1, <1>2, <2>1, <2>2
<1>5. CountedOnce'
  <2> SUFFICES ASSUME NEW id \in Accounts
               PROVE  /\ disk'.rows[id].requests <= surfaced'[id]
                      /\ stats'[id].requests + Cardinality(Recording(id)') <= surfaced'[id]
    BY DEF CountedOnce
  <2>1. Cardinality(Recording(id)) \in Nat
    BY Groups, GroupSize
  <2>2. /\ disk.rows[id].requests <= surfaced[id]
        /\ stats[id].requests + Cardinality(Recording(id)) <= surfaced[id]
    BY DEF AccountingInv, CountedOnce
  <2>3. stats[id].requests \in Nat /\ surfaced[id] \in Nat
    BY CountsAreNumbers DEF AccountingInv
  <2> QED
    BY <1>1, <1>2, <1>3, <2>1, <2>2, <2>3
<1> QED
  BY <1>1, <1>4, <1>5 DEF AccountingInv, HistoryTyped

\* When all requests are idle, what is in memory and in the file decides.
LEMMA AllIdle ==
    ASSUME \A h \in Handlers : call'[h] = Idle,
           \A id \in Accounts : stats'[id].requests \in Nat /\ stats'[id].usages \in Nat,
           ~straddled' => \A id \in Accounts :
              /\ stats'[id].usages <= stats'[id].requests
              /\ disk'.rows[id].usages <= disk'.rows[id].requests,
           \A id \in Accounts :
              disk'.rows[id].requests <= surfaced'[id] /\ stats'[id].requests <= surfaced'[id]
    PROVE  TokensWithinRequests' /\ CountedOnce'
<1>1. \A id \in Accounts : Open(id)' = {} /\ Recording(id)' = {}
  BY DEF Open, Recording, Idle
<1>2. \A id \in Accounts : Cardinality(Open(id)') = 0 /\ Cardinality(Recording(id)') = 0
  BY <1>1, NoGroup
<1>3. TokensWithinRequests'
  BY <1>2 DEF TokensWithinRequests
<1>4. CountedOnce'
  BY <1>2 DEF CountedOnce
<1> QED
  BY <1>3, <1>4

\* The process dies, and memory and requests with it.
LEMMA DieStep ==
    ASSUME AccountingInv, Die
    PROVE  TokensWithinRequests' /\ CountedOnce'
<1>1. /\ \A h \in Handlers : call'[h] = Idle
      /\ UNCHANGED <<disk, surfaced, straddled>>
      /\ \A id \in Accounts : stats'[id].requests = 0 /\ stats'[id].usages = 0
  BY DEF Die, Crash, fileVars, NoRows
<1>2. ~straddled => \A id \in Accounts : disk.rows[id].usages <= disk.rows[id].requests
  BY DEF AccountingInv, TokensWithinRequests
<1>3. \A id \in Accounts : disk.rows[id].requests <= surfaced[id]
  BY DEF AccountingInv, CountedOnce
<1>4. \A id \in Accounts : 0 <= surfaced[id]
  BY DEF AccountingInv, HistoryTyped
<1> QED
  BY <1>1, <1>2, <1>3, <1>4, AllIdle

\* A start finds no request and takes the file's counters.
LEMMA BootStep ==
    ASSUME AccountingInv, Boot, UNCHANGED handlerVars
    PROVE  TokensWithinRequests' /\ CountedOnce'
<1>1. /\ \A h \in Handlers : call'[h] = Idle
      /\ UNCHANGED <<disk, surfaced, straddled>>
      /\ stats' = disk.rows
  BY DEF Boot, fileVars, handlerVars, AccountingInv, IdleWhenDown
<1>2. \A id \in Accounts : disk.rows[id].requests \in Nat /\ disk.rows[id].usages \in Nat
  BY CountsAreNumbers DEF AccountingInv
<1>3. ~straddled => \A id \in Accounts : disk.rows[id].usages <= disk.rows[id].requests
  BY DEF AccountingInv, TokensWithinRequests
<1>4. \A id \in Accounts : disk.rows[id].requests <= surfaced[id]
  BY DEF AccountingInv, CountedOnce
<1> QED
  BY <1>1, <1>2, <1>3, <1>4, AllIdle

\* A rename puts memory's counters into the file.
LEMMA RenameStep ==
    ASSUME AccountingInv, Rename, UNCHANGED handlerVars
    PROVE  TokensWithinRequests' /\ CountedOnce'
<1>1. UNCHANGED <<stats, call, surfaced, straddled>> /\ disk'.rows = stats
  BY RenameResult DEF Rename, handlerVars, AccountingInv, Whole
<1>2. \A id : Open(id)' = Open(id) /\ Recording(id)' = Recording(id)
  BY <1>1 DEF Open, Recording
<1>3. ASSUME NEW id \in Accounts
      PROVE  Cardinality(Open(id)) \in Nat /\ Cardinality(Recording(id)) \in Nat
  BY Groups, GroupSize
<1>4. TokensWithinRequests'
  <2> SUFFICES ASSUME ~straddled, NEW id \in Accounts
               PROVE  /\ stats[id].usages + Cardinality(Open(id)) <= stats[id].requests
                      /\ stats[id].usages <= stats[id].requests
    BY <1>1, <1>2 DEF TokensWithinRequests
  <2> QED
    BY <1>3, CountsAreNumbers DEF TokensWithinRequests, AccountingInv
<1>5. CountedOnce'
  <2> SUFFICES ASSUME NEW id \in Accounts
               PROVE  /\ stats[id].requests <= surfaced[id]
                      /\ stats[id].requests + Cardinality(Recording(id)) <= surfaced[id]
    BY <1>1, <1>2 DEF CountedOnce
  <2> QED
    BY <1>3, CountsAreNumbers DEF CountedOnce, AccountingInv
<1> QED
  BY <1>4, <1>5

\* Everything else the store does alone leaves the counters where they are.
LEMMA OtherStoreSteps ==
    ASSUME AccountingInv, UNCHANGED handlerVars,
           \/ TakeSignal \/ TimerEnds \/ BeginWrite \/ EndWrite \/ SaveFails
           \/ TakeClose \/ Tick \/ Close \/ UNCHANGED statsVars
    PROVE  TokensWithinRequests' /\ CountedOnce'
<1>1. UNCHANGED <<stats, disk>>
  BY DEF TakeSignal, TimerEnds, BeginWrite, EndWrite, SaveFails, TakeClose, Tick, Close, statsVars,
     fileVars
<1>2. UNCHANGED <<call, surfaced, straddled>>
  BY DEF handlerVars
<1>3. \A id \in Accounts : Open(id)' \subseteq Open(id) /\ Recording(id)' \subseteq Recording(id)
  BY <1>2 DEF Open, Recording
<1> QED
  BY <1>1, <1>2, <1>3, NothingCounted DEF AccountingInv

\* No step lets a request run without a process.
LEMMA IdleStays ==
    ASSUME AccountingInv, [V1Next]_v1Vars
    PROVE  IdleWhenDown'
<1> SUFFICES ASSUME ~Running' PROVE \A h \in Handlers : call'[h] = Idle
  BY DEF IdleWhenDown
<1>1. CASE Die
  BY <1>1 DEF Die
<1>2. CASE ~Running /\ UNCHANGED call
  BY <1>2 DEF AccountingInv, IdleWhenDown
<1>3. ASSUME NEW h \in Handlers,
             \/ Receive(h) \/ Unavailable(h) \/ Count(h) \/ CountTokens(h)
             \/ \E id \in Accounts, answer \in {"stream", "json", "other", "error"} :
                   Answered(h, id, answer)
             \/ \E usage \in BOOLEAN : Read(h, usage) \/ Copy(h, usage)
      PROVE  FALSE
  <2>1. loop' = loop
    BY <1>3 DEF Receive, Unavailable, Count, CountTokens, Answered, Read, Copy, RecordRequest, AddTokens,
       statsVars, loopVars
  <2>2. ~Running
    BY <2>1 DEF Running
  <2>3. call[h].pc = "idle"
    BY <2>2 DEF AccountingInv, IdleWhenDown, Idle
  <2> QED
    BY <1>3, <2>2, <2>3 DEF Receive, Unavailable, Count, CountTokens, Answered, Read, Copy
<1>4. CASE \/ ResetStats
           \/ /\ LoopStep \/ SaveFails \/ TakeClose \/ Tick \/ Close \/ Boot
              /\ UNCHANGED handlerVars
  <2>1. Running' \/ (loop' = loop /\ (Tick \/ Close \/ ResetStats))
    BY <1>4, SaveMoves DEF LoopStep, TakeSignal, TimerEnds, BeginWrite, EndWrite, Rename, SaveFails, TakeClose,
       Tick, Close, Boot, ResetStats, ResetAll, Running, loopVars, Waiting, Writing, Renaming
  <2>2. ~Running
    BY <2>1 DEF Running
  <2>3. UNCHANGED call
    BY <1>4 DEF handlerVars, ResetStats
  <2> QED
    BY <1>2, <2>2, <2>3
<1>5. CASE UNCHANGED v1Vars
  BY <1>2, <1>5 DEF v1Vars, statsVars, handlerVars, loopVars, Running
<1> QED
  BY <1>1, <1>3, <1>4, <1>5 DEF V1Next

\* Every step preserves the invariant.
LEMMA AccountingNext == AccountingInv /\ [V1Next]_v1Vars => AccountingInv'
<1> SUFFICES ASSUME AccountingInv, [V1Next]_v1Vars PROVE AccountingInv'
  OBVIOUS
<1>1. StatsInv' /\ CallsOK' /\ IdleWhenDown'
  BY CallsStay, V1Steps, StatsNextInv, IdleStays DEF AccountingInv
<1>2. TokensWithinRequests' /\ CountedOnce' /\ HistoryTyped'
  <2>1. ASSUME UNCHANGED <<surfaced, straddled>> PROVE HistoryTyped'
    BY <2>1 DEF AccountingInv, HistoryTyped
  <2>2. ASSUME NEW h \in Handlers,
               \/ Receive(h) \/ Unavailable(h)
               \/ \E usage \in BOOLEAN : Read(h, usage) \/ Copy(h, usage)
        PROVE  TokensWithinRequests' /\ CountedOnce' /\ HistoryTyped'
    <3>1. UNCHANGED <<surfaced, straddled>>
      BY <2>2 DEF Receive, Unavailable, Read, Copy
    <3> QED
      BY <2>1, <2>2, <3>1, QuietSteps
  <2>3. ASSUME NEW h \in Handlers, NEW id \in Accounts,
               NEW answer \in {"stream", "json", "other", "error"}, Answered(h, id, answer)
        PROVE  TokensWithinRequests' /\ CountedOnce' /\ HistoryTyped'
    BY <2>3, AnsweredStep
  <2>4. ASSUME NEW h \in Handlers, Count(h) \/ CountTokens(h)
        PROVE  TokensWithinRequests' /\ CountedOnce' /\ HistoryTyped'
    BY <2>1, <2>4, CountStep, TokensStep DEF Count, CountTokens
  <2>5. CASE ResetStats
    <3>1. UNCHANGED surfaced
      BY <2>5 DEF ResetStats
    <3> QED
      BY <2>5, <3>1, ResetStep DEF AccountingInv, HistoryTyped
  <2>6. CASE Die
    BY <2>1, <2>6, DieStep DEF Die
  <2>7. CASE /\ LoopStep \/ SaveFails \/ TakeClose \/ Tick \/ Close \/ Boot
             /\ UNCHANGED handlerVars
    BY <2>1, <2>7, RenameStep, BootStep, OtherStoreSteps DEF LoopStep, handlerVars
  <2>8. CASE UNCHANGED v1Vars
    BY <2>1, <2>8, OtherStoreSteps DEF v1Vars, handlerVars
  <2> QED
    BY <2>2, <2>3, <2>4, <2>5, <2>6, <2>7, <2>8 DEF V1Next
<1> QED
  BY <1>1, <1>2 DEF AccountingInv

\* At the start nothing was counted and nothing is owed.
LEMMA AccountingInit == V1Init => AccountingInv
<1> SUFFICES ASSUME V1Init PROVE AccountingInv
  OBVIOUS
<1>1. StatsInv
  BY StatsInitInv DEF V1Init
<1>2. CallsOK
  BY DEF V1Init, CallsOK, CallFits, Calls, Idle
<1>3. HistoryTyped /\ IdleWhenDown
  BY DEF V1Init, HistoryTyped, IdleWhenDown
<1>4. /\ \A id \in Accounts : Open(id) = {} /\ Recording(id) = {}
      /\ \A id \in Accounts : surfaced[id] = 0
  BY DEF V1Init, Open, Recording, Idle
<1>5. \A id \in Accounts : /\ stats[id].requests = 0 /\ stats[id].usages = 0
                           /\ disk.rows[id].requests = 0 /\ disk.rows[id].usages = 0
  BY DEF V1Init, StatsInit, NoRows, Whole
<1>6. \A id \in Accounts : Cardinality(Open(id)) = 0 /\ Cardinality(Recording(id)) = 0
  BY <1>4, NoGroup
<1>7. TokensWithinRequests /\ CountedOnce
  BY <1>4, <1>5, <1>6 DEF TokensWithinRequests, CountedOnce
<1> QED
  BY <1>1, <1>2, <1>3, <1>7 DEF AccountingInv

\* The invariant holds in every state of every execution of the handlers.
THEOREM AccountingInvariant == V1Spec => []AccountingInv
<1> QED
  BY AccountingInit, AccountingNext, PTL DEF V1Spec

\* The types of the store and of its callers.
THEOREM V1TypesHold == V1Spec => []V1TypeOK
<1>1. AccountingInv => V1TypeOK
  BY HandlersAssumption DEF AccountingInv, StatsInv, CallsOK, CallFits, HistoryTyped, V1TypeOK
<1> QED
  BY <1>1, AccountingInvariant, PTL

\* Tokens belong to counted requests, in memory and in the file, for any number of
\* requests that interleave with saves, crashes and restarts, unless a reset fell
\* between a request and its tokens.
THEOREM TokensHaveRequests == V1Spec => []TokensWithinRequests
<1>1. AccountingInv => TokensWithinRequests
  BY DEF AccountingInv
<1> QED
  BY <1>1, AccountingInvariant, PTL

\* No result is counted twice, by any number of requests and through any number of
\* resets, failed saves, crashes and restarts.
THEOREM NothingCountedTwice == V1Spec => []CountedOnce
<1>1. AccountingInv => CountedOnce
  BY DEF AccountingInv
<1> QED
  BY <1>1, AccountingInvariant, PTL

=============================================================================
