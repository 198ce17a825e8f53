------------------------------ MODULE Rotator ------------------------------
(***************************************************************************)
(* The worker schedule of the gateway: internal/rotator/rotator.go.        *)
(*                                                                         *)
(* The rotator owns an ordered list of workers (one upstream account each) *)
(* and a cursor.  Callers pick a worker, use it without holding the lock,  *)
(* and report what happened with the Mark operations.  Every operation     *)
(* takes the mutex for its whole body, so each is one action here.         *)
(*                                                                         *)
(* Time is a natural number.  Go's zero time is 0 and the clock starts at  *)
(* 1.  A caller evaluates time.Now() before it waits for the mutex, so an  *)
(* operation may run with a time up to MaxLag behind the clock.            *)
(***************************************************************************)
EXTENDS Integers, Sequences, SequencesExt

CONSTANTS
    WorkerLists,        \* the worker lists the configuration may hold: sequences of ids
    AutoDisableAfter,   \* consecutive failures that disable a worker
    AutoDisableFor,     \* how long the disable lasts
    CooldownBase,       \* the first backoff
    CooldownMax,        \* the cap of the backoff
    DayLength,          \* the 24 hours nextMidnight adds
    DayStarts,          \* the local midnights, as instants
    BanDurs,            \* the durations MarkBan is called with
    LongestBan,         \* none of them, and no day, is longer than this
    MaxLag,             \* how far a caller's time.Now() may lie behind the clock
    MaxTime             \* bound of the clock

BanDuration == DayLength

Ids == UNION {Range(list) : list \in WorkerLists}

(***************************************************************************)
(* What the code's constants satisfy.  The backoff assumption says that    *)
(* shifting the base never leaves the positive durations (in Go: never     *)
(* overflows int64) below the failure limit.                               *)
(***************************************************************************)
ASSUME ListAssumption == \A list \in WorkerLists : list \in Seq(Ids)
ASSUME LimitAssumption ==
    /\ AutoDisableAfter \in Nat \ {0}
    /\ AutoDisableFor \in Nat \ {0}
    /\ CooldownBase \in Nat \ {0}
    /\ CooldownMax \in Nat \ {0}
    /\ CooldownMax <= AutoDisableFor
ASSUME BackoffAssumption ==
    \A fails \in 1..(AutoDisableAfter - 1) : CooldownBase * 2^(fails - 1) \in Nat \ {0}
ASSUME CalendarAssumption ==
    /\ DayLength \in Nat \ {0}
    /\ DayStarts \in SUBSET Nat
    /\ 0 \in DayStarts
ASSUME BanAssumption ==
    /\ LongestBan \in Nat
    /\ DayLength <= LongestBan
    /\ BanDurs \in SUBSET (0..LongestBan)
ASSUME ClockAssumption == MaxLag \in Nat /\ MaxTime \in Nat \ {0}

VARIABLES
    workers,    \* Rotator.workers: the runtime state of every worker, in list order
    nextIdx,    \* Rotator.nextIdx: the cursor, counted from 0 as in the code
    now         \* the wall clock

rotatorVars == <<workers, nextIdx, now>>

WorkerState == [id : Ids, cooldownUntil : Nat, bannedUntil : Nat,
                fails : 0..(AutoDisableAfter - 1), lastError : {"", "error"}]

NewWorker(id) == [id |-> id, cooldownUntil |-> 0, bannedUntil |-> 0,
                  fails |-> 0, lastError |-> ""]

\* The values time.Now() may have had when the caller of an operation read it.
CallTimes == {t \in 1..now : now - MaxLag <= t}

----------------------------------------------------------------------------
(* The state of one worker. *)

Ready(w, t)  == t > w.cooldownUntil /\ t > w.bannedUntil
Banned(w, t) == t < w.bannedUntil
Cooling(w, t) == t < w.cooldownUntil

Status(w, t) == IF Banned(w, t) THEN "banned-24h"
                ELSE IF Cooling(w, t) THEN "cooldown" ELSE "ready"

\* Position of the first worker with this id; 0 when there is none.
FindLocked(id) == SelectInSeq(workers, LAMBDA w : w.id = id)

----------------------------------------------------------------------------
(* Selection. *)

\* The position k steps past the cursor.
At(k) == ((nextIdx + k) % Len(workers)) + 1

ReadyOffsets(t) == {k \in 0..(Len(workers) - 1) : Ready(workers[At(k)], t)}
FreshOffsets(t, exclude) == {k \in ReadyOffsets(t) : workers[At(k)].id \notin exclude}
RecoverableOrBanned(t) == {i \in 1..Len(workers) : Cooling(workers[i], t)}  \* mutant
Recoverable(t) == {i \in 1..Len(workers) : ~Banned(workers[i], t) /\ Cooling(workers[i], t)}

\* The position pickLocked returns; 0 is nil.
Picked(t, exclude) ==
    CASE FreshOffsets(t, exclude) # {} -> At(Min(FreshOffsets(t, exclude)))
      [] FreshOffsets(t, exclude) = {} /\ ReadyOffsets(t) # {} -> At(Min(ReadyOffsets(t)))
      [] ReadyOffsets(t) = {} /\ Recoverable(t) # {} -> Min(Recoverable(t))
      [] OTHER -> 0

\* Mutant: the cursor is left at the worker that was found, not past it.
CursorAtPicked(t, exclude) ==
    IF Picked(t, exclude) # 0 THEN Picked(t, exclude) - 1 ELSE nextIdx

\* The cursor pickLocked leaves: just past a fresh worker, one further in the
\* two fallbacks, unmoved when nothing is returned.
CursorAfter(t, exclude) ==
    CASE FreshOffsets(t, exclude) # {} -> Picked(t, exclude) % Len(workers)
      [] FreshOffsets(t, exclude) = {} /\ Picked(t, exclude) # 0 -> (nextIdx + 1) % Len(workers)
      [] OTHER -> nextIdx

PickExcluding(t, exclude) ==
    /\ UNCHANGED <<workers, now>>
    /\ nextIdx' = CursorAfter(t, exclude)

----------------------------------------------------------------------------
(* Marks.  A mark for an id that is no longer configured changes nothing. *)

\* Mutant: a late success lifts the ban as well.
SuccessLiftsBan(id) ==
    LET i == FindLocked(id)
    IN  /\ workers' = IF i = 0 THEN workers
                      ELSE [workers EXCEPT ![i].fails = 0, ![i].bannedUntil = 0]
        /\ UNCHANGED <<nextIdx, now>>

MarkSuccess(id) ==
    LET i == FindLocked(id)
    IN  /\ workers' = IF i = 0 THEN workers ELSE [workers EXCEPT ![i].fails = 0]
        /\ UNCHANGED <<nextIdx, now>>

Backoff(fails) ==
    IF CooldownBase * 2^(fails - 1) > CooldownMax THEN CooldownMax
    ELSE CooldownBase * 2^(fails - 1)

\* Mutant: backoffs add up.
FailuresAddUp(w, t) ==
    [w EXCEPT !.fails = (w.fails + 1) % AutoDisableAfter,
              !.cooldownUntil = Max({t, @}) + Backoff(w.fails + 1)]

\* Mutant: only the failure that reaches the limit takes the worker out.
FailureWithoutBackoff(w, t) ==
    IF w.fails + 1 >= AutoDisableAfter
    THEN [w EXCEPT !.fails = 0, !.cooldownUntil = t + AutoDisableFor]
    ELSE [w EXCEPT !.fails = w.fails + 1]

AfterFailure(w, t) ==
    IF w.fails + 1 >= AutoDisableAfter
    THEN [w EXCEPT !.fails = 0, !.cooldownUntil = t + AutoDisableFor]
    ELSE [w EXCEPT !.fails = w.fails + 1, !.cooldownUntil = t + Backoff(w.fails + 1)]

MarkCooldown(id, t) ==
    LET i == FindLocked(id)
    IN  /\ workers' = IF i = 0 THEN workers
                      ELSE [workers EXCEPT ![i] = AfterFailure(workers[i], t)]
        /\ UNCHANGED <<nextIdx, now>>

StartOfDay(t) == Max({d \in DayStarts : d <= t})
NextMidnight(t) == StartOfDay(t) + DayLength

BanEnd(dur, t) == IF dur = BanDuration THEN NextMidnight(t) ELSE t + dur

AfterBan(w, dur, t) ==
    [w EXCEPT !.bannedUntil = BanEnd(dur, t), !.cooldownUntil = 0, !.fails = 0]

MarkBan(id, dur, t) ==
    LET i == FindLocked(id)
    IN  /\ workers' = IF i = 0 THEN workers
                      ELSE [workers EXCEPT ![i] = AfterBan(workers[i], dur, t)]
        /\ UNCHANGED <<nextIdx, now>>

\* Only whether a worker has a last error is kept, not the text or its time.
MarkError(id) ==
    LET i == FindLocked(id)
    IN  /\ workers' = IF i = 0 THEN workers ELSE [workers EXCEPT ![i].lastError = "error"]
        /\ UNCHANGED <<nextIdx, now>>

----------------------------------------------------------------------------
(* Reconfiguration. *)

\* The map of previous states keeps the last worker of a repeated id.
FindPrevious(id) == SelectLastInSeq(workers, LAMBDA w : w.id = id)

CarriesNothing(id) == NewWorker(id)   \* mutant

Carried(id) ==
    LET i == FindPrevious(id) IN IF i = 0 THEN NewWorker(id) ELSE workers[i]

\* Mutant: the cursor keeps its value when the list shrinks.
SyncKeepsCursor(list) ==
    /\ workers' = [i \in 1..Len(list) |-> Carried(list[i])]
    /\ UNCHANGED <<nextIdx, now>>

Sync(list) ==
    /\ workers' = [i \in 1..Len(list) |-> Carried(list[i])]
    /\ nextIdx' = IF nextIdx >= Len(list) THEN 0 ELSE nextIdx
    /\ UNCHANGED now

----------------------------------------------------------------------------
RotatorInit ==
    /\ workers = <<>>
    /\ nextIdx = 0
    /\ now = 1

Tick ==
    /\ now < MaxTime
    /\ now' = now + 1
    /\ UNCHANGED <<workers, nextIdx>>

RotatorNext ==
    \/ Tick
    \/ \E list \in WorkerLists : Sync(list)
    \/ \E t \in CallTimes, exclude \in SUBSET Ids : PickExcluding(t, exclude)
    \/ \E id \in Ids : MarkSuccess(id)
    \/ \E id \in Ids, t \in CallTimes : MarkCooldown(id, t)
    \/ \E id \in Ids, dur \in BanDurs, t \in CallTimes : MarkBan(id, dur, t)
    \/ \E id \in Ids : MarkError(id)

RotatorSpec == RotatorInit /\ [][RotatorNext]_rotatorVars

----------------------------------------------------------------------------
(* On what the properties of steps below depend, besides the assumptions.  *)

\* One midnight follows another after DayLength: no day is longer or shorter.
EvenDays ==
    \A d \in DayStarts : d <= MaxTime =>
        /\ d + DayLength \in DayStarts
        /\ \A e \in DayStarts : e <= d \/ d + DayLength <= e

\* Nobody waits for the mutex as long as the shortest outage lasts.
PromptCallers ==
    /\ MaxLag <= AutoDisableFor
    /\ \A fails \in 1..(AutoDisableAfter - 1) : MaxLag <= Backoff(fails)
    /\ \A dur \in BanDurs \ {BanDuration} : MaxLag <= dur

\* relay.go, the only caller, passes no other duration.
DayBansOnly == BanDurs = {BanDuration}

\* Only a settings file edited by hand could repeat an id.
NoRepeatedIds == \A list \in WorkerLists : IsInjective(list)

----------------------------------------------------------------------------
(* Properties. *)

\* The cursor stays inside the list (or at 0 when it is empty), whatever lists
\* Sync installs: workers[nextIdx % len] in pickLocked is then always in range.
TypeOK ==
    /\ workers \in Seq(WorkerState)
    /\ nextIdx \in Nat
    /\ nextIdx < Len(workers) \/ nextIdx = 0
    /\ now \in Nat \ {0}

\* No sequence of marks takes a worker out for longer than the code promises:
\* at most AutoDisableFor from now in cooldown, at most the longest ban banned,
\* and while failures are being counted no longer than the backoff of that count.
OutageWithin(w, t) ==
    /\ w.cooldownUntil <= t + AutoDisableFor
    /\ w.fails > 0 => w.cooldownUntil <= t + Backoff(w.fails)
    /\ w.bannedUntil <= t + LongestBan

OutageBounded == \A i \in 1..Len(workers) : OutageWithin(workers[i], now)

\* What pickLocked promises its caller, in every state and for every set of
\* excluded ids: nil only when no worker is ready and none is cooling down;
\* never a hard-banned worker; a ready worker whenever there is one; and an
\* untried ready worker whenever there is one of those.
PickContract ==
    \A t \in CallTimes, exclude \in SUBSET Ids :
        LET p == Picked(t, exclude)
        IN  /\ p \in 0..Len(workers)
            /\ p = 0 => \A i \in 1..Len(workers) :
                            ~Ready(workers[i], t) /\ (Banned(workers[i], t) \/ ~Cooling(workers[i], t))
            /\ p # 0 => ~Banned(workers[p], t)
            /\ (\E i \in 1..Len(workers) : Ready(workers[i], t))
                  => p # 0 /\ Ready(workers[p], t)
            /\ (\E i \in 1..Len(workers) : Ready(workers[i], t) /\ workers[i].id \notin exclude)
                  => p # 0 /\ workers[p].id \notin exclude

\* How many steps a cursor is before position i.
Distance(cursor, i) == IF cursor <= i - 1 THEN i - 1 - cursor ELSE i - 1 - cursor + Len(workers)

\* Round-robin cannot starve anyone: a pick that passes over a ready worker the
\* caller has not tried brings the cursor strictly closer to that worker, so it
\* is passed over fewer than Len(workers) times in a row.
RotationProgress ==
    \A t \in CallTimes, exclude \in SUBSET Ids, i \in 1..Len(workers) :
        /\ Ready(workers[i], t)
        /\ workers[i].id \notin exclude
        /\ i # Picked(t, exclude)
        => Distance(CursorAfter(t, exclude), i) < Distance(nextIdx, i)

\* The workers of the current list and of the next one that have the same id.
Survivors == {p \in (1..Len(workers)) \X (1..Len(workers')) : workers[p[1]].id = workers'[p[2]].id}

\* The midnights that a caller's time.Now() may still lie before.
JustPassed == {d \in DayStarts : now - MaxLag < d /\ d <= now}

\* Only the clock ends an outage: no mark, pick or reconfiguration makes a worker
\* ready that was not, unless a caller with the time of before a midnight writes a
\* ban after it, which is over already.
OutageEndsByClock ==
    [][now' = now =>
          \A p \in Survivors :
             Ready(workers'[p[2]], now) =>
                Ready(workers[p[1]], now) \/ workers'[p[2]].bannedUntil \in JustPassed]_rotatorVars

\* A hard ban is never shortened, with one exception: a caller that read its
\* clock before a midnight and marks after it writes a ban that ends at that
\* midnight, which undoes a ban of the new day.
BanLostOnlyAtMidnight ==
    [][\A p \in Survivors :
          \/ workers'[p[2]].bannedUntil >= workers[p[1]].bannedUntil
          \/ workers'[p[2]].bannedUntil \in JustPassed]_rotatorVars

=============================================================================
