--------------------------- MODULE RotatorProofs ---------------------------
(***************************************************************************)
(* Theorems about the rotator, for every number of workers, every worker   *)
(* list, every calendar and every interleaving of the callers.             *)
(***************************************************************************)
EXTENDS Rotator, WellFoundedInduction, SequenceTheorems, TLAPS

----------------------------------------------------------------------------
(* The operators the model is built from. *)

\* A non-empty set of naturals has a least element, and Min returns it.
LEMMA MinOfNats ==
    ASSUME NEW S \in SUBSET Nat, S # {}
    PROVE  Min(S) \in S /\ \A x \in S : Min(S) <= x
<1> DEFINE R == OpToRel(<, Nat)
<1>1. \A x, y \in Nat : x < y => <<x, y>> \in R
  BY Zenon DEF OpToRel
<1>2. PICK m \in S : \A y \in S : ~(<<y, m>> \in R)
  BY NatLessThanWellFounded, WFMin, Zenon
<1> HIDE DEF R
<1>3. ASSUME NEW y \in S PROVE m <= y
  <2>1. m \in Nat /\ y \in Nat
    OBVIOUS
  <2>2. ~(y < m)
    BY <1>1, <1>2, <2>1, Zenon
  <2> QED
    BY <2>1, <2>2
<1> QED
  BY <1>3, Zenon DEF Min

\* A non-empty set of numbers up to n has a greatest element; Max returns it.
LEMMA MaxOfBounded ==
    ASSUME NEW n \in Nat, NEW S \in SUBSET (0..n), S # {}
    PROVE  Max(S) \in S /\ \A x \in S : Max(S) >= x
<1> DEFINE D == {n - x : x \in S}
<1>1. D \in SUBSET Nat /\ D # {}
  <2>1. \A x \in S : n - x \in Nat
    OBVIOUS
  <2>2. \A d \in D : d \in Nat
    BY <2>1, Zenon
  <2>3. PICK x \in S : TRUE
    OBVIOUS
  <2>4. n - x \in D
    BY Zenon
  <2> HIDE DEF D
  <2> QED
    BY <2>2, <2>4
<1>2. PICK m \in S : \A y \in S : n - m <= n - y
  <2> HIDE DEF D
  <2>1. Min(D) \in D /\ \A d \in D : Min(D) <= d
    BY <1>1, MinOfNats
  <2> QED
    BY <2>1 DEF D
<1>3. \A y \in S : m >= y
  BY <1>2
<1> QED
  BY <1>3, Zenon DEF Max

\* The failure counter may be reset.
LEMMA ZeroFails == 0 \in 0..(AutoDisableAfter - 1)
BY LimitAssumption

\* findLocked returns a position of the list with that id, or 0 when none has it.
LEMMA FindLockedResult ==
    ASSUME workers \in Seq(WorkerState), NEW id
    PROVE  /\ FindLocked(id) \in 0..Len(workers)
           /\ FindLocked(id) # 0 => workers[FindLocked(id)].id = id
<1> DEFINE I == {i \in 1..Len(workers) : workers[i].id = id}
<1>1. FindLocked(id) = IF I # {} THEN Min(I) ELSE 0
  BY DEF FindLocked, SelectInSeq
<1>2. I \in SUBSET Nat
  OBVIOUS
<1>3. I # {} => Min(I) \in I
  BY <1>2, MinOfNats
<1> QED
  BY <1>1, <1>3

\* The state Sync carries over belongs to the same id.
LEMMA CarriedResult ==
    ASSUME workers \in Seq(WorkerState), NEW id \in Ids
    PROVE  /\ Carried(id) \in WorkerState
           /\ \/ Carried(id) = NewWorker(id)
              \/ \E i \in 1..Len(workers) : Carried(id) = workers[i]
<1> DEFINE I == {i \in 1..Len(workers) : workers[i].id = id}
<1>1. FindPrevious(id) = IF I # {} THEN Max(I) ELSE 0
  BY DEF FindPrevious, SelectLastInSeq
<1>2. I # {} => Max(I) \in I
  <2>1. I \in SUBSET (0..Len(workers))
    OBVIOUS
  <2>2. Len(workers) \in Nat
    OBVIOUS
  <2> HIDE DEF I
  <2> QED
    BY <2>1, <2>2, MaxOfBounded, Zenon
<1>3. FindPrevious(id) \in 0..Len(workers)
  BY <1>1, <1>2
<1>4. NewWorker(id) \in WorkerState
  BY ZeroFails DEF NewWorker, WorkerState
<1> QED
  BY <1>3, <1>4 DEF Carried

\* The backoff is positive and never beyond its cap.
LEMMA BackoffRange ==
    ASSUME NEW fails \in 1..(AutoDisableAfter - 1)
    PROVE  Backoff(fails) \in Nat \ {0} /\ Backoff(fails) <= CooldownMax
<1>1. CooldownBase * 2^(fails - 1) \in Nat \ {0}
  BY BackoffAssumption
<1> DEFINE shifted == CooldownBase * 2^(fails - 1)
<1>2. Backoff(fails) = IF shifted > CooldownMax THEN CooldownMax ELSE shifted
  BY DEF Backoff
<1> HIDE DEF shifted
<1>3. shifted \in Nat \ {0}
  BY <1>1 DEF shifted
<1> QED
  BY <1>2, <1>3, LimitAssumption

\* A ban ends at most a day, or the duration asked for, after the call.
LEMMA BanEndRange ==
    ASSUME NEW t \in Nat, NEW dur \in BanDurs
    PROVE  BanEnd(dur, t) \in Nat /\ BanEnd(dur, t) <= t + LongestBan
<1> DEFINE S == {d \in DayStarts : d <= t}
<1>1. S \in SUBSET (0..t)
  <2>1. \A d \in S : d \in Nat /\ d <= t
    BY CalendarAssumption
  <2> QED
    BY <2>1
<1>2. 0 \in S
  BY CalendarAssumption
<1>3. StartOfDay(t) = Max(S)
  BY Zenon DEF StartOfDay
<1> HIDE DEF S
<1>4. Max(S) \in S
  BY <1>1, <1>2, MaxOfBounded
<1>5. Max(S) \in 0..t
  BY <1>1, <1>4
<1>6. NextMidnight(t) \in Nat /\ NextMidnight(t) <= t + DayLength
  BY <1>3, <1>5, CalendarAssumption DEF NextMidnight
<1> QED
  BY <1>6, CalendarAssumption, BanAssumption DEF BanEnd

----------------------------------------------------------------------------
(* What one operation does to one worker keeps the worker well-formed and  *)
(* its outage bounded.                                                     *)

\* A caller's time is a natural number not after the clock.
LEMMA CallTimeRange ==
    ASSUME now \in Nat, NEW t \in CallTimes
    PROVE  t \in Nat /\ t >= 1 /\ t <= now
BY DEF CallTimes

\* A failure moves the end of the cooldown, never the end of the ban.
LEMMA FailureBounded ==
    ASSUME NEW w \in WorkerState, now \in Nat, NEW t \in Nat, t <= now, OutageWithin(w, now)
    PROVE  AfterFailure(w, t) \in WorkerState /\ OutageWithin(AfterFailure(w, t), now)
<1> DEFINE v == AfterFailure(w, t)
<1>1. w.fails \in 0..(AutoDisableAfter - 1) /\ w.bannedUntil <= now + LongestBan
  BY DEF WorkerState, OutageWithin
<1>2. CASE w.fails + 1 >= AutoDisableAfter
  <2>1. v = [w EXCEPT !.fails = 0, !.cooldownUntil = t + AutoDisableFor]
    BY <1>2 DEF AfterFailure
  <2>2. v \in WorkerState
    <3>1. t + AutoDisableFor \in Nat
      BY LimitAssumption
    <3> QED
      BY <2>1, <3>1, ZeroFails DEF WorkerState
  <2>3. v.fails = 0 /\ v.cooldownUntil = t + AutoDisableFor /\ v.bannedUntil = w.bannedUntil
    BY <2>1 DEF WorkerState
  <2> HIDE DEF v
  <2>4. OutageWithin(v, now)
    BY <1>1, <2>2, <2>3, LimitAssumption DEF OutageWithin
  <2> QED
    BY <2>2, <2>4, Zenon DEF v
<1>3. CASE ~(w.fails + 1 >= AutoDisableAfter)
  <2> DEFINE f == w.fails + 1
             b == Backoff(f)
  <2>1. v = [w EXCEPT !.fails = f, !.cooldownUntil = t + b]
    BY <1>3 DEF AfterFailure
  <2>2. f \in 1..(AutoDisableAfter - 1)
    BY <1>1, <1>3, LimitAssumption
  <2>3. b \in Nat \ {0} /\ b <= CooldownMax
    BY <2>2, BackoffRange
  <2> HIDE DEF b, f
  <2>4. v \in WorkerState
    <3>1. t + b \in Nat /\ f \in 0..(AutoDisableAfter - 1)
      BY <2>2, <2>3
    <3> QED
      BY <2>1, <3>1 DEF WorkerState
  <2>5. v.fails = f /\ v.cooldownUntil = t + b /\ v.bannedUntil = w.bannedUntil
    BY <2>1 DEF WorkerState
  <2> HIDE DEF v
  <2>6. b = Backoff(v.fails)
    BY <2>5 DEF b
  <2>7. OutageWithin(v, now)
    BY <1>1, <2>3, <2>4, <2>5, <2>6, LimitAssumption DEF OutageWithin
  <2> QED
    BY <2>4, <2>7, Zenon DEF v
<1> QED
  BY <1>2, <1>3

\* A ban replaces the cooldown and forgets the failures.
LEMMA BanBounded ==
    ASSUME NEW w \in WorkerState, now \in Nat, NEW t \in Nat, t <= now, NEW dur \in BanDurs
    PROVE  AfterBan(w, dur, t) \in WorkerState /\ OutageWithin(AfterBan(w, dur, t), now)
<1> DEFINE v == AfterBan(w, dur, t)
           e == BanEnd(dur, t)
<1>1. e \in Nat /\ e <= t + LongestBan
  BY BanEndRange
<1>2. v = [w EXCEPT !.bannedUntil = e, !.cooldownUntil = 0, !.fails = 0]
  BY DEF AfterBan
<1> HIDE DEF e
<1>3. v \in WorkerState
  <2>1. e \in Nat
    BY <1>1
  <2>2. [w EXCEPT !.bannedUntil = e, !.cooldownUntil = 0] \in WorkerState
    BY <2>1 DEF WorkerState
  <2>3. v = [[w EXCEPT !.bannedUntil = e, !.cooldownUntil = 0] EXCEPT !.fails = 0]
    BY <1>2
  <2> QED
    BY <2>2, <2>3, ZeroFails DEF WorkerState
<1>4. v.fails = 0 /\ v.cooldownUntil = 0 /\ v.bannedUntil = e
  BY <1>2 DEF WorkerState
<1> HIDE DEF v
<1>5. OutageWithin(v, now)
  BY <1>1, <1>3, <1>4, LimitAssumption, BanAssumption DEF OutageWithin
<1> QED
  BY <1>3, <1>5, Zenon DEF v

\* The two marks that touch no date.
LEMMA HarmlessMarks ==
    ASSUME NEW w \in WorkerState, now \in Nat, OutageWithin(w, now)
    PROVE  /\ [w EXCEPT !.fails = 0] \in WorkerState
           /\ OutageWithin([w EXCEPT !.fails = 0], now)
           /\ [w EXCEPT !.lastError = "error"] \in WorkerState
           /\ OutageWithin([w EXCEPT !.lastError = "error"], now)
<1>1. /\ [w EXCEPT !.fails = 0] \in WorkerState
      /\ [w EXCEPT !.lastError = "error"] \in WorkerState
  BY ZeroFails DEF WorkerState
<1>2. OutageWithin([w EXCEPT !.fails = 0], now)
  <2> DEFINE v == [w EXCEPT !.fails = 0]
  <2>1. v.fails = 0 /\ v.cooldownUntil = w.cooldownUntil /\ v.bannedUntil = w.bannedUntil
    BY DEF WorkerState
  <2> HIDE DEF v
  <2>2. OutageWithin(v, now)
    BY <2>1 DEF OutageWithin
  <2> QED
    BY <2>2 DEF v
<1>3. OutageWithin([w EXCEPT !.lastError = "error"], now)
  BY DEF OutageWithin, WorkerState
<1> QED
  BY <1>1, <1>2, <1>3

\* A new worker is ready, and an outage that is bounded stays so as time passes.
LEMMA NewWorkerBounded ==
    ASSUME now \in Nat, NEW id \in Ids
    PROVE  OutageWithin(NewWorker(id), now)
BY LimitAssumption, BanAssumption DEF OutageWithin, NewWorker

\* An outage that is bounded at one time is bounded at every later time.
LEMMA OutageShrinks ==
    ASSUME NEW w \in WorkerState, now \in Nat, OutageWithin(w, now)
    PROVE  OutageWithin(w, now + 1)
<1>1. w.fails \in 0..(AutoDisableAfter - 1) /\ w.cooldownUntil \in Nat /\ w.bannedUntil \in Nat
  BY DEF WorkerState
<1>2. w.fails > 0 => Backoff(w.fails) \in Nat
  BY <1>1, BackoffRange, LimitAssumption
<1> QED
  BY <1>1, <1>2, LimitAssumption, BanAssumption DEF OutageWithin

----------------------------------------------------------------------------
(* Selection. *)

\* The cursor counts positions of the list.
LEMMA AtRange ==
    ASSUME TypeOK, NEW k \in Nat, Len(workers) # 0
    PROVE  At(k) \in 1..Len(workers)
<1>1. nextIdx + k \in Nat /\ Len(workers) \in Nat \ {0}
  BY DEF TypeOK
<1>2. (nextIdx + k) % Len(workers) \in 0..(Len(workers) - 1)
  BY <1>1
<1> QED
  BY <1>1, <1>2 DEF At

\* Scanning from the cursor reaches every position: i is Distance(nextIdx, i) steps away.
LEMMA AtDistance ==
    ASSUME TypeOK, NEW i \in 1..Len(workers)
    PROVE  Distance(nextIdx, i) \in 0..(Len(workers) - 1) /\ At(Distance(nextIdx, i)) = i
<1> DEFINE n == Len(workers)
<1>1. n \in Nat \ {0} /\ nextIdx \in 0..(n - 1)
  BY DEF TypeOK
<1>2. CASE nextIdx <= i - 1
  <2>1. Distance(nextIdx, i) = i - 1 - nextIdx
    BY <1>2 DEF Distance
  <2>2. nextIdx + Distance(nextIdx, i) = i - 1 /\ i - 1 \in 0..(n - 1)
    BY <1>1, <2>1
  <2>3. (i - 1) % n = i - 1
    BY <1>1, <2>2
  <2> QED
    BY <1>1, <1>2, <2>1, <2>2, <2>3 DEF At
<1>3. CASE ~(nextIdx <= i - 1)
  <2>1. Distance(nextIdx, i) = i - 1 - nextIdx + n
    BY <1>3 DEF Distance
  <2>2. nextIdx + Distance(nextIdx, i) = (i - 1) + n /\ i - 1 \in 0..(n - 1)
    BY <1>1, <2>1
  <2>3. ((i - 1) + n) % n = i - 1
    BY <1>1, <2>2
  <2> QED
    BY <1>1, <1>3, <2>1, <2>2, <2>3 DEF At
<1> QED
  BY <1>2, <1>3

\* A ready worker of the list is found by the first or the second scan.
LEMMA ScansFind ==
    ASSUME TypeOK, NEW t, NEW exclude, NEW i \in 1..Len(workers), Ready(workers[i], t)
    PROVE  /\ Distance(nextIdx, i) \in ReadyOffsets(t)
           /\ workers[i].id \notin exclude => Distance(nextIdx, i) \in FreshOffsets(t, exclude)
BY AtDistance DEF ReadyOffsets, FreshOffsets

\* Which of the three scans of pickLocked decides, and what it returns.
LEMMA PickResult ==
    ASSUME TypeOK, NEW t, NEW exclude
    PROVE  LET p == Picked(t, exclude)
               F == FreshOffsets(t, exclude)
               R == ReadyOffsets(t)
           IN  /\ p \in 0..Len(workers)
               /\ F # {} => /\ Min(F) \in F /\ p = At(Min(F)) /\ p # 0
                            /\ Ready(workers[p], t) /\ workers[p].id \notin exclude
                            /\ \A k \in F : Min(F) <= k
               /\ R # {} => p # 0 /\ Ready(workers[p], t)
               /\ R = {} /\ Recoverable(t) # {} => p # 0 /\ p \in Recoverable(t)
               /\ R = {} /\ Recoverable(t) = {} => p = 0
<1> DEFINE p == Picked(t, exclude)
           F == FreshOffsets(t, exclude)
           R == ReadyOffsets(t)
           C == Recoverable(t)
           n == Len(workers)
<1>1. n \in Nat
  BY DEF TypeOK
<1>2. /\ \A k \in R : k \in 0..(n - 1) /\ Ready(workers[At(k)], t)
      /\ \A k \in F : k \in R /\ workers[At(k)].id \notin exclude
      /\ \A k \in C : k \in 1..n
  BY DEF ReadyOffsets, FreshOffsets, Recoverable
<1>3. p = CASE F # {} -> At(Min(F))
            [] F = {} /\ R # {} -> At(Min(R))
            [] R = {} /\ C # {} -> Min(C)
            [] OTHER -> 0
  BY Zenon DEF Picked
<1> HIDE DEF p, F, R, C
<1>4. \A k \in R : k \in Nat /\ n # 0
  BY <1>1, <1>2
<1>5. \A k \in R : At(k) \in 1..n
  BY <1>4, AtRange
<1>6. CASE F # {}
  <2>1. F \in SUBSET Nat
    BY <1>2, <1>4
  <2>2. Min(F) \in F /\ \A k \in F : Min(F) <= k
    BY <1>6, <2>1, MinOfNats
  <2>3. p = At(Min(F)) /\ Min(F) \in R
    BY <1>2, <1>3, <1>6, <2>2
  <2>4. p \in 1..n /\ Ready(workers[p], t) /\ workers[p].id \notin exclude /\ R # {}
    BY <1>2, <1>5, <2>2, <2>3
  <2>5. p # 0 /\ p \in 0..n
    BY <2>4
  <2> QED
    BY <1>6, <2>2, <2>3, <2>4, <2>5 DEF p, F, R, C
<1>7. CASE F = {} /\ R # {}
  <2>1. R \in SUBSET Nat
    BY <1>4
  <2>2. Min(R) \in R
    BY <1>7, <2>1, MinOfNats
  <2>3. p = At(Min(R))
    BY <1>3, <1>7
  <2>4. p \in 1..n /\ Ready(workers[p], t)
    BY <1>2, <1>5, <2>2, <2>3
  <2>5. p # 0 /\ p \in 0..n
    BY <2>4
  <2> QED
    BY <1>7, <2>4, <2>5 DEF p, F, R, C
<1>8. CASE R = {}
  <2>1. F = {}
    BY <1>2, <1>8
  <2>2. CASE C # {}
    <3>1. C \in SUBSET Nat
      BY <1>2
    <3>2. p = Min(C) /\ p \in C
      BY <1>3, <1>8, <2>1, <2>2, <3>1, MinOfNats
    <3>3. p # 0 /\ p \in 0..n
      BY <1>1, <1>2, <3>2
    <3> QED
      BY <1>8, <2>1, <2>2, <3>2, <3>3 DEF p, F, R, C
  <2>3. CASE C = {}
    <3>1. p = 0
      BY <1>3, <1>8, <2>1, <2>3
    <3> QED
      BY <1>1, <1>8, <2>1, <2>3, <3>1 DEF p, F, R, C
  <2> QED
    BY <2>2, <2>3
<1> QED
  BY <1>6, <1>7, <1>8

\* The cursor a pick leaves is a position of the list again.
LEMMA CursorRange ==
    ASSUME TypeOK, NEW t, NEW exclude
    PROVE  /\ CursorAfter(t, exclude) \in Nat
           /\ CursorAfter(t, exclude) < Len(workers) \/ CursorAfter(t, exclude) = 0
<1> DEFINE p == Picked(t, exclude)
           n == Len(workers)
<1>1. n \in Nat /\ nextIdx \in Nat /\ p \in 0..n
  BY PickResult DEF TypeOK
<1>2. FreshOffsets(t, exclude) # {} => p # 0
  BY PickResult
<1>3. n # 0 => p % n \in 0..(n - 1) /\ (nextIdx + 1) % n \in 0..(n - 1)
  <2> HIDE DEF p, n
  <2> QED
    BY <1>1
<1>4. p # 0 => n # 0
  BY <1>1
<1>5. CursorAfter(t, exclude) \in {p % n, (nextIdx + 1) % n, nextIdx}
  BY DEF CursorAfter
<1>6. CursorAfter(t, exclude) # nextIdx => n # 0
  BY <1>2, <1>4 DEF CursorAfter
<1> HIDE DEF p, n
<1>7. CASE CursorAfter(t, exclude) = nextIdx
  BY <1>7 DEF TypeOK, n
<1>8. CASE CursorAfter(t, exclude) # nextIdx
  <2>1. CursorAfter(t, exclude) \in 0..(n - 1)
    BY <1>3, <1>5, <1>6, <1>8
  <2> QED
    BY <1>1, <2>1 DEF n
<1> QED
  BY <1>7, <1>8

----------------------------------------------------------------------------
(* The inductive invariant.  Bounding the outages needs the ranges of the  *)
(* fields, and the range of fails is kept because a failure that reaches   *)
(* the limit resets it.                                                    *)

RotatorInv == TypeOK /\ OutageBounded

\* One worker is replaced by a well-formed one with a bounded outage; position 0
\* stands for an id that is not configured.
LEMMA ReplaceOne ==
    ASSUME RotatorInv, NEW i \in 0..Len(workers), NEW w,
           i # 0 => w \in WorkerState /\ OutageWithin(w, now),
           workers' = IF i = 0 THEN workers ELSE [workers EXCEPT ![i] = w],
           UNCHANGED <<nextIdx, now>>
    PROVE  RotatorInv'
<1>1. CASE i = 0
  BY <1>1 DEF RotatorInv, TypeOK, OutageBounded
<1>2. CASE i # 0
  <2>1. i \in 1..Len(workers) /\ workers' = [workers EXCEPT ![i] = w]
    BY <1>2 DEF RotatorInv, TypeOK
  <2>2. workers' \in Seq(WorkerState) /\ Len(workers') = Len(workers)
    BY <1>2, <2>1, ExceptSeq DEF RotatorInv, TypeOK
  <2>3. \A j \in 1..Len(workers) : workers'[j] = IF j = i THEN w ELSE workers[j]
    BY <2>1 DEF RotatorInv, TypeOK
  <2>4. TypeOK'
    BY <2>2 DEF RotatorInv, TypeOK
  <2>5. \A j \in 1..Len(workers') : OutageWithin(workers'[j], now)
    BY <1>2, <2>2, <2>3 DEF RotatorInv, OutageBounded
  <2>6. OutageBounded'
    BY <2>5 DEF OutageBounded, OutageWithin
  <2> QED
    BY <2>4, <2>6 DEF RotatorInv
<1> QED
  BY <1>1, <1>2

\* MarkSuccess keeps the invariant.
LEMMA SuccessKeepsInv ==
    ASSUME RotatorInv, NEW id, MarkSuccess(id)
    PROVE  RotatorInv'
<1> DEFINE i == FindLocked(id)
           w == [workers[i] EXCEPT !.fails = 0]
<1>1. i \in 0..Len(workers) /\ now \in Nat
  BY FindLockedResult DEF RotatorInv, TypeOK
<1>2. workers' = IF i = 0 THEN workers ELSE [workers EXCEPT ![i] = w]
  BY DEF MarkSuccess
<1>3. i # 0 => workers[i] \in WorkerState /\ OutageWithin(workers[i], now)
  BY <1>1 DEF RotatorInv, TypeOK, OutageBounded
<1>4. i # 0 => w \in WorkerState /\ OutageWithin(w, now)
  BY <1>1, <1>3, HarmlessMarks, Zenon
<1>5. UNCHANGED <<nextIdx, now>>
  BY DEF MarkSuccess
<1> HIDE DEF i, w
<1> QED
  BY <1>1, <1>2, <1>4, <1>5, ReplaceOne, Zenon

\* MarkError keeps the invariant.
LEMMA ErrorKeepsInv ==
    ASSUME RotatorInv, NEW id, MarkError(id)
    PROVE  RotatorInv'
<1> DEFINE i == FindLocked(id)
           w == [workers[i] EXCEPT !.lastError = "error"]
<1>1. i \in 0..Len(workers) /\ now \in Nat
  BY FindLockedResult DEF RotatorInv, TypeOK
<1>2. workers' = IF i = 0 THEN workers ELSE [workers EXCEPT ![i] = w]
  BY DEF MarkError
<1>3. i # 0 => workers[i] \in WorkerState /\ OutageWithin(workers[i], now)
  BY <1>1 DEF RotatorInv, TypeOK, OutageBounded
<1>4. i # 0 => w \in WorkerState /\ OutageWithin(w, now)
  BY <1>1, <1>3, HarmlessMarks, Zenon
<1>5. UNCHANGED <<nextIdx, now>>
  BY DEF MarkError
<1> HIDE DEF i, w
<1> QED
  BY <1>1, <1>2, <1>4, <1>5, ReplaceOne, Zenon

\* MarkCooldown keeps the invariant: a failure resets or bounds the cooldown.
LEMMA CooldownKeepsInv ==
    ASSUME RotatorInv, NEW id, NEW t \in CallTimes, MarkCooldown(id, t)
    PROVE  RotatorInv'
<1> DEFINE i == FindLocked(id)
           w == AfterFailure(workers[i], t)
<1>1. i \in 0..Len(workers) /\ now \in Nat /\ t \in Nat /\ t <= now
  BY FindLockedResult, CallTimeRange DEF RotatorInv, TypeOK
<1>2. workers' = IF i = 0 THEN workers ELSE [workers EXCEPT ![i] = w]
  BY DEF MarkCooldown
<1>3. i # 0 => workers[i] \in WorkerState /\ OutageWithin(workers[i], now)
  BY <1>1 DEF RotatorInv, TypeOK, OutageBounded
<1>4. i # 0 => w \in WorkerState /\ OutageWithin(w, now)
  BY <1>1, <1>3, FailureBounded, Zenon
<1>5. UNCHANGED <<nextIdx, now>>
  BY DEF MarkCooldown
<1> HIDE DEF i, w
<1> QED
  BY <1>1, <1>2, <1>4, <1>5, ReplaceOne, Zenon

\* MarkBan keeps the invariant, for every duration it may be called with.
LEMMA BanKeepsInv ==
    ASSUME RotatorInv, NEW id, NEW dur \in BanDurs, NEW t \in CallTimes, MarkBan(id, dur, t)
    PROVE  RotatorInv'
<1> DEFINE i == FindLocked(id)
           w == AfterBan(workers[i], dur, t)
<1>1. i \in 0..Len(workers) /\ now \in Nat /\ t \in Nat /\ t <= now
  BY FindLockedResult, CallTimeRange DEF RotatorInv, TypeOK
<1>2. workers' = IF i = 0 THEN workers ELSE [workers EXCEPT ![i] = w]
  BY DEF MarkBan
<1>3. i # 0 => workers[i] \in WorkerState
  BY <1>1 DEF RotatorInv, TypeOK
<1>4. i # 0 => w \in WorkerState /\ OutageWithin(w, now)
  BY <1>1, <1>3, BanBounded, Zenon
<1>5. UNCHANGED <<nextIdx, now>>
  BY DEF MarkBan
<1> HIDE DEF i, w
<1> QED
  BY <1>1, <1>2, <1>4, <1>5, ReplaceOne, Zenon

\* pickLocked leaves the cursor inside the list.
LEMMA PickKeepsInv ==
    ASSUME RotatorInv, NEW t, NEW exclude, PickExcluding(t, exclude)
    PROVE  RotatorInv'
<1>1. /\ nextIdx' \in Nat
      /\ nextIdx' < Len(workers) \/ nextIdx' = 0
  BY CursorRange DEF RotatorInv, PickExcluding
<1> QED
  BY <1>1 DEF RotatorInv, PickExcluding, TypeOK, OutageBounded

\* Sync keeps the invariant, whatever lists it goes from and to.
LEMMA SyncKeepsInv ==
    ASSUME RotatorInv, NEW list \in WorkerLists, Sync(list)
    PROVE  RotatorInv'
<1>1. list \in Seq(Ids) /\ Len(list) \in Nat /\ \A i \in 1..Len(list) : list[i] \in Ids
  BY ListAssumption
<1>2. \A id \in Ids : Carried(id) \in WorkerState /\ OutageWithin(Carried(id), now)
  <2> SUFFICES ASSUME NEW id \in Ids
               PROVE  Carried(id) \in WorkerState /\ OutageWithin(Carried(id), now)
    OBVIOUS
  <2>1. OutageWithin(NewWorker(id), now)
    BY NewWorkerBounded DEF RotatorInv, TypeOK
  <2> QED
    BY <2>1, CarriedResult DEF RotatorInv, TypeOK, OutageBounded
<1>3. workers' = [i \in 1..Len(list) |-> Carried(list[i])]
  BY DEF Sync
<1>4. workers' \in Seq(WorkerState) /\ Len(workers') = Len(list)
  BY <1>1, <1>2, <1>3
<1>5. nextIdx' \in Nat /\ (nextIdx' < Len(workers') \/ nextIdx' = 0) /\ now' = now
  BY <1>1, <1>4 DEF Sync, RotatorInv, TypeOK
<1>6. TypeOK'
  BY <1>4, <1>5 DEF TypeOK, RotatorInv
<1>7. \A i \in 1..Len(workers') : OutageWithin(workers'[i], now)
  BY <1>1, <1>2, <1>3, <1>4
<1>8. OutageBounded'
  BY <1>5, <1>7 DEF OutageBounded, OutageWithin
<1> QED
  BY <1>6, <1>8 DEF RotatorInv

\* Time passing keeps the invariant: outages only get shorter.
LEMMA TickKeepsInv ==
    ASSUME RotatorInv, Tick
    PROVE  RotatorInv'
<1>1. \A i \in 1..Len(workers) : OutageWithin(workers[i], now + 1)
  BY OutageShrinks DEF RotatorInv, TypeOK, OutageBounded
<1>2. OutageBounded'
  BY <1>1 DEF Tick, OutageBounded, OutageWithin
<1>3. TypeOK'
  BY DEF Tick, RotatorInv, TypeOK
<1> QED
  BY <1>2, <1>3 DEF RotatorInv

----------------------------------------------------------------------------
(* Theorems of the specification. *)

\* The empty rotator of New satisfies the invariant.
LEMMA InitInv == RotatorInit => RotatorInv
<1> SUFFICES ASSUME RotatorInit PROVE RotatorInv
  OBVIOUS
<1>1. workers = <<>> /\ nextIdx = 0 /\ now = 1
  BY DEF RotatorInit
<1> QED
  BY <1>1 DEF RotatorInv, TypeOK, OutageBounded

\* Every operation preserves the invariant.
LEMMA NextInv == RotatorInv /\ [RotatorNext]_rotatorVars => RotatorInv'
<1> SUFFICES ASSUME RotatorInv, [RotatorNext]_rotatorVars
             PROVE  RotatorInv'
  OBVIOUS
<1>1. CASE Tick
  BY <1>1, TickKeepsInv
<1>2. CASE \E list \in WorkerLists : Sync(list)
  BY <1>2, SyncKeepsInv
<1>3. CASE \E t \in CallTimes, exclude \in SUBSET Ids : PickExcluding(t, exclude)
  BY <1>3, PickKeepsInv
<1>4. CASE \E id \in Ids : MarkSuccess(id)
  BY <1>4, SuccessKeepsInv
<1>5. CASE \E id \in Ids, t \in CallTimes : MarkCooldown(id, t)
  BY <1>5, CooldownKeepsInv
<1>6. CASE \E id \in Ids, dur \in BanDurs, t \in CallTimes : MarkBan(id, dur, t)
  BY <1>6, BanKeepsInv
<1>7. CASE \E id \in Ids : MarkError(id)
  BY <1>7, ErrorKeepsInv
<1>8. CASE UNCHANGED rotatorVars
  BY <1>8 DEF rotatorVars, RotatorInv, TypeOK, OutageBounded, OutageWithin
<1> QED
  BY <1>1, <1>2, <1>3, <1>4, <1>5, <1>6, <1>7, <1>8 DEF RotatorNext

\* The invariant holds in every state of every execution of the rotator.
THEOREM RotatorInvariant == RotatorSpec => []RotatorInv
<1> QED
  BY InitInv, NextInv, PTL DEF RotatorSpec

\* Rotator.workers stays a list of well-formed states and nextIdx a position of
\* it, so pickLocked never indexes outside the list.
THEOREM TypeCorrect == RotatorSpec => []TypeOK
<1>1. RotatorInv => TypeOK
  BY DEF RotatorInv
<1> QED
  BY <1>1, RotatorInvariant, PTL

\* No interleaving of marks by callers with stale clocks takes a worker out for
\* longer than the auto-disable time, the backoff of its failure count or a ban.
THEOREM OutagesAreBounded == RotatorSpec => []OutageBounded
<1>1. RotatorInv => OutageBounded
  BY DEF RotatorInv
<1> QED
  BY <1>1, RotatorInvariant, PTL

\* pickLocked keeps its contract for every list, cursor, time and excluded set.
LEMMA TypedPickContract == RotatorInv => PickContract
<1> SUFFICES ASSUME RotatorInv, NEW t \in CallTimes, NEW exclude \in SUBSET Ids
             PROVE  LET p == Picked(t, exclude)
                    IN  /\ p \in 0..Len(workers)
                        /\ p = 0 => \A i \in 1..Len(workers) :
                              ~Ready(workers[i], t)
                              /\ (Banned(workers[i], t) \/ ~Cooling(workers[i], t))
                        /\ p # 0 => ~Banned(workers[p], t)
                        /\ (\E i \in 1..Len(workers) : Ready(workers[i], t))
                              => p # 0 /\ Ready(workers[p], t)
                        /\ (\E i \in 1..Len(workers) :
                               Ready(workers[i], t) /\ workers[i].id \notin exclude)
                              => p # 0 /\ workers[p].id \notin exclude
  BY DEF PickContract
<1> DEFINE p == Picked(t, exclude)
           F == FreshOffsets(t, exclude)
           R == ReadyOffsets(t)
           C == Recoverable(t)
<1>1. TypeOK /\ t \in Nat
  BY CallTimeRange DEF RotatorInv, TypeOK
<1>2. /\ p \in 0..Len(workers)
      /\ F # {} => p # 0 /\ Ready(workers[p], t) /\ workers[p].id \notin exclude
      /\ R # {} => p # 0 /\ Ready(workers[p], t)
      /\ R = {} /\ C # {} => p # 0 /\ p \in C
      /\ R = {} /\ C = {} => p = 0
  BY <1>1, PickResult, Zenon
<1>3. \A i \in 1..Len(workers) :
         /\ Ready(workers[i], t) => R # {}
         /\ Ready(workers[i], t) /\ workers[i].id \notin exclude => F # {}
  BY <1>1, ScansFind
<1>4. \A i \in 1..Len(workers) : i \notin C => Banned(workers[i], t) \/ ~Cooling(workers[i], t)
  BY DEF Recoverable
<1>5. \A i \in 1..Len(workers) : Ready(workers[i], t) => ~Banned(workers[i], t)
  <2> SUFFICES ASSUME NEW i \in 1..Len(workers), Ready(workers[i], t)
               PROVE  ~Banned(workers[i], t)
    OBVIOUS
  <2>1. workers[i] \in WorkerState
    BY <1>1 DEF TypeOK
  <2>2. workers[i].bannedUntil \in Nat
    BY <2>1 DEF WorkerState
  <2> QED
    BY <1>1, <2>2 DEF Ready, Banned
<1>6. p \in C => ~Banned(workers[p], t)
  BY DEF Recoverable
<1>7. p \in 0..Len(workers) /\ p # 0 => p \in 1..Len(workers)
  BY <1>1 DEF TypeOK
<1> HIDE DEF p, F, R, C
<1> QED
  BY <1>2, <1>3, <1>4, <1>5, <1>6, <1>7 DEF p

\* Every pick of every execution keeps pickLocked's contract: no banned worker,
\* a ready one if there is one, an untried ready one if there is one of those.
THEOREM PicksKeepContract == RotatorSpec => []PickContract
<1> QED
  BY TypedPickContract, RotatorInvariant, PTL

\* Moving the cursor just past offset m brings every later offset m + 1 closer.
LEMMA CursorApproaches ==
    ASSUME TypeOK, NEW i \in 1..Len(workers), NEW m \in Nat, m < Distance(nextIdx, i)
    PROVE  Distance(At(m) % Len(workers), i) = Distance(nextIdx, i) - (m + 1)
<1> DEFINE n == Len(workers)
           c == nextIdx
           d == Distance(nextIdx, i)
           e == At(m) % Len(workers)
<1> SUFFICES Distance(e, i) = d - (m + 1)
  OBVIOUS
<1>1. n \in Nat \ {0} /\ c \in 0..(n - 1) /\ i \in 1..n /\ d \in 0..(n - 1) /\ m < d
  BY AtDistance DEF TypeOK
<1>2. d = IF c <= i - 1 THEN i - 1 - c ELSE i - 1 - c + n
  BY DEF Distance
<1>3. e = (((c + m) % n) + 1) % n
  BY DEF At
<1>4. Distance(e, i) = IF e <= i - 1 THEN i - 1 - e ELSE i - 1 - e + n
  BY DEF Distance
<1> HIDE DEF n, c, d, e
<1>5. CASE c + m + 1 < n
  <2>1. (c + m) % n = c + m
    BY <1>1, <1>5
  <2>2. e = c + m + 1
    BY <1>1, <1>3, <1>5, <2>1
  <2> QED
    BY <1>1, <1>2, <1>4, <1>5, <2>2
<1>6. CASE c + m + 1 = n
  <2>1. (c + m) % n = c + m
    BY <1>1, <1>6
  <2>2. n % n = 0
    BY <1>1
  <2>3. e = 0
    BY <1>1, <1>3, <1>6, <2>1, <2>2
  <2> QED
    BY <1>1, <1>2, <1>4, <1>6, <2>3
<1>7. CASE c + m + 1 > n
  <2>1. c + m - n \in 0..(n - 1)
    BY <1>1, <1>7
  <2>2. (c + m) % n = c + m - n
    BY <1>1, <2>1
  <2>3. c + m - n + 1 \in 0..(n - 1)
    BY <1>1, <1>2, <1>7
  <2>4. e = c + m - n + 1
    BY <1>1, <1>3, <2>2, <2>3
  <2> QED
    BY <1>1, <1>2, <1>4, <1>7, <2>4
<1> QED
  BY <1>1, <1>5, <1>6, <1>7

\* Round-robin cannot starve a worker: each pick that passes over a ready, untried
\* worker brings the cursor closer to it, whatever the number of workers.
THEOREM RotationIsFair == RotatorSpec => []RotationProgress
<1>1. TypeOK => RotationProgress
  <2> SUFFICES ASSUME TypeOK, NEW t \in CallTimes, NEW exclude \in SUBSET Ids,
                      NEW i \in 1..Len(workers), Ready(workers[i], t),
                      workers[i].id \notin exclude, i # Picked(t, exclude)
               PROVE  Distance(CursorAfter(t, exclude), i) < Distance(nextIdx, i)
    BY DEF RotationProgress
  <2> DEFINE F == FreshOffsets(t, exclude)
             m == Min(F)
             d == Distance(nextIdx, i)
  <2>1. d \in F
    BY ScansFind
  <2>2. m \in F /\ m <= d /\ Picked(t, exclude) = At(m)
    BY <2>1, PickResult, Zenon
  <2>3. m \in Nat /\ d \in Nat
    BY <2>2, AtDistance DEF FreshOffsets, ReadyOffsets
  <2>4. m # d
    BY <2>2, AtDistance, Zenon
  <2>5. CursorAfter(t, exclude) = At(m) % Len(workers)
    BY <2>1, <2>2, Zenon DEF CursorAfter
  <2> HIDE DEF F, m
  <2>6. Distance(CursorAfter(t, exclude), i) = d - (m + 1)
    BY <2>2, <2>3, <2>4, <2>5, CursorApproaches
  <2> QED
    BY <2>3, <2>6
<1> QED
  BY <1>1, TypeCorrect, PTL

----------------------------------------------------------------------------
(* What steps do to a worker.  Where no id is repeated, a worker can be     *)
(* followed from one list to the next.                                      *)

UniqueIds == \A i, j \in 1..Len(workers) : workers[i].id = workers[j].id => i = j

SteadyInv == RotatorInv /\ UniqueIds

\* What the operations may do to the worker w at a time now.
MayBecome(w, v) ==
    \/ v = w
    \/ v = [w EXCEPT !.fails = 0]
    \/ v = [w EXCEPT !.lastError = "error"]
    \/ \E t \in CallTimes : v = AfterFailure(w, t)
    \/ \E t \in CallTimes, dur \in BanDurs : v = AfterBan(w, dur, t)

\* No operation changes the id.
LEMMA IdsStay ==
    ASSUME NEW w \in WorkerState, NEW v, MayBecome(w, v)
    PROVE  v.id = w.id
<1>1. ASSUME NEW t \in CallTimes PROVE AfterFailure(w, t).id = w.id
  BY DEF AfterFailure, WorkerState
<1>2. ASSUME NEW t \in CallTimes, NEW dur \in BanDurs PROVE AfterBan(w, dur, t).id = w.id
  BY DEF AfterBan, WorkerState
<1>3. [w EXCEPT !.fails = 0].id = w.id /\ [w EXCEPT !.lastError = "error"].id = w.id
  BY DEF WorkerState
<1>4. QED BY <1>1, <1>2, <1>3 DEF MayBecome

\* findLocked finds every id that is configured.
LEMMA FindLockedFinds ==
    ASSUME workers \in Seq(WorkerState), UniqueIds, NEW i \in 1..Len(workers)
    PROVE  FindLocked(workers[i].id) = i
<1> DEFINE id == workers[i].id
           I == {j \in 1..Len(workers) : workers[j].id = id}
<1>1. FindLocked(id) = IF I # {} THEN Min(I) ELSE 0
  BY DEF FindLocked, SelectInSeq
<1>2. I = {i}
  BY DEF UniqueIds
<1>3. Min(I) = i
  <2>1. I \in SUBSET Nat /\ I # {}
    BY <1>2
  <2> HIDE DEF I
  <2>2. QED BY <1>2, <2>1, MinOfNats, Zenon
<1>4. QED BY <1>1, <1>2, <1>3

\* What Sync carries over is the state of that worker.
LEMMA CarriedFinds ==
    ASSUME workers \in Seq(WorkerState), UniqueIds, NEW id \in Ids
    PROVE  /\ Carried(id).id = id
           /\ \A i \in 1..Len(workers) : workers[i].id = id => Carried(id) = workers[i]
<1> DEFINE I == {i \in 1..Len(workers) : workers[i].id = id}
<1>1. FindPrevious(id) = IF I # {} THEN Max(I) ELSE 0
  BY DEF FindPrevious, SelectLastInSeq
<1>2. I # {} => Max(I) \in I
  <2>1. I \in SUBSET (0..Len(workers)) /\ Len(workers) \in Nat
    OBVIOUS
  <2> HIDE DEF I
  <2>2. QED BY <2>1, MaxOfBounded, Zenon
<1>3. CASE I = {}
  <2>1. Carried(id) = NewWorker(id)
    BY <1>1, <1>3 DEF Carried
  <2>2. Carried(id).id = id
    <3>1. NewWorker(id).id = id
      BY DEF NewWorker
    <3>2. QED BY <2>1, <3>1
  <2>3. \A i \in 1..Len(workers) : workers[i].id # id
    BY <1>3
  <2>4. QED BY <2>2, <2>3
<1>4. CASE I # {}
  <2>1. Max(I) \in 1..Len(workers) /\ workers[Max(I)].id = id
    BY <1>2, <1>4
  <2>2. Carried(id) = workers[Max(I)]
    BY <1>1, <1>4, <2>1 DEF Carried
  <2>3. \A i \in 1..Len(workers) : workers[i].id = id => i = Max(I)
    BY <2>1 DEF UniqueIds
  <2>4. QED BY <2>1, <2>2, <2>3
<1>5. QED BY <1>3, <1>4

\* A mark replaces the one worker that has the id.
LEMMA MarkShape ==
    ASSUME SteadyInv, NEW id, NEW w,
           FindLocked(id) # 0 => MayBecome(workers[FindLocked(id)], w),
           workers' = IF FindLocked(id) = 0 THEN workers ELSE [workers EXCEPT ![FindLocked(id)] = w]
    PROVE  /\ Len(workers') = Len(workers)
           /\ \A j \in 1..Len(workers) : /\ workers'[j].id = workers[j].id
                                         /\ MayBecome(workers[j], workers'[j])
<1> DEFINE i == FindLocked(id)
<1>1. workers \in Seq(WorkerState) /\ UniqueIds /\ i \in 0..Len(workers) /\ Len(workers) \in Nat
  BY FindLockedResult, LenProperties DEF SteadyInv, RotatorInv, TypeOK
<1>2. \A j \in 1..Len(workers) : workers[j].id = id => i = j
  BY <1>1, FindLockedFinds
<1>3. \A j \in 1..Len(workers) : MayBecome(workers[j], workers[j]) /\ workers[j] \in WorkerState
  BY <1>1 DEF MayBecome
<1>4. CASE i = 0
  BY <1>2, <1>3, <1>4
<1>5. CASE i # 0
  <2>1. workers' = [workers EXCEPT ![i] = w] /\ i \in 1..Len(workers)
    BY <1>1, <1>5
  <2>2. w.id = workers[i].id
    BY <1>3, <1>5, <2>1, IdsStay
  <2>3. Len(workers') = Len(workers) /\ \A j \in 1..Len(workers) : workers'[j] = IF j = i THEN w ELSE workers[j]
    BY <1>1, <2>1
  <2> HIDE DEF i
  <2>4. MayBecome(workers[i], w)
    BY <1>5 DEF i
  <2>5. QED BY <1>2, <1>3, <2>2, <2>3, <2>4
<1>6. QED BY <1>4, <1>5

\* The marks.
LEMMA MarksShape ==
    ASSUME SteadyInv, NEW id,
           \/ MarkSuccess(id) \/ MarkError(id)
           \/ \E t \in CallTimes : MarkCooldown(id, t)
           \/ \E t \in CallTimes, dur \in BanDurs : MarkBan(id, dur, t)
    PROVE  /\ Len(workers') = Len(workers)
           /\ \A j \in 1..Len(workers) : /\ workers'[j].id = workers[j].id
                                         /\ MayBecome(workers[j], workers'[j])
<1> DEFINE i == FindLocked(id)
<1>1. CASE MarkSuccess(id)
  <2> DEFINE w == [workers[i] EXCEPT !.fails = 0]
  <2>1. workers' = (IF i = 0 THEN workers ELSE [workers EXCEPT ![i] = w]) /\ MayBecome(workers[i], w)
    BY <1>1 DEF MarkSuccess, MayBecome
  <2> HIDE DEF w
  <2>2. QED BY <2>1, MarkShape
<1>2. CASE MarkError(id)
  <2> DEFINE w == [workers[i] EXCEPT !.lastError = "error"]
  <2>1. workers' = (IF i = 0 THEN workers ELSE [workers EXCEPT ![i] = w]) /\ MayBecome(workers[i], w)
    BY <1>2 DEF MarkError, MayBecome
  <2> HIDE DEF w
  <2>2. QED BY <2>1, MarkShape
<1>3. CASE \E t \in CallTimes : MarkCooldown(id, t)
  <2>1. PICK t \in CallTimes : MarkCooldown(id, t)
    BY <1>3
  <2> DEFINE w == AfterFailure(workers[i], t)
  <2>2. workers' = (IF i = 0 THEN workers ELSE [workers EXCEPT ![i] = w]) /\ MayBecome(workers[i], w)
    BY <2>1 DEF MarkCooldown, MayBecome
  <2> HIDE DEF w
  <2>3. QED BY <2>2, MarkShape
<1>4. CASE \E t \in CallTimes, dur \in BanDurs : MarkBan(id, dur, t)
  <2>1. PICK t \in CallTimes, dur \in BanDurs : MarkBan(id, dur, t)
    BY <1>4
  <2> DEFINE w == AfterBan(workers[i], dur, t)
  <2>2. workers' = (IF i = 0 THEN workers ELSE [workers EXCEPT ![i] = w]) /\ MayBecome(workers[i], w)
    BY <2>1 DEF MarkBan, MayBecome
  <2> HIDE DEF w
  <2>3. QED BY <2>2, MarkShape
<1>5. QED BY <1>1, <1>2, <1>3, <1>4

\* A worker of the list before the step.
InList(v) == \E i \in 1..Len(workers) : v = workers[i]

\* Sync reads every worker of the list from its id.
LEMMA SyncShape ==
    ASSUME SteadyInv, NoRepeatedIds, NEW list \in WorkerLists, Sync(list)
    PROVE  /\ UniqueIds'
           /\ \A i \in 1..Len(workers), j \in 1..Len(workers') :
                 workers[i].id = workers'[j].id => workers'[j] = workers[i]
           /\ \A j \in 1..Len(workers') : (\E id \in Ids : workers'[j] = NewWorker(id)) \/ InList(workers'[j])
<1>1. list \in Seq(Ids) /\ workers \in Seq(WorkerState) /\ UniqueIds
  BY ListAssumption DEF SteadyInv, RotatorInv, TypeOK
<1>2. workers' = [i \in 1..Len(list) |-> Carried(list[i])] /\ Len(list) \in Nat
  BY <1>1 DEF Sync
<1>3. Len(workers') = Len(list) /\ \A j \in 1..Len(list) : workers'[j] = Carried(list[j]) /\ list[j] \in Ids
  BY <1>1, <1>2
<1>4. \A j \in 1..Len(list) : workers'[j].id = list[j]
  BY <1>1, <1>3, CarriedFinds
<1>5. \A i, j \in 1..Len(list) : list[i] = list[j] => i = j
  BY <1>1 DEF NoRepeatedIds, IsInjective
<1>6. UniqueIds'
  BY <1>3, <1>4, <1>5 DEF UniqueIds
<1>7. \A i \in 1..Len(workers), j \in 1..Len(workers') :
         workers[i].id = workers'[j].id => workers'[j] = workers[i]
  BY <1>1, <1>3, <1>4, CarriedFinds
<1>8. \A j \in 1..Len(workers') : (\E id \in Ids : workers'[j] = NewWorker(id)) \/ InList(workers'[j])
  BY <1>1, <1>3, CarriedResult DEF InList
<1>9. QED BY <1>6, <1>7, <1>8

\* Where the workers after a step come from: a worker that stays configured has
\* been changed by at most one operation on it, and another one is new.
Shaped ==
    /\ \A p \in Survivors : MayBecome(workers[p[1]], workers'[p[2]])
    /\ \A j \in 1..Len(workers') :
          \/ \E id \in Ids : workers'[j] = NewWorker(id)
          \/ \E i \in 1..Len(workers) : MayBecome(workers[i], workers'[j])

LEMMA StepShape ==
    ASSUME SteadyInv, NoRepeatedIds, [RotatorNext]_rotatorVars
    PROVE  SteadyInv' /\ Shaped
<1>1. RotatorInv'
  BY NextInv DEF SteadyInv
<1>2. ASSUME /\ Len(workers') = Len(workers)
             /\ \A j \in 1..Len(workers) : /\ workers'[j].id = workers[j].id
                                           /\ MayBecome(workers[j], workers'[j])
      PROVE  SteadyInv' /\ Shaped
  <2>1. UniqueIds'
    BY <1>2 DEF UniqueIds, SteadyInv
  <2>2. ASSUME NEW p \in Survivors PROVE MayBecome(workers[p[1]], workers'[p[2]])
    <3>1. /\ p[1] \in 1..Len(workers) /\ p[2] \in 1..Len(workers)
          /\ workers[p[1]].id = workers'[p[2]].id
      BY <1>2, <2>2 DEF Survivors
    <3>2. p[1] = p[2]
      BY <1>2, <3>1 DEF UniqueIds, SteadyInv
    <3>3. QED BY <1>2, <3>1, <3>2
  <2>3. QED BY <1>1, <1>2, <2>1, <2>2 DEF SteadyInv, Shaped
<1>3. CASE \E list \in WorkerLists : Sync(list)
  <2>1. PICK list \in WorkerLists : Sync(list)
    BY <1>3
  <2>2. /\ UniqueIds'
        /\ \A i \in 1..Len(workers), j \in 1..Len(workers') :
              workers[i].id = workers'[j].id => workers'[j] = workers[i]
        /\ \A j \in 1..Len(workers') : (\E id \in Ids : workers'[j] = NewWorker(id)) \/ InList(workers'[j])
    BY <2>1, SyncShape
  <2>3. \A p \in Survivors : workers'[p[2]] = workers[p[1]]
    BY <2>2 DEF Survivors
  <2>4. \A p \in Survivors : MayBecome(workers[p[1]], workers'[p[2]])
    BY <2>3 DEF MayBecome
  <2>5. \A v : InList(v) => \E i \in 1..Len(workers) : MayBecome(workers[i], v)
    BY DEF InList, MayBecome
  <2>6. QED BY <1>1, <2>2, <2>4, <2>5 DEF SteadyInv, Shaped
<1>4. CASE UNCHANGED workers
  <2>1. \A j \in 1..Len(workers) : MayBecome(workers[j], workers[j])
    BY DEF MayBecome
  <2>2. QED BY <1>2, <1>4, <2>1
<1>5. ASSUME NEW id \in Ids,
             \/ MarkSuccess(id) \/ MarkError(id)
             \/ \E t \in CallTimes : MarkCooldown(id, t)
             \/ \E t \in CallTimes, dur \in BanDurs : MarkBan(id, dur, t)
      PROVE  SteadyInv' /\ Shaped
  BY <1>2, <1>5, MarksShape
<1>6. CASE Tick \/ \E t \in CallTimes, exclude \in SUBSET Ids : PickExcluding(t, exclude)
  BY <1>4, <1>6 DEF Tick, PickExcluding
<1>7. QED BY <1>3, <1>4, <1>5, <1>6 DEF RotatorNext, rotatorVars

LEMMA SteadyInit == RotatorInit => SteadyInv
<1> SUFFICES ASSUME RotatorInit PROVE UniqueIds
  BY InitInv DEF SteadyInv
<1>1. Len(workers) = 0
  BY DEF RotatorInit
<1>2. QED BY <1>1 DEF UniqueIds

\* Over days of equal length nextMidnight is the first midnight after a time.
LEMMA NextMidnightIsNext ==
    ASSUME EvenDays, NEW t \in Nat, t <= MaxTime
    PROVE  /\ NextMidnight(t) \in DayStarts /\ NextMidnight(t) \in Nat
           /\ t < NextMidnight(t)
           /\ \A d \in DayStarts : t < d => NextMidnight(t) <= d
<1> DEFINE S == {d \in DayStarts : d <= t}
           s == StartOfDay(t)
<1>1. S \in SUBSET (0..t) /\ S # {}
  <2>1. \A d \in S : d \in Nat /\ d <= t
    BY CalendarAssumption
  <2>2. 0 \in S
    BY CalendarAssumption
  <2>3. QED BY <2>1, <2>2
<1>2. s = Max(S)
  BY Zenon DEF StartOfDay
<1>3. s \in S /\ \A d \in S : s >= d
  <2> HIDE DEF S, s
  <2>1. QED BY <1>1, <1>2, MaxOfBounded
<1>4. s \in DayStarts /\ s \in Nat /\ s <= t /\ s <= MaxTime /\ \A d \in DayStarts : d <= t => d <= s
  BY <1>1, <1>3, ClockAssumption, CalendarAssumption
<1> HIDE DEF S, s
<1>5. s + DayLength \in DayStarts /\ \A e \in DayStarts : e <= s \/ s + DayLength <= e
  BY <1>4 DEF EvenDays
<1>6. NextMidnight(t) = s + DayLength
  BY DEF NextMidnight, s
<1>7. \A d \in DayStarts : d \in Nat
  BY CalendarAssumption
<1>8. QED BY <1>4, <1>5, <1>6, <1>7, CalendarAssumption

\* The clock stays within its bound, and every ban ends by the next midnight.
ClockedInv == SteadyInv /\ now <= MaxTime

NightInv ==
    /\ ClockedInv
    /\ \A i \in 1..Len(workers) : workers[i].bannedUntil <= NextMidnight(now)

\* A ban lasts until the midnight after the time of its caller.
LEMMA BanOf ==
    ASSUME NEW w \in WorkerState, NEW t \in Nat
    PROVE  AfterBan(w, BanDuration, t).bannedUntil = NextMidnight(t)
BY DEF AfterBan, BanEnd, WorkerState

LEMMA BansOf ==
    ASSUME NEW w \in WorkerState, NEW v, MayBecome(w, v), DayBansOnly, now \in Nat
    PROVE  v.bannedUntil = w.bannedUntil \/ \E t \in CallTimes : v.bannedUntil = NextMidnight(t)
<1>1. ASSUME NEW t \in CallTimes PROVE AfterFailure(w, t).bannedUntil = w.bannedUntil
  BY DEF AfterFailure, WorkerState
<1>2. ASSUME NEW t \in CallTimes, NEW dur \in BanDurs PROVE AfterBan(w, dur, t).bannedUntil = NextMidnight(t)
  BY CallTimeRange, BanOf DEF DayBansOnly
<1>3. /\ [w EXCEPT !.fails = 0].bannedUntil = w.bannedUntil
      /\ [w EXCEPT !.lastError = "error"].bannedUntil = w.bannedUntil
  BY DEF WorkerState
<1>4. QED BY <1>1, <1>2, <1>3 DEF MayBecome

LEMMA ClockedStep ==
    ASSUME ClockedInv, NoRepeatedIds, [RotatorNext]_rotatorVars
    PROVE  ClockedInv' /\ Shaped /\ now' \in Nat /\ now <= now'
<1>1. SteadyInv' /\ Shaped
  BY StepShape DEF ClockedInv
<1>2. now \in Nat
  BY DEF ClockedInv, SteadyInv, RotatorInv, TypeOK
<1>3. now' \in Nat /\ now <= now' /\ now' <= MaxTime
  BY <1>2, ClockAssumption DEF ClockedInv, RotatorNext, rotatorVars, Tick, Sync, PickExcluding, MarkSuccess,
     MarkCooldown, MarkBan, MarkError
<1>4. QED BY <1>1, <1>3 DEF ClockedInv

LEMMA NightStep ==
    ASSUME NightInv, NoRepeatedIds, DayBansOnly, EvenDays, [RotatorNext]_rotatorVars
    PROVE  NightInv'
<1>1. ClockedInv' /\ Shaped /\ now' \in Nat /\ now <= now' /\ now' <= MaxTime
  BY ClockedStep DEF NightInv, ClockedInv
<1>2. now \in Nat /\ workers \in Seq(WorkerState)
  BY DEF NightInv, ClockedInv, SteadyInv, RotatorInv, TypeOK
<1>3. now' \in Nat /\ now <= now' /\ now' <= MaxTime
  BY <1>1
<1> DEFINE end == NextMidnight(now')
<1>4. end \in Nat /\ \A t \in Nat : t <= now => NextMidnight(t) <= end /\ NextMidnight(t) \in Nat
  <2>1. NextMidnight(now') \in DayStarts /\ now' < NextMidnight(now') /\ NextMidnight(now') \in Nat
    BY <1>3, NextMidnightIsNext
  <2>2. ASSUME NEW t \in Nat, t <= now PROVE NextMidnight(t) <= NextMidnight(now') /\ NextMidnight(t) \in Nat
    <3>1. t <= MaxTime /\ t < NextMidnight(now')
      BY <1>2, <1>3, <2>1, <2>2, ClockAssumption
    <3>2. QED BY <2>1, <3>1, NextMidnightIsNext
  <2>3. QED BY <2>1, <2>2
<1> HIDE DEF end
<1>5. ASSUME NEW j \in 1..Len(workers') PROVE workers'[j].bannedUntil <= end
  <2>1. CASE \E id \in Ids : workers'[j] = NewWorker(id)
    <3>1. \A id : NewWorker(id).bannedUntil = 0
      BY DEF NewWorker
    <3>2. workers'[j].bannedUntil = 0
      BY <2>1, <3>1
    <3>3. QED BY <1>4, <3>2
  <2>2. CASE \E i \in 1..Len(workers) : MayBecome(workers[i], workers'[j])
    <3>1. PICK i \in 1..Len(workers) : MayBecome(workers[i], workers'[j])
      BY <2>2
    <3>2. workers[i] \in WorkerState /\ workers[i].bannedUntil <= NextMidnight(now)
      BY <1>2 DEF NightInv
    <3>3. workers[i].bannedUntil \in Nat
      BY <3>2 DEF WorkerState
    <3>4. \/ workers'[j].bannedUntil = workers[i].bannedUntil
          \/ \E t \in CallTimes : workers'[j].bannedUntil = NextMidnight(t)
      BY <1>2, <3>1, <3>2, BansOf
    <3>5. \A t \in CallTimes : t \in Nat /\ t <= now
      BY <1>2, CallTimeRange
    <3>6. NextMidnight(now) <= end /\ NextMidnight(now) \in Nat
      BY <1>2, <1>4
    <3>7. CASE workers'[j].bannedUntil = workers[i].bannedUntil
      BY <1>4, <3>2, <3>3, <3>6, <3>7
    <3>8. CASE \E t \in CallTimes : workers'[j].bannedUntil = NextMidnight(t)
      BY <1>4, <3>5, <3>8
    <3>9. QED BY <3>4, <3>7, <3>8
  <2>3. QED BY <1>1, <2>1, <2>2 DEF Shaped
<1>6. QED BY <1>1, <1>5 DEF NightInv, NextMidnight, StartOfDay, end

LEMMA NightInit == RotatorInit => ClockedInv /\ NightInv
<1> SUFFICES ASSUME RotatorInit PROVE ClockedInv /\ NightInv
  OBVIOUS
<1>1. Len(workers) = 0 /\ now = 1
  BY DEF RotatorInit
<1>2. QED BY <1>1, SteadyInit, ClockAssumption DEF NightInv, ClockedInv

\* A midnight that a caller took for the next one and that is over.
LEMMA PassedMidnight ==
    ASSUME EvenDays, now \in Nat, now <= MaxTime, NEW t \in CallTimes, NextMidnight(t) <= now
    PROVE  NextMidnight(t) \in JustPassed
<1>1. t \in Nat /\ t <= MaxTime /\ now - MaxLag <= t /\ MaxLag \in Nat
  BY ClockAssumption DEF CallTimes
<1>2. NextMidnight(t) \in DayStarts /\ t < NextMidnight(t) /\ NextMidnight(t) \in Nat
  BY <1>1, NextMidnightIsNext
<1>3. QED BY <1>1, <1>2 DEF JustPassed

\* A failure takes a worker out past the clock.
LEMMA FailureTakesOut ==
    ASSUME NEW w \in WorkerState, NEW t \in CallTimes, now \in Nat, PromptCallers
    PROVE  ~Ready(AfterFailure(w, t), now)
<1>1. t \in Nat /\ MaxLag \in Nat /\ now - MaxLag <= t
  BY ClockAssumption DEF CallTimes
<1>2. CASE w.fails + 1 >= AutoDisableAfter
  <2>1. AfterFailure(w, t).cooldownUntil = t + AutoDisableFor
    BY <1>2 DEF AfterFailure, WorkerState
  <2>2. QED BY <1>1, <2>1, LimitAssumption DEF Ready, PromptCallers
<1>3. CASE ~(w.fails + 1 >= AutoDisableAfter)
  <2>1. AfterFailure(w, t).cooldownUntil = t + Backoff(w.fails + 1)
    BY <1>3 DEF AfterFailure, WorkerState
  <2>2. w.fails \in 0..(AutoDisableAfter - 1)
    BY DEF WorkerState
  <2>3. w.fails + 1 \in 1..(AutoDisableAfter - 1)
    BY <1>3, <2>2, LimitAssumption
  <2>4. Backoff(w.fails + 1) \in Nat /\ MaxLag <= Backoff(w.fails + 1)
    BY <2>3, BackoffRange DEF PromptCallers
  <2>5. QED BY <1>1, <2>1, <2>4 DEF Ready
<1>4. QED BY <1>2, <1>3

\* So does a ban, unless it ends at a midnight that has passed since its caller read
\* the clock.
LEMMA BanTakesOut ==
    ASSUME NEW w \in WorkerState, NEW t \in CallTimes, now \in Nat, now <= MaxTime, PromptCallers,
           NEW dur \in BanDurs, EvenDays
    PROVE  ~Ready(AfterBan(w, dur, t), now) \/ AfterBan(w, dur, t).bannedUntil \in JustPassed
<1>1. t \in Nat /\ MaxLag \in Nat /\ now - MaxLag <= t
  BY ClockAssumption DEF CallTimes
<1>2. AfterBan(w, dur, t).bannedUntil = BanEnd(dur, t)
  BY DEF AfterBan, WorkerState
<1>3. CASE dur = BanDuration
  <2>1. BanEnd(dur, t) = NextMidnight(t)
    BY <1>3 DEF BanEnd
  <2>2. NextMidnight(t) \in Nat
    BY <1>1, NextMidnightIsNext, CallTimeRange, ClockAssumption
  <2>3. CASE NextMidnight(t) <= now
    BY <1>2, <2>1, <2>3, PassedMidnight
  <2>4. CASE now < NextMidnight(t)
    BY <1>2, <2>1, <2>2, <2>4 DEF Ready
  <2>5. QED BY <2>2, <2>3, <2>4
<1>4. CASE dur # BanDuration
  <2>1. BanEnd(dur, t) = t + dur /\ MaxLag <= dur /\ dur \in Nat
    BY <1>4, BanAssumption DEF BanEnd, PromptCallers
  <2>2. QED BY <1>1, <1>2, <2>1 DEF Ready
<1>5. QED BY <1>3, <1>4

\* rotator.go:223-234: for every calendar of equal days, every list and any number of
\* callers with late clocks, no operation shortens a ban but one of a caller that is
\* still in the day before, and then only to the midnight that has passed.
THEOREM BansAreKept ==
    ASSUME NoRepeatedIds, DayBansOnly, EvenDays
    PROVE  RotatorSpec => BanLostOnlyAtMidnight
<1> DEFINE Kept == \A p \in Survivors :
                      \/ workers'[p[2]].bannedUntil >= workers[p[1]].bannedUntil
                      \/ workers'[p[2]].bannedUntil \in JustPassed
<1>1. NightInv /\ [RotatorNext]_rotatorVars => NightInv'
  BY NightStep
<1>2. NightInv /\ [RotatorNext]_rotatorVars => Kept
  <2> SUFFICES ASSUME NightInv, [RotatorNext]_rotatorVars, NEW p \in Survivors
               PROVE  \/ workers'[p[2]].bannedUntil >= workers[p[1]].bannedUntil
                      \/ workers'[p[2]].bannedUntil \in JustPassed
    OBVIOUS
  <2>1. now \in Nat /\ now <= MaxTime /\ p[1] \in 1..Len(workers) /\ workers \in Seq(WorkerState)
    BY DEF NightInv, ClockedInv, SteadyInv, RotatorInv, TypeOK, Survivors
  <2>2. workers[p[1]] \in WorkerState /\ workers[p[1]].bannedUntil <= NextMidnight(now)
    BY <2>1 DEF NightInv
  <2>3. workers[p[1]].bannedUntil \in Nat
    BY <2>2 DEF WorkerState
  <2>4. MayBecome(workers[p[1]], workers'[p[2]])
    BY ClockedStep DEF NightInv, Shaped
  <2>5. CASE workers'[p[2]].bannedUntil = workers[p[1]].bannedUntil
    BY <2>3, <2>5
  <2>6. ASSUME NEW t \in CallTimes, workers'[p[2]].bannedUntil = NextMidnight(t)
        PROVE  \/ workers'[p[2]].bannedUntil >= workers[p[1]].bannedUntil
               \/ workers'[p[2]].bannedUntil \in JustPassed
    <3>1. t \in Nat /\ t <= MaxTime
      BY <2>1, CallTimeRange, ClockAssumption
    <3>2. NextMidnight(t) \in DayStarts /\ NextMidnight(t) \in Nat
      BY <3>1, NextMidnightIsNext
    <3>3. CASE NextMidnight(t) <= now
      BY <2>1, <2>6, <3>3, PassedMidnight
    <3>4. CASE now < NextMidnight(t)
      <4>1. NextMidnight(now) <= NextMidnight(t) /\ NextMidnight(now) \in Nat
        BY <2>1, <3>2, <3>4, NextMidnightIsNext
      <4>2. QED BY <2>2, <2>3, <2>6, <3>2, <4>1
    <3>5. QED BY <2>1, <3>2, <3>3, <3>4
  <2>7. QED BY <2>1, <2>2, <2>4, <2>5, <2>6, BansOf
<1> HIDE DEF Kept
<1>3. RotatorSpec => [][Kept]_rotatorVars
  BY <1>1, <1>2, NightInit, PTL DEF RotatorSpec
<1>4. QED BY <1>3 DEF BanLostOnlyAtMidnight, Kept

\* What a mark leaves of the worker it names.
LEMMA MarkNamed ==
    ASSUME SteadyInv, NEW id, NEW w,
           workers' = IF FindLocked(id) = 0 THEN workers ELSE [workers EXCEPT ![FindLocked(id)] = w],
           NEW k \in 1..Len(workers'), workers'[k].id = id
    PROVE  workers[FindLocked(id)] \in WorkerState /\ workers'[k] = w
<1> DEFINE i == FindLocked(id)
<1>1. workers \in Seq(WorkerState) /\ UniqueIds /\ i \in 0..Len(workers) /\ Len(workers) \in Nat
  BY FindLockedResult, LenProperties DEF SteadyInv, RotatorInv, TypeOK
<1>2. \A j \in 1..Len(workers) : workers[j].id = id => i = j
  BY <1>1, FindLockedFinds
<1>3. i # 0
  <2>1. SUFFICES ASSUME i = 0 PROVE FALSE
    OBVIOUS
  <2>2. k \in 1..Len(workers) /\ workers[k].id = id
    BY <2>1
  <2>3. QED BY <1>2, <2>1, <2>2
<1>4. workers' = [workers EXCEPT ![i] = w] /\ i \in 1..Len(workers)
  BY <1>1, <1>3
<1>5. /\ Len(workers') = Len(workers)
      /\ \A j \in 1..Len(workers) : workers'[j] = IF j = i THEN w ELSE workers[j]
  BY <1>1, <1>4
<1>6. k = i
  BY <1>1, <1>2, <1>5
<1>7. QED BY <1>1, <1>4, <1>5, <1>6

LEMMA MarkedFailure ==
    ASSUME SteadyInv, NEW id, NEW t \in CallTimes, MarkCooldown(id, t),
           NEW j \in 1..Len(workers'), workers'[j].id = id
    PROVE  \E w \in WorkerState : workers'[j] = AfterFailure(w, t)
<1> DEFINE v == AfterFailure(workers[FindLocked(id)], t)
<1>1. workers' = IF FindLocked(id) = 0 THEN workers ELSE [workers EXCEPT ![FindLocked(id)] = v]
  BY DEF MarkCooldown
<1> HIDE DEF v
<1>2. workers[FindLocked(id)] \in WorkerState /\ workers'[j] = v
  BY <1>1, MarkNamed
<1>3. QED BY <1>2 DEF v

LEMMA MarkedBan ==
    ASSUME SteadyInv, NEW id, NEW dur \in BanDurs, NEW t \in CallTimes, MarkBan(id, dur, t),
           NEW j \in 1..Len(workers'), workers'[j].id = id
    PROVE  \E w \in WorkerState : workers'[j] = AfterBan(w, dur, t)
<1> DEFINE v == AfterBan(workers[FindLocked(id)], dur, t)
<1>1. workers' = IF FindLocked(id) = 0 THEN workers ELSE [workers EXCEPT ![FindLocked(id)] = v]
  BY DEF MarkBan
<1> HIDE DEF v
<1>2. workers[FindLocked(id)] \in WorkerState /\ workers'[j] = v
  BY <1>1, MarkNamed
<1>3. QED BY <1>2 DEF v

\* Ids stay unique and the clock within its bound.
LEMMA ClockedInvariant == ASSUME NoRepeatedIds PROVE RotatorSpec => []ClockedInv
<1>1. ClockedInv /\ [RotatorNext]_rotatorVars => ClockedInv'
  BY ClockedStep
<1>2. QED BY <1>1, NightInit, PTL DEF RotatorSpec

\* rotator.go:47 and 98-240: whatever is marked, picked and reconfigured, by any
\* number of callers with late clocks, only time makes a worker ready again.
THEOREM OutagesRunOut ==
    ASSUME NoRepeatedIds, PromptCallers, EvenDays
    PROVE  RotatorSpec => OutageEndsByClock
<1> DEFINE Kept == now' = now =>
                      \A p \in Survivors :
                         Ready(workers'[p[2]], now) =>
                            Ready(workers[p[1]], now) \/ workers'[p[2]].bannedUntil \in JustPassed
<1>1. ClockedInv /\ [RotatorNext]_rotatorVars => ClockedInv'
  BY ClockedStep
<1>2. ClockedInv /\ [RotatorNext]_rotatorVars => Kept
  <2> SUFFICES ASSUME ClockedInv, [RotatorNext]_rotatorVars, NEW p \in Survivors, Ready(workers'[p[2]], now)
               PROVE  Ready(workers[p[1]], now) \/ workers'[p[2]].bannedUntil \in JustPassed
    OBVIOUS
  <2> DEFINE w == workers[p[1]]
             v == workers'[p[2]]
  <2>1. now \in Nat /\ now <= MaxTime /\ w \in WorkerState
    BY DEF ClockedInv, SteadyInv, RotatorInv, TypeOK, Survivors
  <2>2. MayBecome(w, v)
    BY ClockedStep DEF Shaped
  <2> HIDE DEF w
  <2>3. CASE v \in {w, [w EXCEPT !.fails = 0], [w EXCEPT !.lastError = "error"]}
    <3>1. v.cooldownUntil = w.cooldownUntil /\ v.bannedUntil = w.bannedUntil
      BY <2>1, <2>3 DEF WorkerState
    <3>2. QED BY <3>1 DEF Ready, w
  <2>4. CASE \E t \in CallTimes : v = AfterFailure(w, t)
    BY <2>1, <2>4, FailureTakesOut
  <2>5. CASE \E t \in CallTimes, dur \in BanDurs : v = AfterBan(w, dur, t)
    BY <2>1, <2>5, BanTakesOut
  <2>6. QED BY <2>2, <2>3, <2>4, <2>5 DEF MayBecome
<1> HIDE DEF Kept
<1>3. RotatorSpec => [][Kept]_rotatorVars
  BY <1>1, <1>2, NightInit, PTL DEF RotatorSpec
<1>4. QED BY <1>3 DEF OutageEndsByClock, Kept

=============================================================================
