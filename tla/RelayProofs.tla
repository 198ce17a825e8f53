---------------------------- MODULE RelayProofs ----------------------------
(***************************************************************************)
(* The requests use the rotator as its specification allows, so the        *)
(* theorems about the rotator hold while any number of requests run.       *)
(***************************************************************************)
EXTENDS RelayTrace, RotatorProofs

----------------------------------------------------------------------------
(* The steps of one request, on the request's own record. *)

\* Leaving the loop body keeps the record well-formed and gives the worker up.
LEMMA ContinueType ==
    ASSUME NEW q \in RequestState
    PROVE  Continue(q) \in RequestState /\ Continue(q).pc \in {"pick", "return"}
<1> DEFINE v == [q EXCEPT !.worker = None, !.answer = None]
<1>1. v \in RequestState /\ v.attempt = q.attempt
  BY DEF RequestState
<1>2. Continue(q) = IF q.attempt + 1 < MaxWorkerAttempts
                    THEN [v EXCEPT !.pc = "pick", !.attempt = v.attempt + 1]
                    ELSE [v EXCEPT !.pc = "return"]
  BY DEF Continue
<1> HIDE DEF v
<1>3. q.attempt \in 0..(MaxWorkerAttempts - 1)
  BY DEF RequestState
<1>4. CASE q.attempt + 1 < MaxWorkerAttempts
  <2>1. v.attempt + 1 \in 0..(MaxWorkerAttempts - 1)
    BY <1>1, <1>3, <1>4, RelayAssumption
  <2>2. Continue(q) = [v EXCEPT !.pc = "pick", !.attempt = v.attempt + 1]
    BY <1>2, <1>4
  <2> QED
    BY <1>1, <2>1, <2>2 DEF RequestState
<1>5. CASE ~(q.attempt + 1 < MaxWorkerAttempts)
  <2>1. Continue(q) = [v EXCEPT !.pc = "return"]
    BY <1>2, <1>5
  <2> QED
    BY <1>1, <2>1 DEF RequestState
<1> QED
  BY <1>4, <1>5

\* What follows an answer keeps the record well-formed, and keeps the worker
\* exactly while marks are still to be made.
LEMMA AnswerType ==
    ASSUME NEW q \in RequestState, q.worker \in Ids, NEW answer \in Answers
    PROVE  /\ AfterAnswer(q, answer) \in RequestState
           /\ AfterAnswer(q, answer).pc \in Working => AfterAnswer(q, answer).worker \in Ids
<1> DEFINE e == q.lastErr \/ answer \in {"failed", "unbuilt"}
           l == IF answer \in Responses THEN answer ELSE q.lastResult
           h == [q EXCEPT !.answer = answer, !.lastErr = e, !.lastResult = l]
<1>1. e \in BOOLEAN /\ l \in Responses \cup {None}
  BY DEF RequestState
<1> HIDE DEF e, l
<1>2. h \in RequestState /\ h.worker = q.worker
  BY <1>1 DEF RequestState
<1>3. AfterAnswer(q, answer) =
         CASE answer = "unbuilt" -> Continue(h)
           [] answer \in {"failed", "rate_limit", "free_limit"} -> [h EXCEPT !.pc = "error"]
           [] answer = "server_error" -> [h EXCEPT !.pc = "cooldown"]
           [] answer = "ok" -> [h EXCEPT !.pc = "success"]
           [] answer = "client_error" -> [h EXCEPT !.pc = "return", !.worker = None, !.answer = None]
  BY DEF AfterAnswer, e, l
<1> HIDE DEF h
<1>4. CASE answer = "unbuilt"
  <2>1. AfterAnswer(q, answer) = Continue(h)
    BY <1>3, <1>4
  <2> QED
    BY <1>2, <2>1, ContinueType DEF Working
<1>5. CASE answer \in {"failed", "rate_limit", "free_limit"}
  <2>1. AfterAnswer(q, answer) = [h EXCEPT !.pc = "error"]
    BY <1>3, <1>5
  <2> QED
    BY <1>2, <2>1 DEF RequestState
<1>6. CASE answer = "server_error"
  <2>1. AfterAnswer(q, answer) = [h EXCEPT !.pc = "cooldown"]
    BY <1>3, <1>6
  <2> QED
    BY <1>2, <2>1 DEF RequestState
<1>7. CASE answer = "ok"
  <2>1. AfterAnswer(q, answer) = [h EXCEPT !.pc = "success"]
    BY <1>3, <1>7
  <2> QED
    BY <1>2, <2>1 DEF RequestState
<1>8. CASE answer = "client_error"
  <2>1. AfterAnswer(q, answer) = [h EXCEPT !.pc = "return", !.worker = None, !.answer = None]
    BY <1>3, <1>8
  <2> QED
    BY <1>2, <2>1 DEF RequestState, Working
<1> QED
  BY <1>4, <1>5, <1>6, <1>7, <1>8 DEF Answers, Responses

----------------------------------------------------------------------------
(* The requests' part of the invariant. *)

RequestOK(q) == q \in RequestState /\ (q.pc \in Working => q.worker \in Ids)

RelayInv == RotatorInv /\ req \in [Requests -> RequestState] /\ \A r \in Requests : RequestOK(req[r])

\* Replacing one request's record by a well-formed one keeps them all so.
LEMMA BecomeOK ==
    ASSUME req \in [Requests -> RequestState], \A r \in Requests : RequestOK(req[r]),
           NEW r \in Requests, NEW q, RequestOK(q), Become(r, q)
    PROVE  (req \in [Requests -> RequestState] /\ \A s \in Requests : RequestOK(req[s]))'
<1>1. req' = [req EXCEPT ![r] = q] /\ q \in RequestState
  BY DEF Become, RequestOK
<1>2. req' \in [Requests -> RequestState]
  BY <1>1
<1>3. \A s \in Requests : req'[s] = IF s = r THEN q ELSE req[s]
  BY <1>1
<1>4. \A s \in Requests : RequestOK(req'[s])
  BY <1>3
<1> QED
  BY <1>2, <1>4 DEF RequestOK

\* A slot without a request is well-formed.
LEMMA IdleOK == IdleRequest \in RequestState
BY RelayAssumption DEF IdleRequest, RequestState, Responses, Answers

\* What a step of one request does to its own record.
LEMMA PickOK ==
    ASSUME RelayInv, NEW r \in Requests, NEW t \in CallTimes, Pick(r, t)
    PROVE  \E q : RequestOK(q) /\ Become(r, q)
<1> DEFINE q == req[r]
           p == Picked(t, q.tried)
           id == workers[p].id
<1>1. TypeOK /\ q \in RequestState /\ q.tried \in SUBSET Ids
  BY DEF RelayInv, RotatorInv, RequestOK, RequestState
<1>2. p \in 0..Len(workers)
  BY <1>1, PickResult
<1>3. Become(r, IF p = 0 THEN [q EXCEPT !.pc = "return"]
                ELSE [q EXCEPT !.pc = "send", !.worker = id, !.tried = q.tried \cup {id}])
  BY DEF Pick
<1> HIDE DEF q, p
<1>4. CASE p = 0
  <2>1. [q EXCEPT !.pc = "return"] \in RequestState
    BY <1>1 DEF RequestState
  <2>2. [q EXCEPT !.pc = "return"].pc \notin Working
    BY <1>1 DEF RequestState, Working
  <2> QED
    BY <1>3, <1>4, <2>1, <2>2 DEF RequestOK
<1>5. CASE p # 0
  <2>1. p \in 1..Len(workers)
    BY <1>1, <1>2, <1>5 DEF TypeOK
  <2>2. workers[p] \in WorkerState
    BY <1>1, <2>1 DEF TypeOK
  <2>3. id \in Ids
    BY <2>2 DEF WorkerState
  <2> HIDE DEF id
  <2> DEFINE v == [q EXCEPT !.pc = "send", !.worker = id, !.tried = q.tried \cup {id}]
  <2>4. q.tried \cup {id} \in SUBSET Ids
    BY <1>1, <2>3
  <2>5. v \in RequestState /\ v.worker \in Ids
    BY <1>1, <2>3, <2>4 DEF RequestState
  <2> QED
    BY <1>3, <1>5, <2>5 DEF RequestOK
<1> QED
  BY <1>4, <1>5

\* The upstream call keeps the request well-formed.
LEMMA AnswerOK ==
    ASSUME RelayInv, NEW r \in Requests, NEW answer \in Answers, Answer(r, answer)
    PROVE  \E q : RequestOK(q) /\ Become(r, q)
<1>1. req[r] \in RequestState /\ req[r].worker \in Ids
  BY DEF RelayInv, RequestOK, Answer, Working
<1> QED
  BY <1>1, AnswerType DEF Answer, RequestOK

\* The steps that only move the program counter keep the request well-formed.
LEMMA MoveOK ==
    ASSUME RelayInv, NEW r \in Requests,
           \/ Panic(r) \/ ReportError(r) \/ ReportSuccess(r) \/ Abort(r)
    PROVE  \E q : RequestOK(q) /\ Become(r, q)
<1> DEFINE q == req[r]
<1>1. q \in RequestState /\ (q.pc \in Working => q.worker \in Ids)
  BY DEF RelayInv, RequestOK
<1> HIDE DEF q
<1>2. CASE Panic(r)
  <2>1. [q EXCEPT !.pc = "panicked"] \in RequestState
    BY <1>1 DEF RequestState
  <2>2. RequestOK([q EXCEPT !.pc = "panicked"])
    BY <1>1, <2>1 DEF RequestOK, RequestState, Working
  <2> QED
    BY <1>2, <2>2 DEF Panic, q
<1>3. CASE ReportError(r)
  <2> DEFINE l == IF q.answer = "free_limit" THEN "ban" ELSE "cooldown"
             v == [q EXCEPT !.pc = l]
  <2>1. l \in {"ban", "cooldown"} /\ q.pc = "error"
    BY <1>3 DEF ReportError, q
  <2>2. Become(r, v)
    BY <1>3 DEF ReportError, q
  <2> HIDE DEF l
  <2>3. v \in RequestState /\ v.worker = q.worker /\ q.worker \in Ids
    BY <1>1, <2>1 DEF RequestState, Working
  <2> QED
    BY <2>2, <2>3 DEF RequestOK
<1>4. CASE ReportSuccess(r)
  <2> DEFINE v == [q EXCEPT !.pc = "return", !.worker = None, !.answer = None]
  <2>1. v \in RequestState /\ v.pc = "return"
    BY <1>1 DEF RequestState
  <2>2. Become(r, v)
    BY <1>4 DEF ReportSuccess, q
  <2> QED
    BY <2>1, <2>2 DEF RequestOK, Working
<1>5. CASE Abort(r)
  <2> DEFINE v == [q EXCEPT !.aborted = TRUE]
  <2>1. v \in RequestState /\ v.pc = q.pc /\ v.worker = q.worker
    BY <1>1 DEF RequestState
  <2>2. Become(r, v)
    BY <1>5 DEF Abort, q
  <2> QED
    BY <1>1, <2>1, <2>2 DEF RequestOK
<1> QED
  BY <1>2, <1>3, <1>4, <1>5

\* The marks that end an attempt keep the request well-formed.
LEMMA LoopOK ==
    ASSUME RelayInv, NEW r \in Requests,
           \/ \E t \in CallTimes : ReportCooldown(r, t)
           \/ \E t \in CallTimes : ReportBan(r, t)
    PROVE  \E q : RequestOK(q) /\ Become(r, q)
<1>1. req[r] \in RequestState /\ Become(r, Continue(req[r]))
  BY DEF RelayInv, RequestOK, ReportCooldown, ReportBan
<1>2. RequestOK(Continue(req[r]))
  BY <1>1, ContinueType DEF RequestOK, Working
<1> QED
  BY <1>1, <1>2

\* The steps that end a request keep it well-formed.
LEMMA EndOK ==
    ASSUME RelayInv, NEW r \in Requests,
           \/ Return(r) \/ Finish(r) \/ \E buildable \in BOOLEAN : Start(r, buildable)
    PROVE  \E q : RequestOK(q) /\ Become(r, q)
<1>1. req[r] \in RequestState
  BY DEF RelayInv
<1>2. CASE Return(r)
  <2> DEFINE o == Surfaced(req[r])
             v == [IdleRequest EXCEPT !.pc = "done", !.outcome = o]
  <2>1. o \in Responses \cup {None, "error", "no_worker"}
    BY <1>1 DEF Surfaced, RequestState
  <2>2. Become(r, v)
    BY <1>2 DEF Return
  <2> HIDE DEF o
  <2>3. v \in RequestState /\ v.pc = "done"
    BY IdleOK, <2>1 DEF RequestState
  <2> QED
    BY <2>2, <2>3 DEF RequestOK, Working
<1>3. CASE Finish(r)
  <2>1. RequestOK(IdleRequest)
    BY IdleOK DEF RequestOK, IdleRequest, Working
  <2> QED
    BY <1>3, <2>1 DEF Finish
<1>4. CASE \E buildable \in BOOLEAN : Start(r, buildable)
  <2>1. PICK buildable \in BOOLEAN : Start(r, buildable)
    BY <1>4
  <2> DEFINE v == [IdleRequest EXCEPT !.pc = "pick", !.buildable = buildable]
  <2>2. v \in RequestState /\ v.pc = "pick"
    BY IdleOK DEF RequestState
  <2>3. Become(r, v)
    BY <2>1 DEF Start
  <2> QED
    BY <2>2, <2>3 DEF RequestOK, Working
<1> QED
  BY <1>2, <1>3, <1>4

----------------------------------------------------------------------------
(* Every step of the gateway is a step of the rotator or leaves it alone. *)

\* A request marks only workers it has picked, at times it has read, and picks
\* with the set of ids it has tried.
LEMMA LocalStepUsesRotator ==
    ASSUME RelayInv, NEW r \in Requests, LocalStep(r)
    PROVE  [RotatorNext]_rotatorVars
<1>1. req[r].tried \in SUBSET Ids
  BY DEF RelayInv, RequestState
<1>2. req[r].pc \in Working => req[r].worker \in Ids
  BY DEF RelayInv, RequestOK
<1>3. CASE \E t \in CallTimes : Pick(r, t)
  BY <1>1, <1>3 DEF Pick, RotatorNext
<1>4. CASE Panic(r)
  BY <1>4 DEF Panic
<1>5. CASE ReportError(r)
  BY <1>2, <1>5 DEF ReportError, Working, RotatorNext
<1>6. CASE \E t \in CallTimes : ReportCooldown(r, t)
  BY <1>2, <1>6 DEF ReportCooldown, Working, RotatorNext
<1>7. CASE \E t \in CallTimes : ReportBan(r, t)
  <2>1. PICK t \in CallTimes : ReportBan(r, t)
    BY <1>7
  <2>2. req[r].worker \in Ids /\ MarkBan(req[r].worker, BanDuration, t)
    BY <1>2, <2>1 DEF ReportBan, Working
  <2> QED
    BY <2>2, RelayAssumption DEF RotatorNext
<1>8. CASE ReportSuccess(r)
  BY <1>2, <1>8 DEF ReportSuccess, Working, RotatorNext
<1>9. CASE Return(r)
  BY <1>9 DEF Return
<1> QED
  BY <1>3, <1>4, <1>5, <1>6, <1>7, <1>8, <1>9 DEF LocalStep

\* Every step of a request keeps all the requests well-formed.
LEMMA RequestStepOK ==
    ASSUME RelayInv, NEW r \in Requests, RequestStep(r)
    PROVE  \E q : RequestOK(q) /\ Become(r, q)
BY PickOK, AnswerOK, MoveOK, LoopOK, EndOK DEF RequestStep, LocalStep

\* Every step of the gateway is a step of the rotator, or leaves it alone, and
\* keeps the requests well-formed.
LEMMA RelayStep ==
    ASSUME RelayInv, [RelayNext]_relayVars
    PROVE  RelayInv' /\ [RotatorNext]_rotatorVars
<1> DEFINE ReqInv == req \in [Requests -> RequestState] /\ \A r \in Requests : RequestOK(req[r])
<1>1. ReqInv
  BY DEF RelayInv
<1>2. ASSUME NEW r \in Requests, \E q : RequestOK(q) /\ Become(r, q)
      PROVE  ReqInv'
  BY <1>1, <1>2, BecomeOK
<1>3. ReqInv' /\ [RotatorNext]_rotatorVars
  <2>1. CASE \E r \in Requests : RequestStep(r)
    <3>1. PICK r \in Requests : RequestStep(r)
      BY <2>1
    <3>2. ReqInv'
      BY <1>2, <3>1, RequestStepOK
    <3>3. CASE LocalStep(r)
      BY <3>2, <3>3, LocalStepUsesRotator
    <3>4. CASE \E answer \in Answers : Answer(r, answer)
      BY <3>2, <3>4 DEF Answer
    <3> QED
      BY <3>1, <3>3, <3>4 DEF RequestStep
  <2>2. CASE \E r \in Requests, buildable \in BOOLEAN : Start(r, buildable)
    <3>1. PICK r \in Requests : \E buildable \in BOOLEAN : Start(r, buildable)
      BY <2>2
    <3>2. ReqInv'
      BY <1>2, <3>1, EndOK
    <3> QED
      BY <3>1, <3>2 DEF Start
  <2>3. CASE \E r \in Requests : Finish(r)
    <3>1. PICK r \in Requests : Finish(r)
      BY <2>3
    <3>2. ReqInv'
      BY <1>2, <3>1, EndOK
    <3> QED
      BY <3>1, <3>2 DEF Finish
  <2>4. CASE \E r \in Requests : Abort(r)
    <3>1. PICK r \in Requests : Abort(r)
      BY <2>4
    <3>2. ReqInv'
      BY <1>2, <3>1, MoveOK
    <3> QED
      BY <3>1, <3>2 DEF Abort
  <2>5. CASE (\E list \in WorkerLists : Sync(list)) /\ UNCHANGED req
    BY <1>1, <2>5 DEF RotatorNext, RequestOK
  <2>6. CASE Tick /\ UNCHANGED req
    BY <1>1, <2>6 DEF RotatorNext, RequestOK
  <2>7. CASE UNCHANGED relayVars
    BY <1>1, <2>7 DEF relayVars, rotatorVars, RequestOK
  <2> QED
    BY <2>1, <2>2, <2>3, <2>4, <2>5, <2>6, <2>7 DEF RelayNext
<1>4. RotatorInv'
  BY <1>3, NextInv DEF RelayInv
<1> QED
  BY <1>3, <1>4 DEF RelayInv

\* The gateway starts with an empty rotator and no request.
LEMMA RelayInitInv == RelayInit => RelayInv
<1> SUFFICES ASSUME RelayInit PROVE RelayInv
  OBVIOUS
<1>1. RotatorInv
  BY InitInv DEF RelayInit
<1>2. req = [r \in Requests |-> IdleRequest]
  BY DEF RelayInit
<1>3. RequestOK(IdleRequest)
  BY IdleOK DEF RequestOK, IdleRequest, Working
<1> QED
  BY <1>1, <1>2, <1>3, IdleOK DEF RelayInv

----------------------------------------------------------------------------
(* Theorems of the specification. *)

\* The rotator's invariant and the requests' own hold together in every state of
\* every execution, with any number of requests.
THEOREM RelayInvariant == RelaySpec => []RelayInv
<1>1. RelayInv /\ [RelayNext]_relayVars => RelayInv'
  BY RelayStep
<1> QED
  BY <1>1, RelayInitInv, PTL DEF RelaySpec

\* A request between its pick and its last mark always holds a configured-once
\* worker id; its local variables and the rotator's state keep their types.
THEOREM RelayTypeCorrect == RelaySpec => []RelayTypeOK
<1>1. RelayInv => RelayTypeOK
  BY DEF RelayInv, RotatorInv, RequestOK, RelayTypeOK
<1> QED
  BY <1>1, RelayInvariant, PTL

\* Any number of concurrent requests, aborts and reconfigurations drive the
\* rotator only through its operations: the gateway implements RotatorSpec.
THEOREM RelayImplementsRotator == RelaySpec => UsesRotator
<1>1. RelayInit => RotatorInit
  BY DEF RelayInit
<1>2. RelayInv /\ [RelayNext]_relayVars => [RotatorNext]_rotatorVars
  BY RelayStep
<1> QED
  BY <1>1, <1>2, RelayInvariant, PTL DEF RelaySpec, UsesRotator, RotatorSpec

\* Hence, with requests running, outages stay bounded and picks keep their
\* contract, and no ready worker is starved.
THEOREM RelayInheritsRotator ==
    RelaySpec => []OutageBounded /\ []PickContract /\ []RotationProgress
<1> QED
  BY RelayImplementsRotator, OutagesAreBounded, PicksKeepContract, RotationIsFair, PTL
     DEF UsesRotator

----------------------------------------------------------------------------
(* How a request and the outages it causes go together. *)

\* Nothing but its own mark takes a request on from a failed attempt.
LEMMA OnlyMarksMoveOn ==
    ASSUME RelayInv, [RelayNext]_relayVars, NEW r \in Requests, req[r].pc \in {"cooldown", "ban"},
           req'[r].pc \notin {"cooldown", "ban"}
    PROVE  \E t \in CallTimes : ReportCooldown(r, t) \/ ReportBan(r, t)
<1>1. req \in [Requests -> RequestState] /\ req[r] \in RequestState
  BY DEF RelayInv
<1>2. ASSUME NEW s \in Requests, NEW q, Become(s, q) PROVE s = r
  BY <1>1, <1>2 DEF Become
<1>3. ASSUME NEW s \in Requests, RequestStep(s) PROVE \E t \in CallTimes : ReportCooldown(r, t) \/ ReportBan(r, t)
  <2>1. s = r
    BY <1>2, <1>3, RequestStepOK
  <2>2. QED BY <1>3, <2>1 DEF RequestStep, LocalStep, Pick, Panic, ReportError, ReportSuccess, Return, Answer
<1>4. ASSUME NEW s \in Requests, NEW buildable \in BOOLEAN PROVE ~Start(s, buildable)
  BY <1>2 DEF Start
<1>5. ASSUME NEW s \in Requests PROVE ~Finish(s)
  BY <1>2 DEF Finish
<1>6. ASSUME NEW s \in Requests, Abort(s) PROVE FALSE
  <2>1. s = r /\ Become(r, [req[r] EXCEPT !.aborted = TRUE])
    BY <1>2, <1>6 DEF Abort
  <2>2. req'[r].pc = req[r].pc
    BY <1>1, <2>1 DEF Become, RequestState
  <2>3. QED BY <2>2
<1>7. ~UNCHANGED req
  OBVIOUS
<1>8. QED BY <1>3, <1>4, <1>5, <1>6, <1>7 DEF RelayNext, relayVars

\* relay.go:204-240: whatever other requests report meanwhile and however late the
\* clocks, the worker a request blames is out when the request goes on; the one ban
\* that is over at once ends at a midnight since the request read its clock.
THEOREM FailedWorkersBackOff ==
    ASSUME NoRepeatedIds, PromptCallers, EvenDays
    PROVE  RelaySpec => FailedWorkerBacksOff
<1> DEFINE Backs == \A r \in Requests :
                      /\ req[r].pc \in {"cooldown", "ban"}
                      /\ req'[r].pc \notin {"cooldown", "ban"}
                      => \A i \in 1..Len(workers') :
                            workers'[i].id = req[r].worker =>
                               ~Ready(workers'[i], now) \/ workers'[i].bannedUntil \in JustPassed
<1>1. RelayInv /\ ClockedInv /\ [RelayNext]_relayVars => Backs
  <2> SUFFICES ASSUME RelayInv, ClockedInv, [RelayNext]_relayVars, NEW r \in Requests,
                      req[r].pc \in {"cooldown", "ban"}, req'[r].pc \notin {"cooldown", "ban"},
                      NEW i \in 1..Len(workers'), workers'[i].id = req[r].worker
               PROVE  ~Ready(workers'[i], now) \/ workers'[i].bannedUntil \in JustPassed
    OBVIOUS
  <2>1. PICK t \in CallTimes : ReportCooldown(r, t) \/ ReportBan(r, t)
    BY OnlyMarksMoveOn
  <2>2. SteadyInv /\ now \in Nat /\ now <= MaxTime
    BY DEF ClockedInv, SteadyInv, RotatorInv, TypeOK
  <2>3. CASE ReportCooldown(r, t)
    <3>1. MarkCooldown(req[r].worker, t)
      BY <2>3 DEF ReportCooldown
    <3>2. PICK w \in WorkerState : workers'[i] = AfterFailure(w, t)
      BY <2>2, <3>1, MarkedFailure
    <3>3. QED BY <2>2, <3>2, FailureTakesOut
  <2>4. CASE ReportBan(r, t)
    <3>1. MarkBan(req[r].worker, BanDuration, t) /\ BanDuration \in BanDurs
      BY <2>4, RelayAssumption DEF ReportBan
    <3>2. PICK w \in WorkerState : workers'[i] = AfterBan(w, BanDuration, t)
      BY <2>2, <3>1, MarkedBan
    <3>3. QED BY <2>2, <3>1, <3>2, BanTakesOut
  <2>5. QED BY <2>1, <2>3, <2>4
<1> HIDE DEF Backs
<1>2. RelaySpec => []RelayInv /\ []ClockedInv
  BY RelayInvariant, RelayImplementsRotator, ClockedInvariant, PTL DEF UsesRotator
<1>3. RelaySpec => [][Backs]_relayVars
  BY <1>1, <1>2, PTL DEF RelaySpec
<1>4. QED BY <1>3 DEF FailedWorkerBacksOff, Backs

\* Nothing but its own pick takes a request on from the head of the loop.
LEMMA OnlyPicksMoveOn ==
    ASSUME RelayInv, [RelayNext]_relayVars, NEW r \in Requests, req[r].pc = "pick", req'[r].pc # "pick"
    PROVE  \E t \in CallTimes : Pick(r, t)
<1>1. req \in [Requests -> RequestState] /\ req[r] \in RequestState
  BY DEF RelayInv
<1>2. ASSUME NEW s \in Requests, NEW q, Become(s, q) PROVE s = r
  BY <1>1, <1>2 DEF Become
<1>3. ASSUME NEW s \in Requests, RequestStep(s) PROVE \E t \in CallTimes : Pick(r, t)
  <2>1. s = r
    BY <1>2, <1>3, RequestStepOK
  <2>2. QED
    BY <1>3, <2>1 DEF RequestStep, LocalStep, Panic, ReportError, ReportCooldown, ReportBan,
       ReportSuccess, Return, Answer
<1>4. ASSUME NEW s \in Requests, NEW buildable \in BOOLEAN PROVE ~Start(s, buildable)
  BY <1>2 DEF Start
<1>5. ASSUME NEW s \in Requests PROVE ~Finish(s)
  BY <1>2 DEF Finish
<1>6. ASSUME NEW s \in Requests, Abort(s) PROVE FALSE
  <2>1. s = r /\ Become(r, [req[r] EXCEPT !.aborted = TRUE])
    BY <1>2, <1>6 DEF Abort
  <2>2. req'[r].pc = req[r].pc
    BY <1>1, <2>1 DEF Become, RequestState
  <2>3. QED BY <2>2
<1>7. ~UNCHANGED req
  OBVIOUS
<1>8. QED BY <1>3, <1>4, <1>5, <1>6, <1>7 DEF RelayNext, relayVars

\* relay.go:83-96: with any number of workers, requests and repeated ids a request
\* tries every ready worker before one twice, and gives up only when none is ready.
THEOREM RequestsRetryElsewhere == RelaySpec => RetriesElsewhere
<1> DEFINE Elsewhere == \A r \in Requests :
                          /\ req[r].pc = "pick" /\ req'[r].pc # "pick"
                          /\ req'[r].pc = "return" \/ req'[r].tried = req[r].tried
                          => \A i \in 1..Len(workers) :
                                Ready(workers[i], now - MaxLag) =>
                                   req'[r].pc # "return" /\ workers[i].id \in req[r].tried
<1>1. RelayInv /\ [RelayNext]_relayVars => Elsewhere
  <2> SUFFICES ASSUME RelayInv, [RelayNext]_relayVars, NEW r \in Requests,
                      req[r].pc = "pick", req'[r].pc # "pick",
                      req'[r].pc = "return" \/ req'[r].tried = req[r].tried,
                      NEW i \in 1..Len(workers), Ready(workers[i], now - MaxLag)
               PROVE  req'[r].pc # "return" /\ workers[i].id \in req[r].tried
    OBVIOUS
  <2>1. PICK t \in CallTimes : Pick(r, t)
    BY OnlyPicksMoveOn
  <2>2. TypeOK /\ req[r] \in RequestState /\ req \in [Requests -> RequestState]
    BY DEF RelayInv, RotatorInv
  <2> DEFINE q == req[r]
             p == Picked(t, q.tried)
             id == workers[p].id
             v == [q EXCEPT !.pc = "send", !.worker = id, !.tried = q.tried \cup {id}]
  <2>3. Ready(workers[i], t)
    <3>1. now \in Nat /\ t \in Nat /\ MaxLag \in Nat /\ now - MaxLag <= t
      BY <2>2, ClockAssumption DEF CallTimes, TypeOK
    <3>2. workers[i] \in WorkerState
      BY <2>2 DEF TypeOK
    <3>3. workers[i].cooldownUntil \in Nat /\ workers[i].bannedUntil \in Nat
      BY <3>2 DEF WorkerState
    <3>4. QED BY <3>1, <3>3 DEF Ready
  <2>4. p # 0 /\ (workers[i].id \notin q.tried => id \notin q.tried)
    <3>1. /\ ReadyOffsets(t) # {}
          /\ workers[i].id \notin q.tried => FreshOffsets(t, q.tried) # {}
      BY <2>2, <2>3, ScansFind
    <3>2. QED BY <2>2, <3>1, PickResult, Zenon
  <2>5. Become(r, v)
    BY <2>1, <2>4 DEF Pick
  <2> HIDE DEF p, id
  <2>6. req'[r] = v
    BY <2>2, <2>5 DEF Become
  <2>7. req'[r].pc = "send" /\ req'[r].tried = q.tried \cup {id}
    BY <2>2, <2>6 DEF RequestState
  <2>8. id \in q.tried
    BY <2>7
  <2>9. QED BY <2>4, <2>7, <2>8
<1> HIDE DEF Elsewhere
<1>2. RelaySpec => [][Elsewhere]_relayVars
  BY <1>1, RelayInvariant, PTL DEF RelaySpec
<1>3. QED BY <1>2 DEF RetriesElsewhere, Elsewhere

----------------------------------------------------------------------------
(* What Forward tells its client: RelayTrace implements ForwardContract.    *)
(* A request's local variables are a summary of the answers it has heard.   *)

\* The newest response and whether there was a failure.
NewestKept(q, answers) ==
    \/ q.lastResult = None /\ \A i \in 1..Len(answers) : answers[i] \notin Responses
    \/ \E i \in 1..Len(answers) :
          /\ answers[i] = q.lastResult /\ q.lastResult \in Responses
          /\ \A j \in (i + 1)..Len(answers) : answers[j] \notin Responses

FailureKept(q, answers) ==
    q.lastErr <=> \E i \in 1..Len(answers) : answers[i] \in {"failed", "unbuilt"}

Summed(q, answers) == NewestKept(q, answers) /\ FailureKept(q, answers)

\* The marks that lead to another attempt.
Failing == {"error", "cooldown", "ban"}

TraceOK(q, answers) ==
    /\ answers \in Seq(Answers)
    /\ q.pc # "done" => q.outcome = None
    /\ q.pc = "idle" => answers = <<>>
    /\ q.pc \in {"pick", "send"} => Len(answers) = q.attempt
    /\ q.pc \in Failing => Len(answers) = q.attempt + 1
    /\ q.pc \in {"pick", "send"} \cup Failing => ~Contract!Settled(answers)
    /\ q.pc \in {"pick", "send", "success", "return"} \cup Failing => Summed(q, answers)

TraceInv ==
    /\ RelayInv
    /\ heard \in [Requests -> Seq(Answers)]
    /\ \A r \in Requests : TraceOK(req[r], heard[r])

\* What Forward returns is the verdict of the contract.
LEMMA VerdictIsSurfaced ==
    ASSUME NEW q \in RequestState, NEW answers \in Seq(Answers), Summed(q, answers)
    PROVE  Surfaced(q) = Contract!Verdict(answers)
<1> DEFINE n == Len(answers)
           I == {i \in 1..n : answers[i] \in Responses}
           i == IF I # {} THEN Max(I) ELSE 0
<1>1. n \in Nat /\ \A j \in 1..n : answers[j] \in Answers
  BY LenProperties, ElementOfSeq
<1>2. Contract!Verdict(answers) = IF answers = <<>> THEN "no_worker" ELSE IF i = 0 THEN "error" ELSE answers[i]
  <2>1. Contract!Responses = Responses
    BY DEF Contract!Responses, Contract!Settling, Responses
  <2>2. Contract!Verdict(answers) =
           LET J == {j \in 1..n : answers[j] \in Contract!Responses}
               m == IF J # {} THEN Max(J) ELSE 0
           IN  IF answers = <<>> THEN "no_worker" ELSE IF m = 0 THEN "error" ELSE answers[m]
    BY DEF Contract!Verdict, Contract!SelectLastInSeq, Contract!Max, Max
  <2>3. QED BY <2>1, <2>2, Zenon
<1>3. I \in SUBSET (0..n)
  OBVIOUS
<1>4. I # {} => Max(I) \in I /\ \A j \in I : Max(I) >= j
  BY <1>1, <1>3, MaxOfBounded, Zenon
<1>5. CASE q.lastResult = None /\ I = {}
  <2>1. i = 0
    BY <1>5
  <2>2. answers = <<>> <=> n = 0
    BY EmptySeq
  <2>3. q.lastErr <=> n # 0
    <3>1. \A j \in 1..n : answers[j] \in {"failed", "unbuilt"}
      BY <1>1, <1>5 DEF Answers
    <3>2. n # 0 => 1 \in 1..n
      BY <1>1
    <3>3. QED BY <3>1, <3>2 DEF Summed, FailureKept
  <2>4. QED BY <1>2, <1>5, <2>1, <2>2, <2>3 DEF Surfaced
<1>6. CASE \E k \in 1..n : /\ answers[k] = q.lastResult /\ q.lastResult \in Responses
                           /\ \A j \in (k + 1)..n : answers[j] \notin Responses
  <2>1. PICK k \in 1..n : /\ answers[k] = q.lastResult /\ q.lastResult \in Responses
                          /\ \A j \in (k + 1)..n : answers[j] \notin Responses
    BY <1>6
  <2>2. k \in I /\ \A j \in I : j <= k
    BY <1>1, <2>1
  <2>3. Max(I) \in I /\ Max(I) >= k /\ Max(I) <= k
    BY <1>4, <2>2
  <2>4. Max(I) = k
    BY <2>2, <2>3
  <2>5. i = k /\ i # 0
    BY <2>2, <2>4
  <2>6. answers # <<>>
    BY <2>1
  <2>7. q.lastResult # None
    BY <2>1 DEF Responses, None
  <2>8. QED BY <1>2, <2>1, <2>5, <2>6, <2>7 DEF Surfaced
<1>7. QED BY <1>5, <1>6 DEF Summed, NewestKept

\* Leaving the loop body after an answer that settles nothing.
LEMMA ContinueTrace ==
    ASSUME NEW q \in RequestState, NEW answers \in Seq(Answers), Summed(q, answers),
           ~Contract!Settled(answers), Len(answers) = q.attempt + 1, q.outcome = None
    PROVE  TraceOK(Continue(q), answers) /\ Continue(q).outcome = None
<1> DEFINE v == [q EXCEPT !.worker = None, !.answer = None]
           again == [v EXCEPT !.pc = "pick", !.attempt = v.attempt + 1]
           end == [v EXCEPT !.pc = "return"]
<1>1. /\ v.attempt = q.attempt /\ v.lastResult = q.lastResult /\ v.lastErr = q.lastErr
      /\ v.outcome = None /\ v \in RequestState
  BY DEF RequestState
<1>2. Continue(q) = IF q.attempt + 1 < MaxWorkerAttempts THEN again ELSE end
  BY DEF Continue
<1> HIDE DEF v
<1>3. /\ again.pc = "pick" /\ again.attempt = v.attempt + 1 /\ again.lastResult = v.lastResult
      /\ again.lastErr = v.lastErr /\ again.outcome = v.outcome
  BY <1>1 DEF RequestState
<1>4. end.pc = "return" /\ end.lastResult = v.lastResult /\ end.lastErr = v.lastErr /\ end.outcome = v.outcome
  BY <1>1 DEF RequestState
<1> HIDE DEF again, end
<1>5. TraceOK(again, answers)
  BY <1>1, <1>3 DEF TraceOK, Summed, NewestKept, FailureKept, Failing
<1>6. TraceOK(end, answers)
  BY <1>1, <1>4 DEF TraceOK, Summed, NewestKept, FailureKept, Failing
<1>7. QED BY <1>1, <1>2, <1>3, <1>4, <1>5, <1>6

\* One more answer, and the local variables that take it in.
LEMMA SummedGrows ==
    ASSUME NEW q \in RequestState, NEW answers \in Seq(Answers), Summed(q, answers),
           NEW answer \in Answers, NEW h,
           h.lastErr = (q.lastErr \/ answer \in {"failed", "unbuilt"}),
           h.lastResult = IF answer \in Responses THEN answer ELSE q.lastResult
    PROVE  Summed(h, Append(answers, answer))
<1> DEFINE more == Append(answers, answer)
           n == Len(answers)
<1>1. /\ n \in Nat /\ Len(more) = n + 1 /\ more[n + 1] = answer
      /\ \A i \in 1..n : more[i] = answers[i]
  BY AppendProperties, LenProperties
<1> HIDE DEF more
<1>2. FailureKept(h, more)
  <2>1. (\E i \in 1..(n + 1) : more[i] \in {"failed", "unbuilt"}) <=>
        (\E i \in 1..n : answers[i] \in {"failed", "unbuilt"}) \/ answer \in {"failed", "unbuilt"}
    BY <1>1
  <2>2. QED BY <1>1, <2>1 DEF FailureKept, Summed
<1>3. NewestKept(h, more)
  <2>1. CASE answer \in Responses
    <3>1. n + 1 \in 1..Len(more) /\ \A j \in (n + 2)..Len(more) : more[j] \notin Responses
      BY <1>1
    <3>2. QED BY <1>1, <2>1, <3>1 DEF NewestKept
  <2>2. CASE answer \notin Responses
    <3>1. CASE q.lastResult = None /\ \A i \in 1..n : answers[i] \notin Responses
      BY <1>1, <2>2, <3>1 DEF NewestKept
    <3>2. CASE \E i \in 1..n : /\ answers[i] = q.lastResult /\ q.lastResult \in Responses
                               /\ \A j \in (i + 1)..n : answers[j] \notin Responses
      <4>1. PICK i \in 1..n : /\ answers[i] = q.lastResult /\ q.lastResult \in Responses
                              /\ \A j \in (i + 1)..n : answers[j] \notin Responses
        BY <3>2
      <4>2. \A j \in (i + 1)..(n + 1) : more[j] \notin Responses
        BY <1>1, <2>2, <4>1
      <4>3. i \in 1..Len(more) /\ more[i] = h.lastResult /\ h.lastResult \in Responses
        BY <1>1, <2>2, <4>1
      <4>4. QED BY <1>1, <4>2, <4>3 DEF NewestKept
    <3>3. QED BY <3>1, <3>2 DEF Summed, NewestKept
  <2>3. QED BY <2>1, <2>2
<1>4. QED BY <1>2, <1>3 DEF Summed, more

\* Only a settling answer ends the loop, so the next one comes only after others.
LEMMA AnswerTrace ==
    ASSUME NEW q \in RequestState, q.pc = "send", NEW answers, TraceOK(q, answers),
           NEW answer \in Answers
    PROVE  /\ TraceOK(AfterAnswer(q, answer), Append(answers, answer))
           /\ AfterAnswer(q, answer).outcome = None
<1> DEFINE e == q.lastErr \/ answer \in {"failed", "unbuilt"}
           l == IF answer \in Responses THEN answer ELSE q.lastResult
           h == [q EXCEPT !.answer = answer, !.lastErr = e, !.lastResult = l]
           more == Append(answers, answer)
<1>1. e \in BOOLEAN /\ l \in Responses \cup {None}
  BY DEF RequestState
<1> HIDE DEF e, l
<1>2. /\ h \in RequestState /\ h.attempt = q.attempt /\ h.outcome = None
      /\ h.lastErr = e /\ h.lastResult = l
  BY <1>1 DEF RequestState, TraceOK
<1>3. AfterAnswer(q, answer) =
         CASE answer = "unbuilt" -> Continue(h)
           [] answer \in {"failed", "rate_limit", "free_limit"} -> [h EXCEPT !.pc = "error"]
           [] answer = "server_error" -> [h EXCEPT !.pc = "cooldown"]
           [] answer = "ok" -> [h EXCEPT !.pc = "success"]
           [] answer = "client_error" -> [h EXCEPT !.pc = "return", !.worker = None, !.answer = None]
  BY DEF AfterAnswer, e, l
<1> HIDE DEF h
<1>4. answers \in Seq(Answers) /\ Len(answers) = q.attempt /\ Summed(q, answers)
  BY DEF TraceOK
<1>5. /\ more \in Seq(Answers) /\ Len(more) = h.attempt + 1 /\ more # <<>>
      /\ more[Len(more)] = answer
  BY <1>2, <1>4, AppendProperties, LenProperties
<1>6. Summed(h, more)
  BY <1>2, <1>4, SummedGrows DEF e, l
<1>7. Contract!Settled(more) <=> answer \in {"ok", "client_error"}
  <2>1. Last(more) = answer
    BY <1>5 DEF Last
  <2> HIDE DEF more
  <2>2. QED BY <1>5, <2>1 DEF Contract!Settled, Contract!Settling, Contract!Last, Last
<1> HIDE DEF more
<1>8. ASSUME NEW pc \in {"error", "cooldown", "success"}, pc = "success" \/ ~Contract!Settled(more)
      PROVE  TraceOK([h EXCEPT !.pc = pc], more) /\ [h EXCEPT !.pc = pc].outcome = None
  <2> DEFINE v == [h EXCEPT !.pc = pc]
  <2>1. /\ v.pc = pc /\ v.attempt = h.attempt /\ v.outcome = None
        /\ v.lastErr = h.lastErr /\ v.lastResult = h.lastResult
    BY <1>2 DEF RequestState
  <2> HIDE DEF v
  <2>2. Summed(v, more)
    BY <1>6, <2>1 DEF Summed, NewestKept, FailureKept
  <2>3. TraceOK(v, more)
    BY <1>5, <1>8, <2>1, <2>2 DEF TraceOK, Failing
  <2>4. QED BY <2>1, <2>3 DEF v
<1>9. CASE answer = "unbuilt"
  <2>1. AfterAnswer(q, answer) = Continue(h) /\ ~Contract!Settled(more)
    BY <1>3, <1>7, <1>9
  <2>2. QED BY <1>2, <1>5, <1>6, <2>1, ContinueTrace DEF more
<1>10. CASE answer \in {"failed", "rate_limit", "free_limit"}
  <2>1. AfterAnswer(q, answer) = [h EXCEPT !.pc = "error"] /\ ~Contract!Settled(more)
    BY <1>3, <1>7, <1>10
  <2>2. QED BY <1>8, <2>1 DEF more
<1>11. CASE answer = "server_error"
  <2>1. AfterAnswer(q, answer) = [h EXCEPT !.pc = "cooldown"] /\ ~Contract!Settled(more)
    BY <1>3, <1>7, <1>11
  <2>2. QED BY <1>8, <2>1 DEF more
<1>12. CASE answer = "ok"
  <2>1. AfterAnswer(q, answer) = [h EXCEPT !.pc = "success"]
    BY <1>3, <1>12
  <2>2. QED BY <1>8, <2>1 DEF more
<1>13. CASE answer = "client_error"
  <2> DEFINE v == [h EXCEPT !.pc = "return", !.worker = None, !.answer = None]
  <2>1. AfterAnswer(q, answer) = v
    BY <1>3, <1>13
  <2>2. v.pc = "return" /\ v.outcome = None /\ v.lastErr = h.lastErr /\ v.lastResult = h.lastResult
    BY <1>2 DEF RequestState
  <2> HIDE DEF v
  <2>3. Summed(v, more)
    BY <1>6, <2>2 DEF Summed, NewestKept, FailureKept
  <2>4. TraceOK(v, more)
    BY <1>5, <2>2, <2>3 DEF TraceOK, Failing
  <2>5. QED BY <2>1, <2>2, <2>4 DEF more
<1>14. QED BY <1>9, <1>10, <1>11, <1>12, <1>13 DEF Answers, Responses

\* The steps between answers keep what was heard summed up, and tell nobody.
LEMMA LocalTrace ==
    ASSUME RelayInv, NEW r \in Requests, NEW answers, TraceOK(req[r], answers),
           \/ LocalStep(r) /\ ~Return(r)
           \/ Abort(r)
           \/ \E buildable \in BOOLEAN : Start(r, buildable)
    PROVE  \E q : Become(r, q) /\ TraceOK(q, answers) /\ q.outcome = req[r].outcome
<1> DEFINE q == req[r]
<1>1. q \in RequestState /\ TraceOK(q, answers)
  BY DEF RelayInv
<1>2. ASSUME NEW pc \in {"return", "panicked", "cooldown", "ban"}, Become(r, [q EXCEPT !.pc = pc]),
             pc \in {"cooldown", "ban"} => q.pc = "error",
             pc = "return" => q.pc = "pick",
             pc = "panicked" => q.pc = "send"
      PROVE  \E v : Become(r, v) /\ TraceOK(v, answers) /\ v.outcome = req[r].outcome
  <2> DEFINE v == [q EXCEPT !.pc = pc]
  <2> HIDE DEF q
  <2>1. /\ v.pc = pc /\ v.attempt = q.attempt /\ v.outcome = q.outcome
        /\ v.lastErr = q.lastErr /\ v.lastResult = q.lastResult
    BY <1>1 DEF RequestState
  <2>2. Become(r, v)
    BY <1>2
  <2> HIDE DEF v
  <2>3. TraceOK(v, answers)
    BY <1>1, <1>2, <2>1 DEF TraceOK, Summed, NewestKept, FailureKept, Failing
  <2>4. QED BY <2>1, <2>2, <2>3 DEF q
<1>3. CASE \E t \in CallTimes : Pick(r, t)
  <2>1. PICK t \in CallTimes : Pick(r, t)
    BY <1>3
  <2> DEFINE p == Picked(t, q.tried)
             v == [q EXCEPT !.pc = "send", !.worker = workers[p].id, !.tried = @ \cup {workers[p].id}]
  <2>2. q.pc = "pick" /\ Become(r, IF p = 0 THEN [q EXCEPT !.pc = "return"] ELSE v)
    BY <2>1 DEF Pick
  <2> HIDE DEF p, q
  <2>3. /\ v.pc = "send" /\ v.attempt = q.attempt /\ v.outcome = q.outcome
        /\ v.lastErr = q.lastErr /\ v.lastResult = q.lastResult
    BY <1>1 DEF RequestState
  <2> HIDE DEF v
  <2>4. TraceOK(v, answers)
    BY <1>1, <2>2, <2>3 DEF TraceOK, Summed, NewestKept, FailureKept, Failing
  <2>5. CASE p = 0
    BY <1>2, <2>2, <2>5
  <2>6. CASE p # 0
    BY <2>2, <2>3, <2>4, <2>6 DEF q
  <2>7. QED BY <2>5, <2>6
<1>4. CASE Panic(r)
  BY <1>2, <1>4 DEF Panic
<1>5. CASE ReportError(r)
  <2> DEFINE pc == IF q.answer = "free_limit" THEN "ban" ELSE "cooldown"
  <2>1. q.pc = "error" /\ pc \in {"cooldown", "ban"} /\ Become(r, [q EXCEPT !.pc = pc])
    BY <1>5 DEF ReportError
  <2> HIDE DEF pc
  <2>2. QED BY <1>2, <2>1
<1>6. CASE \/ \E t \in CallTimes : ReportCooldown(r, t)
           \/ \E t \in CallTimes : ReportBan(r, t)
  <2>1. q.pc \in {"cooldown", "ban"} /\ Become(r, Continue(q))
    BY <1>6 DEF ReportCooldown, ReportBan
  <2> HIDE DEF q
  <2>2. /\ answers \in Seq(Answers) /\ Summed(q, answers) /\ ~Contract!Settled(answers)
        /\ Len(answers) = q.attempt + 1 /\ q.outcome = None
    BY <1>1, <2>1 DEF TraceOK, Failing
  <2>3. TraceOK(Continue(q), answers) /\ Continue(q).outcome = None
    BY <1>1, <2>2, ContinueTrace
  <2>4. QED BY <2>1, <2>2, <2>3 DEF q
<1>7. CASE ReportSuccess(r)
  <2> DEFINE v == [q EXCEPT !.pc = "return", !.worker = None, !.answer = None]
  <2>1. q.pc = "success" /\ Become(r, v)
    BY <1>7 DEF ReportSuccess
  <2> HIDE DEF q
  <2>2. /\ v.pc = "return" /\ v.outcome = q.outcome
        /\ v.lastErr = q.lastErr /\ v.lastResult = q.lastResult
    BY <1>1 DEF RequestState
  <2> HIDE DEF v
  <2>3. TraceOK(v, answers)
    BY <1>1, <2>1, <2>2 DEF TraceOK, Summed, NewestKept, FailureKept, Failing
  <2>4. QED BY <2>1, <2>2, <2>3 DEF q
<1>8. CASE Abort(r)
  <2> DEFINE v == [q EXCEPT !.aborted = TRUE]
  <2>1. Become(r, v)
    BY <1>8 DEF Abort
  <2> HIDE DEF q
  <2>2. /\ v.pc = q.pc /\ v.attempt = q.attempt /\ v.outcome = q.outcome
        /\ v.lastErr = q.lastErr /\ v.lastResult = q.lastResult
    BY <1>1 DEF RequestState
  <2> HIDE DEF v
  <2>3. TraceOK(v, answers)
    BY <1>1, <2>2 DEF TraceOK, Summed, NewestKept, FailureKept, Failing
  <2>4. QED BY <2>1, <2>2, <2>3 DEF q
<1>9. CASE \E buildable \in BOOLEAN : Start(r, buildable)
  <2>1. PICK buildable \in BOOLEAN : Start(r, buildable)
    BY <1>9
  <2> DEFINE v == [IdleRequest EXCEPT !.pc = "pick", !.buildable = buildable]
  <2>2. q.pc = "idle" /\ Become(r, v)
    BY <2>1 DEF Start
  <2>3. /\ v.pc = "pick" /\ v.attempt = 0 /\ v.outcome = None /\ v.lastErr = FALSE /\ v.lastResult = None
    BY DEF IdleRequest
  <2> HIDE DEF q, v
  <2>4. answers = <<>> /\ q.outcome = None
    BY <1>1, <2>2 DEF TraceOK
  <2>5. Len(answers) = 0 /\ answers \in Seq(Answers) /\ ~Contract!Settled(answers)
    BY <2>4 DEF Contract!Settled
  <2>6. Summed(v, answers)
    BY <2>3, <2>5 DEF Summed, NewestKept, FailureKept
  <2>7. TraceOK(v, answers)
    BY <2>3, <2>5, <2>6 DEF TraceOK, Failing
  <2>8. QED BY <2>2, <2>3, <2>4, <2>7 DEF q
<1>10. QED BY <1>3, <1>4, <1>5, <1>6, <1>7, <1>8, <1>9 DEF LocalStep

\* The end of the loop: what is told is the verdict on what was heard.
LEMMA ReturnTrace ==
    ASSUME RelayInv, NEW r \in Requests, NEW answers, TraceOK(req[r], answers), Return(r)
    PROVE  \E q : /\ Become(r, q) /\ TraceOK(q, answers)
                  /\ req[r].outcome = None /\ q.outcome = Contract!Verdict(answers)
<1> DEFINE q == req[r]
           o == Surfaced(q)
           v == [IdleRequest EXCEPT !.pc = "done", !.outcome = o]
<1>1. Become(r, v) /\ q.pc = "return" /\ q \in RequestState /\ TraceOK(q, answers)
  BY DEF Return, RelayInv
<1> HIDE DEF q
<1>2. v.pc = "done" /\ v.outcome = o
  BY DEF IdleRequest
<1>3. answers \in Seq(Answers) /\ Summed(q, answers) /\ q.outcome = None
  BY <1>1 DEF TraceOK
<1>4. o = Contract!Verdict(answers)
  BY <1>1, <1>3, VerdictIsSurfaced
<1> HIDE DEF o, v
<1>5. TraceOK(v, answers)
  BY <1>2, <1>3 DEF TraceOK, Failing
<1>6. QED BY <1>1, <1>2, <1>3, <1>4, <1>5 DEF q

LEMMA IdleTrace == TraceOK(IdleRequest, <<>>) /\ IdleRequest.outcome = None
BY DEF TraceOK, IdleRequest, Failing

\* One request's record and answers change together.
LEMMA TraceBecome ==
    ASSUME TraceInv, RelayInv', NEW r \in Requests, NEW q, NEW answers, Become(r, q),
           heard' = [heard EXCEPT ![r] = answers], TraceOK(q, answers)
    PROVE  TraceInv'
<1>1. req' = [req EXCEPT ![r] = q] /\ req \in [Requests -> RequestState] /\ answers \in Seq(Answers)
  BY DEF Become, TraceInv, RelayInv, TraceOK
<1>2. heard' \in [Requests -> Seq(Answers)]
  BY <1>1 DEF TraceInv
<1>3. \A s \in Requests : /\ req'[s] = IF s = r THEN q ELSE req[s]
                          /\ heard'[s] = IF s = r THEN answers ELSE heard[s]
  BY <1>1 DEF TraceInv
<1>4. \A s \in Requests : TraceOK(req'[s], heard'[s])
  BY <1>3 DEF TraceInv
<1>5. QED BY <1>2, <1>4 DEF TraceInv, TraceOK, Summed, NewestKept, FailureKept

\* What the client of a request is told, after one request's record has changed.
LEMMA ToldAfter ==
    ASSUME RelayInv, NEW r \in Requests, NEW q, Become(r, q)
    PROVE  [s \in Requests |-> req'[s].outcome] =
              [[s \in Requests |-> req[s].outcome] EXCEPT ![r] = q.outcome]
BY DEF Become, RelayInv

\* Every step of RelayTrace is a step of the contract or changes nothing of it.
LEMMA TraceStep ==
    ASSUME TraceInv, [TraceNext]_traceVars
    PROVE  TraceInv' /\ [Contract!ContractNext]_Contract!contractVars
<1> USE DEF Contract!contractVars
<1>1. [RelayNext]_relayVars
  BY DEF TraceNext, Hear, Forget, RelayNext, RequestStep, traceVars
<1>2. RelayInv'
  BY <1>1, RelayStep DEF TraceInv
<1>3. \A r \in Requests : TraceOK(req[r], heard[r]) /\ req[r] \in RequestState
  BY DEF TraceInv, RelayInv
<1>4. ASSUME NEW r \in Requests, NEW q, Become(r, q), TraceOK(q, heard[r]), UNCHANGED heard
      PROVE  TraceInv'
  <2>1. heard' = [heard EXCEPT ![r] = heard[r]]
    BY <1>4 DEF TraceInv
  <2>2. QED BY <1>2, <1>4, <2>1, TraceBecome
<1>5. ASSUME NEW r \in Requests, NEW answer \in Answers, Hear(r, answer)
      PROVE  TraceInv' /\ Contract!ContractNext
  <2> DEFINE q == AfterAnswer(req[r], answer)
             more == Append(heard[r], answer)
  <2>1. req[r].pc = "send" /\ Become(r, q) /\ heard' = [heard EXCEPT ![r] = more]
    BY <1>5 DEF Hear, Answer
  <2>2. TraceOK(q, more) /\ q.outcome = None
    BY <1>3, <2>1, AnswerTrace
  <2> HIDE DEF q, more
  <2>3. TraceInv'
    BY <1>2, <2>1, <2>2, TraceBecome
  <2>4. /\ req[r].outcome = None /\ ~Contract!Settled(heard[r])
        /\ Len(heard[r]) < MaxWorkerAttempts
    <3>1. Len(heard[r]) = req[r].attempt /\ req[r].attempt \in 0..(MaxWorkerAttempts - 1)
      BY <1>3, <2>1 DEF TraceOK, RequestState
    <3>2. QED BY <1>3, <2>1, <3>1, RelayAssumption DEF TraceOK
  <2>5. [s \in Requests |-> req'[s].outcome] = [s \in Requests |-> req[s].outcome]
    BY <2>1, <2>2, <2>4, ToldAfter DEF TraceInv
  <2>6. Contract!Hear(r, answer)
    BY <2>1, <2>4, <2>5 DEF Contract!Hear, None, more
  <2>7. answer \in Contract!Answers
    BY DEF Answers, Responses, Contract!Answers, Contract!Responses, Contract!Settling
  <2>8. QED BY <2>3, <2>6, <2>7 DEF Contract!ContractNext
<1>6. ASSUME NEW r \in Requests, Forget(r) PROVE TraceInv' /\ Contract!ContractNext
  <2>1. Become(r, IdleRequest) /\ heard' = [heard EXCEPT ![r] = <<>>]
    BY <1>6 DEF Forget, Finish
  <2>2. TraceInv'
    BY <1>2, <2>1, IdleTrace, TraceBecome
  <2>3. [s \in Requests |-> req'[s].outcome] = [[s \in Requests |-> req[s].outcome] EXCEPT ![r] = None]
    BY <2>1, IdleTrace, ToldAfter DEF TraceInv
  <2>4. Contract!Reset(r)
    BY <2>1, <2>3 DEF Contract!Reset, None
  <2>5. QED BY <2>2, <2>4 DEF Contract!ContractNext
<1>7. ASSUME NEW r \in Requests, Return(r), UNCHANGED heard PROVE TraceInv' /\ Contract!ContractNext
  <2>1. PICK q : /\ Become(r, q) /\ TraceOK(q, heard[r])
                 /\ req[r].outcome = None /\ q.outcome = Contract!Verdict(heard[r])
    BY <1>3, <1>7, ReturnTrace DEF TraceInv
  <2>2. TraceInv'
    BY <1>4, <1>7, <2>1
  <2>3. [s \in Requests |-> req'[s].outcome] =
           [[s \in Requests |-> req[s].outcome] EXCEPT ![r] = Contract!Verdict(heard[r])]
    BY <2>1, ToldAfter DEF TraceInv
  <2>4. Contract!Tell(r)
    BY <1>7, <2>1, <2>3 DEF Contract!Tell, None
  <2>5. QED BY <2>2, <2>4 DEF Contract!ContractNext
<1>8. ASSUME NEW r \in Requests, UNCHANGED heard,
             (LocalStep(r) /\ ~Return(r)) \/ Abort(r) \/ \E buildable \in BOOLEAN : Start(r, buildable)
      PROVE  TraceInv' /\ UNCHANGED Contract!contractVars
  <2>1. PICK q : Become(r, q) /\ TraceOK(q, heard[r]) /\ q.outcome = req[r].outcome
    BY <1>3, <1>8, LocalTrace DEF TraceInv
  <2>2. TraceInv'
    BY <1>4, <1>8, <2>1
  <2>3. [s \in Requests |-> req'[s].outcome] = [s \in Requests |-> req[s].outcome]
    BY <2>1, ToldAfter DEF TraceInv
  <2>4. QED BY <1>8, <2>2, <2>3
<1>9. ASSUME UNCHANGED <<req, heard>> PROVE TraceInv' /\ UNCHANGED Contract!contractVars
  BY <1>2, <1>9 DEF TraceInv, TraceOK, Summed, NewestKept, FailureKept
<1>10. QED
  <2>1. CASE \E r \in Requests, answer \in Answers : Hear(r, answer)
    BY <1>5, <2>1
  <2>2. CASE \E r \in Requests : Forget(r)
    BY <1>6, <2>2
  <2>3. CASE (\E r \in Requests : LocalStep(r) \/ Abort(r)) /\ UNCHANGED heard
    <3>1. PICK r \in Requests : LocalStep(r) \/ Abort(r)
      BY <2>3
    <3>2. QED BY <1>7, <1>8, <2>3, <3>1
  <2>4. CASE (\E r \in Requests, buildable \in BOOLEAN : Start(r, buildable)) /\ UNCHANGED heard
    <3>1. PICK r \in Requests : \E buildable \in BOOLEAN : Start(r, buildable)
      BY <2>4
    <3>2. QED BY <1>8, <2>4, <3>1
  <2>5. CASE UNCHANGED <<req, heard>>
    BY <1>9, <2>5
  <2>6. QED BY <2>1, <2>2, <2>3, <2>4, <2>5 DEF TraceNext, traceVars, relayVars

\* relay.go:83 and 140-158: Forward makes at most MaxWorkerAttempts attempts, none
\* after an answer that settles the request, and returns the newest response or,
\* without one, the failure; whatever other requests and the administrator do.
THEOREM ForwardKeepsContract == TraceSpec => KeepsForwardContract
<1>1. TraceInit => TraceInv /\ Contract!ContractInit
  <2> SUFFICES ASSUME TraceInit PROVE TraceInv /\ Contract!ContractInit
    OBVIOUS
  <2>1. req = [r \in Requests |-> IdleRequest] /\ heard = [r \in Requests |-> <<>>] /\ RelayInv
    BY RelayInitInv DEF TraceInit, RelayInit
  <2>2. TraceInv
    BY <2>1, IdleTrace DEF TraceInv
  <2>3. QED BY <2>1, <2>2, IdleTrace DEF Contract!ContractInit, None
<1>2. TraceInv /\ [TraceNext]_traceVars => TraceInv' /\ [Contract!ContractNext]_Contract!contractVars
  BY TraceStep
<1>3. QED BY <1>1, <1>2, PTL DEF TraceSpec, KeepsForwardContract, Contract!ContractSpec

=============================================================================
