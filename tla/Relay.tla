------------------------------- MODULE Relay -------------------------------
(***************************************************************************)
(* The forwarding path of the gateway: Forward and attemptOne of           *)
(* internal/relayproxy/relay.go, run by concurrent requests over the       *)
(* shared rotator, while an administrator may replace the worker list.     *)
(*                                                                         *)
(* A request is one goroutine.  It takes the rotator's mutex several times *)
(* (to pick a worker and for each mark) and waits for the upstream in      *)
(* between; each of these is a step of its own, so that the steps of       *)
(* different requests interleave as they do in the program.                *)
(***************************************************************************)
EXTENDS Rotator

CONSTANTS
    Requests,           \* the requests in flight
    MaxWorkerAttempts,  \* attempts a request may make
    UpstreamAnswers,    \* the answers the upstream gives in this instance
    PanicIds            \* workers whose API key is 2 to 4 characters long

(***************************************************************************)
(* What an attempt can end with: a response, by class, or no response.     *)
(* "failed" is any error of Do or of building the proxy transport;         *)
(* "unbuilt" is a request that http.NewRequest refuses.                    *)
(***************************************************************************)
Responses == {"ok", "client_error", "rate_limit", "free_limit", "server_error"}
Answers == Responses \cup {"failed", "unbuilt"}

ASSUME RelayAssumption ==
    /\ MaxWorkerAttempts \in Nat \ {0}
    /\ UpstreamAnswers \subseteq Responses \cup {"failed"}
    /\ PanicIds \subseteq Ids
    /\ BanDuration \in BanDurs
    /\ "none" \notin Ids

VARIABLE req    \* the local variables of every request

relayVars == <<rotatorVars, req>>

None == "none"

\* pc names what the request does next; done and panicked are its two ends.
RequestState ==
    [pc : {"idle", "pick", "send", "error", "cooldown", "ban", "success", "return", "done", "panicked"},
     attempt : 0..(MaxWorkerAttempts - 1),
     tried : SUBSET Ids,
     worker : Ids \cup {None},
     answer : Answers \cup {None},
     lastResult : Responses \cup {None},
     lastErr : BOOLEAN,
     buildable : BOOLEAN,
     aborted : BOOLEAN,
     outcome : Responses \cup {None, "error", "no_worker"}]

\* The points between a pick and the end of the attempt.
Working == {"send", "error", "cooldown", "ban", "success"}

IdleRequest ==
    [pc |-> "idle", attempt |-> 0, tried |-> {}, worker |-> None, answer |-> None,
     lastResult |-> None, lastErr |-> FALSE, buildable |-> TRUE, aborted |-> FALSE,
     outcome |-> None]

RelayInit == RotatorInit /\ req = [r \in Requests |-> IdleRequest]

Become(r, q) == req' = [req EXCEPT ![r] = q]

----------------------------------------------------------------------------
(* The loop of Forward. *)

\* buildable: whether the upstream URL made from the client's path parses.
Start(r, buildable) ==
    /\ req[r].pc = "idle"
    /\ Become(r, [IdleRequest EXCEPT !.pc = "pick", !.buildable = buildable])
    /\ UNCHANGED rotatorVars

\* Mutants: a request waits for a worker; the ids already tried are not excluded.
PickWaits(r, t) ==
    LET q == req[r]
        p == Picked(t, q.tried)
    IN  /\ q.pc = "pick"
        /\ PickExcluding(t, q.tried)
        /\ Become(r, IF p = 0 THEN q
                     ELSE [q EXCEPT !.pc = "send", !.worker = workers[p].id,
                                    !.tried = @ \cup {workers[p].id}])

PickForgetful(r, t) ==
    LET q == req[r]
        p == Picked(t, {})
    IN  /\ q.pc = "pick"
        /\ PickExcluding(t, {})
        /\ Become(r, IF p = 0
                     THEN [q EXCEPT !.pc = "return"]
                     ELSE [q EXCEPT !.pc = "send", !.worker = workers[p].id,
                                    !.tried = @ \cup {workers[p].id}])

Pick(r, t) ==
    LET q == req[r]
        p == Picked(t, q.tried)
    IN  /\ req[r].pc = "pick"
        /\ PickExcluding(t, q.tried)
        /\ Become(r, IF p = 0
                     THEN [q EXCEPT !.pc = "return"]
                     ELSE [q EXCEPT !.pc = "send", !.worker = workers[p].id,
                                    !.tried = @ \cup {workers[p].id}])

\* Mutant: one attempt too many.
ContinueOnceMore(q) ==
    LET cleared == [q EXCEPT !.worker = None, !.answer = None]
    IN  IF q.attempt < MaxWorkerAttempts
        THEN [cleared EXCEPT !.pc = "pick", !.attempt = @ + 1]
        ELSE [cleared EXCEPT !.pc = "return"]

\* The end of the loop body: the next attempt, or out of the loop.
Continue(q) ==
    LET cleared == [q EXCEPT !.worker = None, !.answer = None]
    IN  IF q.attempt + 1 < MaxWorkerAttempts
        THEN [cleared EXCEPT !.pc = "pick", !.attempt = @ + 1]
        ELSE [cleared EXCEPT !.pc = "return"]

\* What follows an answer: attemptOne marks errors and 429s, Forward the rest.
AfterAnswer(q, answer) ==
    LET heard == [q EXCEPT !.answer = answer,
                           !.lastErr = @ \/ answer \in {"failed", "unbuilt"},
                           !.lastResult = IF answer \in Responses THEN answer ELSE @]
    IN  CASE answer = "unbuilt"      -> Continue(heard)
          [] answer \in {"failed", "rate_limit", "free_limit"} -> [heard EXCEPT !.pc = "error"]
          [] answer = "server_error" -> [heard EXCEPT !.pc = "cooldown"]
          [] answer = "ok"           -> [heard EXCEPT !.pc = "success"]
          [] answer = "client_error" -> [heard EXCEPT !.pc = "return", !.worker = None, !.answer = None]

\* The upstream call without the lock.  A request the client has given up on
\* gets no response any more.
Answer(r, answer) ==
    /\ req[r].pc = "send"
    /\ IF req[r].buildable
       THEN /\ req[r].worker \notin PanicIds
            /\ answer \in IF req[r].aborted THEN {"failed"} ELSE UpstreamAnswers
       ELSE answer = "unbuilt"
    /\ Become(r, AfterAnswer(req[r], answer))
    /\ UNCHANGED rotatorVars

\* outboundRealHeaders slices v[:12] of a header value of 9 to 11 bytes; the
\* HTTP server recovers the goroutine's panic and drops the connection.
Panic(r) ==
    /\ req[r].pc = "send"
    /\ req[r].buildable
    /\ req[r].worker \in PanicIds
    /\ Become(r, [req[r] EXCEPT !.pc = "panicked"])
    /\ UNCHANGED rotatorVars

----------------------------------------------------------------------------
(* The marks, each under the rotator's lock. *)

ReportError(r) ==
    /\ req[r].pc = "error"
    /\ MarkError(req[r].worker)
    /\ Become(r, [req[r] EXCEPT !.pc = IF req[r].answer = "free_limit"
                                       THEN "ban" ELSE "cooldown"])

ReportCooldown(r, t) ==
    /\ req[r].pc = "cooldown"
    /\ MarkCooldown(req[r].worker, t)
    /\ Become(r, Continue(req[r]))

\* Mutant: a duration that misses the anchor to midnight.
ReportLongerBan(r, t) ==
    /\ req[r].pc = "ban"
    /\ MarkBan(req[r].worker, BanDuration + 1, t)
    /\ Become(r, Continue(req[r]))

ReportBan(r, t) ==
    /\ req[r].pc = "ban"
    /\ MarkBan(req[r].worker, BanDuration, t)
    /\ Become(r, Continue(req[r]))

ReportSuccess(r) ==
    /\ req[r].pc = "success"
    /\ MarkSuccess(req[r].worker)
    /\ Become(r, [req[r] EXCEPT !.pc = "return", !.worker = None, !.answer = None])

----------------------------------------------------------------------------
ErrorsFirst(q) ==   \* mutant
    IF q.lastErr THEN "error"
    ELSE IF q.lastResult # None THEN q.lastResult ELSE "no_worker"

\* What Forward returns: the newest response, else the error, else ErrNoWorker.
Surfaced(q) ==
    IF q.lastResult # None THEN q.lastResult
    ELSE IF q.lastErr THEN "error" ELSE "no_worker"

Return(r) ==
    /\ req[r].pc = "return"
    /\ Become(r, [IdleRequest EXCEPT !.pc = "done", !.outcome = Surfaced(req[r])])
    /\ UNCHANGED rotatorVars

\* The handler has written the reply; the slot can carry another request.
Finish(r) ==
    /\ req[r].pc \in {"done", "panicked"}
    /\ Become(r, IdleRequest)
    /\ UNCHANGED rotatorVars

\* The client closes its connection, which cancels the request's context.
Abort(r) ==
    /\ req[r].pc \notin {"idle", "return", "done", "panicked"}
    /\ ~req[r].aborted
    /\ Become(r, [req[r] EXCEPT !.aborted = TRUE])
    /\ UNCHANGED rotatorVars

\* Every step of a request's goroutine but the upstream call.
LocalStep(r) ==
    \/ \E t \in CallTimes : Pick(r, t)
    \/ Panic(r)
    \/ ReportError(r)
    \/ \E t \in CallTimes : ReportCooldown(r, t)
    \/ \E t \in CallTimes : ReportBan(r, t)
    \/ ReportSuccess(r)
    \/ Return(r)

RequestStep(r) == LocalStep(r) \/ \E answer \in Answers : Answer(r, answer)

RelayNext ==
    \/ \E r \in Requests : RequestStep(r)
    \/ \E r \in Requests, buildable \in BOOLEAN : Start(r, buildable)
    \/ \E r \in Requests : Finish(r)
    \/ \E r \in Requests : Abort(r)
    \/ (\E list \in WorkerLists : Sync(list)) /\ UNCHANGED req
    \/ Tick /\ UNCHANGED req

RelaySpec == RelayInit /\ [][RelayNext]_relayVars

----------------------------------------------------------------------------
(* Properties. *)

\* A request holds a worker from its pick to its last mark, so every mark it
\* makes is for a worker that was configured when it picked.
RelayTypeOK ==
    /\ TypeOK
    /\ req \in [Requests -> RequestState]
    /\ \A r \in Requests : req[r].pc \in Working => req[r].worker \in Ids

\* Every request that enters the loop leaves it, whatever other requests and the
\* administrator do to the workers: the retries are bounded.
EveryRequestReturns ==
    \A r \in Requests : req[r].pc = "pick" ~> req[r].pc \in {"done", "panicked"}

\* A request moves on from a failed attempt only when the worker it blames can
\* no longer be picked as ready, whatever other requests reported meanwhile; unless
\* it bans the worker until a midnight that has passed since it read the clock.
FailedWorkerBacksOff ==
    [][\A r \in Requests :
          /\ req[r].pc \in {"cooldown", "ban"}
          /\ req'[r].pc \notin {"cooldown", "ban"}
          => \A i \in 1..Len(workers') :
                workers'[i].id = req[r].worker =>
                   ~Ready(workers'[i], now) \/ workers'[i].bannedUntil \in JustPassed]_relayVars

\* A request comes back to a worker it has tried only if no untried worker is
\* ready, and stops early only if no worker at all is ready: none that was so
\* already when the request may have read the clock.
RetriesElsewhere ==
    [][\A r \in Requests :
          /\ req[r].pc = "pick" /\ req'[r].pc # "pick"
          /\ req'[r].pc = "return" \/ req'[r].tried = req[r].tried
          => \A i \in 1..Len(workers) :
                Ready(workers[i], now - MaxLag) =>
                   req'[r].pc # "return" /\ workers[i].id \in req[r].tried]_relayVars

\* The requests use the rotator as its own specification allows, and nothing
\* else changes it: what holds of the rotator under arbitrary callers holds here.
UsesRotator == RotatorSpec

----------------------------------------------------------------------------
(* What comments and documents say and the code does not do. *)

\* README.md:29 and rotator.go:5: a worker serves until it fails.  Here: a request
\* whose client left, and whose upstream never failed, takes no worker out.
ClientAbortIsNoFailure ==
    [][\A r \in Requests :
          req[r].aborted /\ req[r].pc = "cooldown" /\ req'[r].pc # "cooldown" =>
             \A p \in Survivors : Ready(workers[p[1]], now) => Ready(workers'[p[2]], now)]_relayVars

=============================================================================
