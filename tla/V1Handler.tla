----------------------------- MODULE V1Handler -----------------------------
(***************************************************************************)
(* The accounting of /v1 requests: handleV1 of internal/server/server.go,  *)
(* run by concurrent requests over the statistics store.                   *)
(*                                                                         *)
(* A request is counted after Forward has returned and before the body is  *)
(* sent; its tokens are added when the body has been seen.  The two calls  *)
(* are critical sections of their own, and the administrator may reset the *)
(* counters, or the process may die, between them.                         *)
(***************************************************************************)
EXTENDS Stats, FiniteSets

CONSTANT Handlers   \* the requests in flight

None == "none"

ASSUME HandlersAssumption == IsFiniteSet(Handlers) /\ None \notin Accounts

VARIABLES
    call,       \* what each request is doing
    surfaced,   \* history: the results Forward has returned, per account
    straddled   \* history: a reset fell between a request and its tokens

handlerVars == <<call, surfaced, straddled>>
v1Vars == <<statsVars, handlerVars>>

Calls == [pc : {"idle", "forward", "record", "copy", "read", "tokens"},
          worker : Accounts \cup {None},
          answer : {"stream", "json", "other", "error", None}]
Idle == [pc |-> "idle", worker |-> None, answer |-> None]

\* The requests that are counted and whose tokens may still come, and those
\* that are about to be counted.
Open(id) == {h \in Handlers : call[h].worker = id /\ call[h].pc \in {"copy", "read", "tokens"}}
Recording(id) == {h \in Handlers : call[h].worker = id /\ call[h].pc = "record"}

V1Init ==
    /\ StatsInit
    /\ call = [h \in Handlers |-> Idle]
    /\ surfaced = [id \in Accounts |-> 0]
    /\ straddled = FALSE

Goto(h, pc) == call' = [call EXCEPT ![h].pc = pc]

----------------------------------------------------------------------------
\* The call-key gate and the body read let the request through; otherwise the
\* client gets 401 or 400 and nothing is counted.
Receive(h) ==
    /\ Running /\ call[h].pc = "idle"
    /\ call' = [call EXCEPT ![h] = [Idle EXCEPT !.pc = "forward"]]
    /\ UNCHANGED <<statsVars, surfaced, straddled>>

\* Mutant: after the 502 the handler goes on to count the request.
UnavailableRecorded(h) ==
    /\ call[h].pc = "forward"
    /\ Goto(h, "record")
    /\ UNCHANGED <<statsVars, surfaced, straddled>>

\* Forward returns an error: 502, and nothing is counted.
Unavailable(h) ==
    /\ call[h].pc = "forward"
    /\ call' = [call EXCEPT ![h] = Idle]
    /\ UNCHANGED <<statsVars, surfaced, straddled>>

\* Forward returns a result: a 2xx stream, 2xx JSON, another answer below 400
\* or a 2xx of another type, or an error status.
Answered(h, id, answer) ==
    /\ call[h].pc = "forward"
    /\ surfaced[id] < MaxCount
    /\ call' = [call EXCEPT ![h] = [pc |-> "record", worker |-> id, answer |-> answer]]
    /\ surfaced' = [surfaced EXCEPT ![id] = @ + 1]
    /\ UNCHANGED <<statsVars, straddled>>

SkipCount(h) ==     \* mutant: the request is not counted
    /\ call[h].pc = "record"
    /\ Goto(h, IF call[h].answer = "json" THEN "read" ELSE "copy")
    /\ UNCHANGED <<statsVars, surfaced, straddled>>

Count(h) ==
    /\ call[h].pc = "record"
    /\ RecordRequest(call[h].worker, call[h].answer # "error")
    /\ Goto(h, IF call[h].answer = "json" THEN "read" ELSE "copy")
    /\ UNCHANGED <<surfaced, straddled>>

\* The body of a 2xx JSON answer is read whole; usage tells whether it has a
\* usage object.  A failed read sends what CopyResponse still finds.
Read(h, usage) ==
    /\ call[h].pc = "read"
    /\ IF usage THEN Goto(h, "tokens") ELSE call' = [call EXCEPT ![h] = Idle]
    /\ UNCHANGED <<statsVars, surfaced, straddled>>

\* The body is streamed; for an event stream usage tells whether a usage object
\* was in the part that passed before the end or the client's departure.
Copy(h, usage) ==
    /\ call[h].pc = "copy"
    /\ usage => call[h].answer = "stream"
    /\ IF usage THEN Goto(h, "tokens") ELSE call' = [call EXCEPT ![h] = Idle]
    /\ UNCHANGED <<statsVars, surfaced, straddled>>

CountWithTokens(h) ==   \* mutant: the request is counted with its tokens again
    /\ call[h].pc = "tokens"
    /\ RecordRequest(call[h].worker, TRUE)
    /\ call' = [call EXCEPT ![h] = Idle]
    /\ UNCHANGED <<surfaced, straddled>>

CountTokens(h) ==
    /\ call[h].pc = "tokens"
    /\ AddTokens(call[h].worker)
    /\ call' = [call EXCEPT ![h] = Idle]
    /\ UNCHANGED <<surfaced, straddled>>

\* Mutant: the reset removes the file as well.
ResetAndRemove ==
    /\ Running /\ MutexFree
    /\ stats' = NoRows /\ disk' = Whole(NoRows)
    /\ wiped' = TRUE
    /\ Touch
    /\ straddled' = (straddled \/ \E id \in Accounts : Open(id) # {})
    /\ UNCHANGED <<call, surfaced, loopVars, tmp>>

\* POST /admin/api/stats/reset.
ResetStats ==
    /\ ResetAll
    /\ straddled' = (straddled \/ \E id \in Accounts : Open(id) # {})
    /\ UNCHANGED <<call, surfaced>>

\* The process dies with its requests.
Die ==
    /\ Crash
    /\ call' = [h \in Handlers |-> Idle]
    /\ UNCHANGED <<surfaced, straddled>>

V1Next ==
    \/ \E h \in Handlers :
          \/ Receive(h) \/ Unavailable(h) \/ Count(h) \/ CountTokens(h)
          \/ \E id \in Accounts, answer \in {"stream", "json", "other", "error"} :
                Answered(h, id, answer)
          \/ \E usage \in BOOLEAN : Read(h, usage) \/ Copy(h, usage)
    \/ ResetStats
    \/ Die
    \/ /\ LoopStep \/ SaveFails \/ TakeClose \/ Tick \/ Close \/ Boot
       /\ UNCHANGED handlerVars

V1Spec == V1Init /\ [][V1Next]_v1Vars
FairV1Spec == V1Spec /\ StatsFairness

----------------------------------------------------------------------------
(* Properties. *)

\* The types, and that a request has a worker and an answer to account for exactly
\* while it is past Forward: server.go:155-165 reads both from the result.
V1TypeOK ==
    /\ StatsTypeOK
    /\ call \in [Handlers -> Calls]
    /\ \A h \in Handlers : LET before == call[h].pc \in {"idle", "forward"}
                         IN  /\ call[h].worker = None <=> before
                             /\ call[h].answer = None <=> before
    /\ surfaced \in [Accounts -> Nat]
    /\ straddled \in BOOLEAN

\* Tokens belong to counted requests, in memory and in every file a restart may
\* read, unless a reset fell between a request and its tokens.
TokensWithinRequests ==
    ~straddled =>
        \A id \in Accounts :
            /\ stats[id].usages + Cardinality(Open(id)) <= stats[id].requests
            /\ disk.rows[id].usages <= disk.rows[id].requests

\* Every result is counted at most once, also across crashes and restarts.
CountedOnce ==
    \A id \in Accounts :
        /\ disk.rows[id].requests <= surfaced[id]
        /\ stats[id].requests + Cardinality(Recording(id)) <= surfaced[id]

\* The handlers use the store as its own specification allows.
UsesStats == StatsSpec

=============================================================================
