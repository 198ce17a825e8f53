----------------------------- MODULE RelayTrace -----------------------------
(***************************************************************************)
(* Relay with a history variable that keeps the answers of each request,   *)
(* to compare what Forward returns with what it heard.                     *)
(***************************************************************************)
EXTENDS Relay

VARIABLE heard

traceVars == <<relayVars, heard>>

TraceInit == RelayInit /\ heard = [r \in Requests |-> <<>>]

Hear(r, answer) ==
    /\ Answer(r, answer)
    /\ heard' = [heard EXCEPT ![r] = Append(@, answer)]

Forget(r) ==
    /\ Finish(r)
    /\ heard' = [heard EXCEPT ![r] = <<>>]

TraceNext ==
    \/ \E r \in Requests, answer \in Answers : Hear(r, answer)
    \/ \E r \in Requests : Forget(r)
    \/ /\ \/ \E r \in Requests : LocalStep(r) \/ Abort(r)
          \/ \E r \in Requests, buildable \in BOOLEAN : Start(r, buildable)
          \/ (\E list \in WorkerLists : Sync(list)) /\ UNCHANGED req
          \/ Tick /\ UNCHANGED req
       /\ UNCHANGED heard

TraceSpec == TraceInit /\ [][TraceNext]_traceVars

(***************************************************************************)
(* Fairness.  Goroutines are scheduled and sync.Mutex is starvation free,  *)
(* so a request that can take a step does.  For Hear this is a claim about *)
(* the environment: the client has no overall deadline (Timeout: 0), so    *)
(* the upstream answers, the connection fails or the client gives up.      *)
(***************************************************************************)
FairTraceSpec ==
    /\ TraceSpec
    /\ \A r \in Requests :
          WF_traceVars((LocalStep(r) /\ UNCHANGED heard) \/ \E answer \in Answers : Hear(r, answer))

\* The client is told what the answers the request heard call for.
Contract == INSTANCE ForwardContract WITH told <- [r \in Requests |-> req[r].outcome]
KeepsForwardContract == Contract!ContractSpec

=============================================================================
