-------------------------- MODULE ForwardContract --------------------------
(***************************************************************************)
(* What Forward (internal/relayproxy/relay.go) promises its caller, with   *)
(* no rotator, no marks and no interleaving: a request hears a bounded     *)
(* number of answers, hears nothing after one that settles it, and is told *)
(* the newest response, or the failure when there was no response at all.  *)
(***************************************************************************)
EXTENDS Integers, Sequences, SequencesExt

CONSTANTS Requests, MaxWorkerAttempts

Settling == {"ok", "client_error"}
Responses == Settling \cup {"rate_limit", "free_limit", "server_error"}
Answers == Responses \cup {"failed", "unbuilt"}

VARIABLES heard,    \* the answers each request has had, oldest first
          told      \* what each request's client is told

contractVars == <<heard, told>>

ContractInit ==
    /\ heard = [r \in Requests |-> <<>>]
    /\ told = [r \in Requests |-> "none"]

Settled(answers) == answers # <<>> /\ Last(answers) \in Settling

Hear(r, answer) ==
    /\ told[r] = "none"
    /\ Len(heard[r]) < MaxWorkerAttempts
    /\ ~Settled(heard[r])
    /\ heard' = [heard EXCEPT ![r] = Append(@, answer)]
    /\ UNCHANGED told

Verdict(answers) ==
    IF answers = <<>> THEN "no_worker"
    ELSE LET i == SelectLastInSeq(answers, LAMBDA x : x \in Responses)
         IN  IF i = 0 THEN "error" ELSE answers[i]

Tell(r) ==
    /\ told[r] = "none"
    /\ told' = [told EXCEPT ![r] = Verdict(heard[r])]
    /\ UNCHANGED heard

Reset(r) ==
    /\ heard' = [heard EXCEPT ![r] = <<>>]
    /\ told' = [told EXCEPT ![r] = "none"]

ContractNext ==
    \/ \E r \in Requests, answer \in Answers : Hear(r, answer)
    \/ \E r \in Requests : Tell(r)
    \/ \E r \in Requests : Reset(r)

ContractSpec == ContractInit /\ [][ContractNext]_contractVars

=============================================================================
