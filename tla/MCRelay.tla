------------------------------ MODULE MCRelay ------------------------------
(* Small instances of Relay for TLC. *)
EXTENDS Relay

CONSTANTS a, b, c, r1, r2

TwoWorkers == {<<a, b>>}
ThreeWorkers == {<<a, b, c>>}

RegularDays == {d \in 0..(MaxTime + 2 * DayLength) : d % DayLength = 0}
DefaultBan == {BanDuration}

ASSUME StepAssumption == EvenDays /\ PromptCallers /\ DayBansOnly /\ NoRepeatedIds

\* Requests are interchangeable in the safety runs.
RequestSymmetry == Permutations(Requests)
=============================================================================
