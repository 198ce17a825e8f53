----------------------------- MODULE MCRotator -----------------------------
(* A small instance of Rotator for TLC. *)
EXTENDS Rotator

CONSTANTS a, b

\* Two workers that are configured, reordered and removed.
TwoWorkerLists == {<<>>, <<a>>, <<a, b>>, <<b, a>>}

\* Ordinary days: every midnight is DayLength after the one before.
RegularDays == {d \in 0..(MaxTime + 2 * DayLength) : d % DayLength = 0}

DefaultBan == {BanDuration}

ASSUME StepAssumption == EvenDays /\ PromptCallers /\ DayBansOnly /\ NoRepeatedIds
=============================================================================
