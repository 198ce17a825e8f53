--------------------------- MODULE MCRelayTrace ---------------------------
(* A small instance of RelayTrace for TLC. *)
EXTENDS RelayTrace

CONSTANTS a, b, c, r1

Reconfigured == {<<a, b>>, <<c>>, <<>>}

RegularDays == {d \in 0..(MaxTime + 2 * DayLength) : d % DayLength = 0}
DefaultBan == {BanDuration}

AllAnswers == Responses \cup {"failed"}
=============================================================================
