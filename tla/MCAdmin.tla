------------------------------ MODULE MCAdmin ------------------------------
(* Small instances of Admin for TLC. *)
EXTENDS Admin

CONSTANTS editor, prober, p1, p2, stranger, port1, port2, elsewhere

\* Two proxies on two ports of one host: their workers compete for its name.
\* The stranger is an id that no import hands out.
TwoPorts == (p1 :> port1) @@ (p2 :> port2) @@ (stranger :> elsewhere)
HostNames == [hp \in {port1, port2, elsewhere} |-> <<"host", "host-2">>]

\* Three lines, of which two name the same proxy.
OneBatch == {<<port1, port2, port1>>}
=============================================================================
