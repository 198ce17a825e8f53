------------------------------ MODULE MCEgress ------------------------------
(* A small instance of Egress for TLC: two proxies on one host and port. *)
EXTENDS Egress

SomeEntries ==
    {[type |-> "socks5", at |-> "one", user |-> 1], [type |-> "http", at |-> "one", user |-> 0]}
=============================================================================
