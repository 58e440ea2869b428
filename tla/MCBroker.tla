------------------------------ MODULE MCBroker ------------------------------
(* Two sessions and two streams whose buffer is smaller than the number of *)
(* events, so that it overflows.                                           *)
EXTENDS Broker

CONSTANTS s1, s2, k1, k2
MCSessions == {s1, s2}
MCStreams  == {k1, k2}
MCMaxQueries == [s \in MCSessions |-> IF s = s1 THEN 2 ELSE 1]
=============================================================================
