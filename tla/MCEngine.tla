------------------------------ MODULE MCEngine ------------------------------
(* A registry of two rules that a third joins; two of the three share an   *)
(* id.  q1 is matched by the two that share it, q2 by the one in between,  *)
(* so that a shifted, stale or reordered list shows.                       *)
EXTENDS Engine

CONSTANTS r1, r2, r3, q1, q2, s1, s2, A, B, builtin, fallback

MCRules    == {r1, r2, r3}
MCIds      == {A, B}
MCIdOf     == [r \in MCRules |-> IF r = r2 THEN B ELSE A]
MCQueries  == {q1, q2}
MCMatches  == {<<r1, q1>>, <<r3, q1>>, <<r2, q2>>}
MCAnswers  == {builtin, fallback}
MCAnswerOf == [q \in MCQueries |-> IF q = q1 THEN builtin ELSE fallback]
MCInit     == <<r1, r2>>
ThreeRules == <<r1, r2, r3>>
MCSessions == {s1, s2}
OneSession == {s1}
=============================================================================
