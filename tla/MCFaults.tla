------------------------------ MODULE MCFaults ------------------------------
(* Two sessions, two calls each, against a rule that fails after two hits  *)
(* and one that drops the connection.                                      *)
EXTENDS Faults

CONSTANTS r1, r2, r3, q1, q2, s1, s2, A, B, builtin, fallback

MCRules    == {r1, r2, r3}
MCIds      == {A, B}
MCIdOf     == [r \in MCRules |-> IF r = r2 THEN B ELSE A]
MCQueries  == {q1, q2}
MCMatches  == {<<r1, q1>>, <<r3, q1>>, <<r2, q2>>}
MCAnswers  == {builtin, fallback}
MCAnswerOf == [q \in MCQueries |-> IF q = q1 THEN builtin ELSE fallback]
MCInit     == <<r1, r2>>
MCSessions == {s1, s2}
OneSession == {s1}

MCDrops      == {r2}
MCErrors     == {r1, r3}
MCFailAfterN == [r \in MCRules |-> IF r = r1 THEN 2 ELSE 0]
SessionSymmetry == Permutations(MCSessions)
=============================================================================
