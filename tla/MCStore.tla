------------------------------ MODULE MCStore ------------------------------
(* One table name that is created, dropped and created anew, two columns   *)
(* and two values, so that every WHERE tells some rows from others.        *)
EXTENDS Store

CONSTANTS t, a, b, c, x, y, null, s1, s2

MCTables   == {t}
MCColumns  == {a, b, c}
MCValues   == {x, y, null}
MCSessions == {s1, s2}
Generate   == <<a, b>>

Eq(col, val) == [col |-> col, val |-> val]
St(op)       == [op |-> op, table |-> t, cols |-> <<>>, rows |-> <<>>, where |-> NoWhere, set |-> <<>>]
InsertTwo    == [St("insert") EXCEPT !.cols = <<a, b>>, !.rows = <<<<x, x>>, <<y>>>>]
UpdateSome   == [St("update") EXCEPT !.set = [k \in {a, b, c} |-> y], !.where = Eq(a, x)]
SelectAll    == [St("select") EXCEPT !.where = Eq(c, x)]

MCStatements ==
  {[St("create") EXCEPT !.cols = <<a, b>>], St("drop"), St("truncate"), InsertTwo, UpdateSome,
   [St("delete") EXCEPT !.where = Eq(a, x)],
   SelectAll, [St("select") EXCEPT !.cols = <<b, c>>, !.where = Eq(a, y)]}

TornStatements == {InsertTwo, UpdateSome, SelectAll}
SessionSymmetry == Permutations(MCSessions)
=============================================================================
