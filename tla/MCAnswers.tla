------------------------------ MODULE MCAnswers ------------------------------
(* Ways to use the server: rules that compete for one text in several      *)
(* spellings and with several parameters; equal rules and a rule that finds*)
(* the empty text; rules that fill columns of all types, from a file or a  *)
(* tape; the store; and the answers built in.                              *)
EXTENDS Answers

CONSTANTS finds  \* a pattern

R(words)   == [Rule EXCEPT !.query = Text(words)]
Num(n)     == Value("int", n)
Word(n)    == Value("word", n)
World0     == [stateful |-> FALSE, source |-> "file", rules |-> <<>>, posts |-> {}, texts |-> {},
               portals |-> {}, calls |-> 2, ops |-> 2]

(* Texts, spellings and parameters.                                        *)
ById   == <<"SELECT", "NAME", "FROM", "USERS", "WHERE", "ID", "=", "$1">>
Spelt  == {Text(ById), [Text(ById) EXCEPT !.odd = TRUE, !.semis = 1], [Text(ById) EXCEPT !.semis = 2]}
OfUser(params) == [R(ById) EXCEPT !.params = params, !.columns = <<"NAME">>, !.rows = <<<<Word(1)>>>>]
Prefix == [R(<<"SELECT", "NAME">>) EXCEPT !.query.wild = TRUE, !.id = Id("rule", 1),
                                          !.columns = <<"NAME">>]
Regex  == [Rule EXCEPT !.pattern = finds, !.params = <<AnyText>>, !.tag = Tag(<<"SELECT">>, 7),
                       !.columns = <<"NAME">>]
MCHits == {<<finds, q>> : q \in {t \in Spelt : ~t.odd} \cup {Text(<<>>)}}

Asking ==
  [World0 EXCEPT !.rules = <<OfUser(<<Num(1)>>), [OfUser(<<Null>>) EXCEPT !.query.semis = 2], OfUser(<<>>)>>,
                 !.posts = {Prefix, Regex},
                 !.texts = Spelt \cup {[Text(<<>>) EXCEPT !.semis = n] : n \in 1 .. 2},
                 !.portals = {Portal(q, params, <<>>) : q \in Spelt, params \in {<<Num(1)>>, <<Nil>>, <<Null>>}}]

(* A rule that is there twice, with another between, and one that answers  *)
(* the empty text.                                                         *)
Doubled ==
  [World0 EXCEPT !.rules = <<Prefix, OfUser(<<>>), Prefix, [Regex EXCEPT !.params = <<>>]>>,
                 !.texts = Spelt, !.portals = {Portal(Text(<<>>), <<>>, <<>>), Portal(Text(ById), <<Nil>>, <<1>>)}]

(* Types, formats, missing cells, templates.                               *)
Numbers == [R(<<"SELECT", "NUMBERS">>) EXCEPT
              !.columns = <<"A", "B", "C">>, !.types = <<OIDInt2, OIDInt4>>,
              !.rows = <<<<Num(-5), Num(70000), Word(1)>>, <<Num(40000), Null>>, <<Null, Num(2 ^ 20)>>,
                         <<Value("sequence", 0), Word(2)>>,
                         <<Value("param", 1), Value("sequence", 0), Value("param", 2), Word(3)>>>>]
Others  == [R(<<"SELECT", "OTHERS">>) EXCEPT
              !.columns = <<"A", "B", "C", "D", "E", "F">>, !.tag = Tag(<<"SELECT">>, 9),
              !.types = <<OIDDate, 1114, OIDBool, OIDInt8, OIDBytea, 0>>,
              !.rows = <<<<Value("date", 3), Value("stamp", MaxDays + 1), Value("bool", 1), Num(2 ^ 20),
                           Value("hex", 1), Value("empty", 0)>>,
                         <<Value("date", -MaxDays - 1), Word(1), Word(1), Num(-1), Word(1)>>>>]
Rest0   == [R(<<"SELECT", "REST">>) EXCEPT
              !.columns = <<"A", "B", "C", "D">>, !.types = <<OIDInt8, OIDFloat4, OIDFloat8, OIDUUID>>,
              !.rows = <<<<Num(-(2 ^ 23)), Value("half", -3), Num(-1), Word(1)>>,
                         <<Num(2 ^ 23), Num(2 ^ 16 + 1), Num(2 ^ 16 + 1)>>,
                         <<Word(1), Num(2 ^ 24), Value("half", 7)>>, <<Null, Word(1), Num(2 ^ 28)>>>>]
Formats == {<<>>, <<0>>, <<1>>, <<0, 1>>, <<1, 1, 1>>}
Typed(source) ==
  [World0 EXCEPT !.source = source, !.rules = <<Numbers, Others, Rest0>>,
                 !.posts = {[Numbers EXCEPT !.types = <<>>]},
                 !.texts = {Numbers.query},
                 !.portals = {Portal(Numbers.query, <<Num(7), Word(2)>>, f) : f \in Formats}
                               \cup {Portal(Numbers.query, <<Nil>>, <<1>>), Portal(Others.query, <<>>, <<1>>),
                                     Portal(Others.query, <<>>, <<0, 1>>), Portal(Rest0.query, <<>>, <<1>>)}]

(* One table, made by hand or by an INSERT.                                *)
St(op) == [op |-> op, table |-> "t", cols |-> <<>>, rows |-> <<>>, where |-> NoWhere, set |-> <<>>, form |-> "plain"]
Eq(col, v) == [col |-> col, val |-> v]
Insert  == [St("insert") EXCEPT !.cols = <<"b", "a">>, !.rows = <<<<Value("dollar", 1), Word(1)>>, <<Word(2)>>>>]
MCStatementOf ==
  <<"CREATE", "TABLE", "T">> :> [St("create") EXCEPT !.cols = <<"a", "b">>]
  @@ <<"DROP", "TABLE", "T">> :> St("drop")
  @@ <<"TRUNCATE", "T">> :> St("truncate")
  @@ <<"INSERT", "T">> :> Insert
  @@ <<"INSERT", "T", "RETURNING", "A">> :> [Insert EXCEPT !.form = "returning"]
  @@ <<"SELECT", "FROM", "T">> :> St("select")
  @@ <<"SELECT", "A", "C", "FROM", "T">> :>
       [St("select") EXCEPT !.cols = <<"a", "c">>, !.where = Eq("b", Word(1))]
  @@ <<"SELECT", "COUNT", "FROM", "T">> :> [St("select") EXCEPT !.form = "count"]
  @@ <<"UPDATE", "T">> :> [St("update") EXCEPT !.set = "a" :> Word(3), !.where = Eq("a", Value("dollar", 1))]
  @@ <<"DELETE", "T">> :> [St("delete") EXCEPT !.where = Eq("b", Word(1))]
  @@ <<"SELECT", "OID", "FROM", "PG_TYPE">> :> [St("select") EXCEPT !.table = "pg_type", !.cols = <<"oid">>]

Storing == [World0 EXCEPT !.stateful = TRUE, !.texts = {Text(w) : w \in DOMAIN MCStatementOf},
                          !.posts = {[R(<<"SELECT", "FROM", "T">>) EXCEPT !.columns = <<"A">>]},
                          !.portals = {Portal(Text(w), <<Word(1)>>, <<1>>) : w \in DOMAIN MCStatementOf},
                          !.calls = 3, !.ops = 1]

(* Every built-in answer, without and with the store, and the fallback.    *)
Verbs == {<<"SELECT">>, <<"INSERT">>, <<"UPDATE", "X">>, <<"DELETE">>, <<"CREATE", "INDEX">>, <<"CREATE">>,
          <<"DROP">>, <<"ALTER", "X">>, <<"VACUUM">>, <<"SET">>, <<"SET", "X">>, <<"SHOW", "X">>, <<"UNLISTEN", "X">>}
CannedWords == UNION {Builtins[i].is : i \in DOMAIN Builtins} \cup Verbs
               \cup {<<"SELECT">> \o part.words : part \in UNION {Catalog[i].parts : i \in DOMAIN Catalog}}
BuiltIn(stateful) ==
  [World0 EXCEPT !.stateful = stateful, !.ops = 1,
                 !.portals = {Portal([Text(w) EXCEPT !.semis = n], <<>>, <<1>>) : w \in CannedWords, n \in 0 .. 1},
                 !.posts = {[R(<<"SELECT", "1">>) EXCEPT !.columns = <<"A">>]}]

MCStrings == STRING
(* Stand-ins that are in the order of the true ones: 2^15, 2^24, 2^31,     *)
(* 2^53, 2^63 and the largest float4 and float8.                           *)
MCHalf  == 2 :> 2 ^ 15 @@ 4 :> 2 ^ 19 @@ 8 :> 2 ^ 23
MCExact == 4 :> 2 ^ 17 @@ 8 :> 2 ^ 21
MCUnits == [s \in {4, 8} |-> {2 ^ k : k \in 0 .. 7}]
MCWorlds == {Asking, Doubled, Typed("file"), Typed("tape"), Storing, BuiltIn(FALSE), BuiltIn(TRUE)}
MCColumns   == {"a", "b", "c", "oid", "col_1", "col_2"}
MCGenerated == <<"col_1", "col_2">>
=============================================================================
