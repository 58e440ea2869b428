------------------------------- MODULE Canned -------------------------------
(***************************************************************************)
(* The answers that are built in: matchDefaultSystemQuery and the generic  *)
(* fallback of mock/engine.go, MatchCatalogQuery of mock/catalog.go.       *)
(*                                                                         *)
(* Of the rows only their number and what is a number or a truth value are *)
(* kept, of the names of columns whose answer they belong to.              *)
(***************************************************************************)
EXTENDS Replies

Cells(types, i) == [j \in DOMAIN types |-> IF types[j] = OIDBool THEN Value("bool", 0)
                                           ELSE IF types[j] \in {OIDInt2, OIDInt4, OIDInt8} THEN Value("int", i)
                                           ELSE Value("word", i)]

(* A rule named so with n rows of these types.                             *)
Rows(name, types, n, tag) ==
  [Rule EXCEPT !.id = Id(name, 0), !.columns = [j \in DOMAIN types |-> name], !.types = types,
               !.rows = [i \in 1 .. n |-> Cells(types, i)], !.tag = tag]

Select(name, types, n) == Rows(name, types, n, Tag(<<"SELECT">>, n))
Command(name, words)   == Rows(name, <<>>, 0, Tag(words, NoCount))

(* The first entry that applies, if one does, answers.                     *)
Applicable(table, Applies(_)) == {i \in DOMAIN table : Applies(table[i])}

-----------------------------------------------------------------------------
(* matchDefaultSystemQuery.                                                *)

Is(texts, rule)      == [is |-> texts, starts |-> {}, rule |-> rule]
Starts(words, rule)  == [is |-> {}, starts |-> {words}, rule |-> rule]

Builtins == <<
  Is({<<"SELECT", "1">>, <<"SELECT", "1", "AS", "ONE">>}, Select("builtin-select-1", <<OIDInt4>>, 1)),
  Starts(<<"SET">>, Command("builtin-set", <<"SET">>)),
  Starts(<<"SHOW">>, Rows("builtin-show", <<OIDText>>, 1, Tag(<<"SHOW">>, NoCount))),
  Is({<<"BEGIN">>, <<"START", "TRANSACTION">>}, Command("builtin-begin", <<"BEGIN">>)),
  Is({<<"COMMIT">>}, Command("builtin-commit", <<"COMMIT">>)),
  Is({<<"ROLLBACK">>}, Command("builtin-rollback", <<"ROLLBACK">>)),
  Is({<<"DISCARD", "ALL">>}, Command("builtin-discard", <<"DISCARD", "ALL">>)),
  Starts(<<"UNLISTEN">>, Command("builtin-unlisten", <<"UNLISTEN">>)) >>

BuiltinHits(q) ==
  LET t == NormalizeSQL(q)
  IN  Applicable(Builtins, LAMBDA e : \/ t.words \in e.is /\ t.semis = 0 /\ ~t.wild
                                      \/ \E w \in e.starts : IsStrictPrefix(w, t.words))

BuiltinRule(q) == [Builtins[First(BuiltinHits(q))].rule EXCEPT !.query = q]

-----------------------------------------------------------------------------
(* MatchCatalogQuery.                                                      *)

Mentions(texts, rule) == [parts |-> {Text(t) : t \in texts}, rule |-> rule]
From(name, catalog, rule) == Mentions({<<"FROM", name>>, <<"FROM", catalog>>}, rule)

PGTypeCatalogRule == Select("builtin-pg-type", <<26, 25, 26, 21, 18, 18, 26, 26>>, 20)

Catalog == <<
  Mentions({<<"CURRENT_SCHEMA()">>, <<"CURRENT_SCHEMA">>}, Select("builtin-current-schema", <<25>>, 1)),
  Mentions({<<"VERSION()">>}, Select("builtin-version", <<25>>, 1)),
  Mentions({<<"PG_IS_IN_RECOVERY()">>}, Select("builtin-recovery", <<16>>, 1)),
  Mentions({<<"TXID_CURRENT()">>, <<"PG_CURRENT_XACT_ID()">>}, Select("builtin-txid", <<20>>, 1)),
  From("PG_TYPE", "PG_CATALOG.PG_TYPE", PGTypeCatalogRule),
  From("PG_NAMESPACE", "PG_CATALOG.PG_NAMESPACE", Select("builtin-pg-namespace", <<26, 25, 26>>, 4)),
  From("PG_CLASS", "PG_CATALOG.PG_CLASS", Select("builtin-pg-class", <<26, 25, 26, 18, 700>>, 0)),
  From("PG_ATTRIBUTE", "PG_CATALOG.PG_ATTRIBUTE", Select("builtin-pg-attribute", <<26, 25, 26, 21, 16>>, 0)),
  From("PG_SETTINGS", "PG_CATALOG.PG_SETTINGS", Select("builtin-pg-settings", <<25, 25, 25, 25, 25>>, 5)),
  Mentions({<<"INFORMATION_SCHEMA.TABLES">>}, Select("builtin-info-schema-tables", <<25, 25, 25, 25>>, 0)),
  Mentions({<<"INFORMATION_SCHEMA.COLUMNS">>},
           Select("builtin-info-schema-columns", <<25, 25, 25, 25, 23, 25, 25>>, 0)),
  Mentions({<<"INFORMATION_SCHEMA.SCHEMATA">>}, Select("builtin-info-schema-schemata", <<25, 25, 25>>, 3)),
  From("PG_RANGE", "PG_CATALOG.PG_RANGE", Select("builtin-pg-range", <<26, 26>>, 0)),
  From("PG_ENUM", "PG_CATALOG.PG_ENUM", Select("builtin-pg-enum", <<26, 700, 25>>, 0)) >>

CatalogHits(q) ==
  Applicable(Catalog, LAMBDA e : \E part \in e.parts : Within(part, NormalizeSQL(q)))

CatalogRule(q) == [Catalog[First(CatalogHits(q))].rule EXCEPT !.query = q]

-----------------------------------------------------------------------------
(* The generic fallback.                                                   *)

(* The text is not normalised here: a semicolon stays part of its word.    *)
Part(q, i) == IF i = Len(q.words) /\ q.semis > 0 THEN <<q.words[i], ";">> ELSE <<q.words[i]>>

detectCommandTag(q) ==
  IF q.words = <<>> THEN Tag(IF q.semis = 0 THEN <<"OK">> ELSE <<";">>, NoCount)
  ELSE LET verb == Part(q, 1)
       IN  IF verb \in {<<"SELECT">>, <<"UPDATE">>, <<"DELETE">>} THEN Tag(verb, 0)
           ELSE IF verb = <<"INSERT">> THEN Tag(<<"INSERT", "0">>, 1)
           ELSE IF verb \in {<<"CREATE">>, <<"DROP">>} /\ Len(q.words) > 1 THEN Tag(verb \o Part(q, 2), NoCount)
           ELSE Tag(verb, NoCount)

DefaultRule(q) == [Command("default-fallback", <<>>) EXCEPT !.query = q, !.tag = detectCommandTag(q)]
=============================================================================
