---------------------------- MODULE Answers_proofs ----------------------------
(***************************************************************************)
(* Proofs about Answers, for any worlds, texts, rules, statements and      *)
(* bounds: rules keep their type whatever way they come in, and mean what  *)
(* their authors wrote; a call that a rule answered by its text can be     *)
(* asserted with that text and, where the rule names them, with its        *)
(* parameters; a client reads from the bytes of a cell the value it was    *)
(* meant to have, and from the tag the number of rows; an admin request    *)
(* changes no answers but those of its rule; and what a Describe announced *)
(* is what an Execute sends.                                               *)
(***************************************************************************)
EXTENDS Answers, SequenceTheorems, FiniteSetTheorems, WellFoundedInduction, TLAPS

SP == INSTANCE Statement_proofs WITH NullText <- Null, Values <- ValueType

-----------------------------------------------------------------------------
(* Matching.                                                               *)

(* A set of numbers that is not empty has a first one, so the first rule,  *)
(* built-in answer or catalog entry that applies is one of those that do.  *)
LEMMA FirstOne ==
  ASSUME NEW S, S \subseteq Nat, S # {}
  PROVE  First(S) \in S /\ \A j \in S : First(S) <= j
<1>1. PICK i \in S : \A j \in S : ~(<<j, i>> \in OpToRel(<, Nat))
  BY WFMin, NatLessThanWellFounded
<1>2. ASSUME NEW j \in S
      PROVE  i <= j
  <2>1. i \in Nat /\ j \in Nat
    OBVIOUS
  <2>2. ~(j < i)
    BY <1>1, <2>1, Zenon DEF OpToRel
  <2> QED
    BY <2>1, <2>2
<1> QED
  BY <1>2 DEF First

(* NormalizeSQL leaves a text a text.                                      *)
LEMMA NormalizeType ==
  ASSUME NEW t \in TextType
  PROVE  NormalizeSQL(t) \in TextType
<1>1. /\ t.words \in Seq(Strings) /\ t.wild \in BOOLEAN /\ t.semis \in Nat
      /\ t = [words |-> t.words, wild |-> t.wild, semis |-> t.semis, odd |-> t.odd]
  BY DEF TextType
<1> DEFINE n == IF t.semis = 0 THEN 0 ELSE t.semis - 1
<1>2. n \in Nat /\ NormalizeSQL(t) = [t EXCEPT !.semis = n, !.odd = FALSE]
  BY <1>1 DEF NormalizeSQL
<1>3. [t EXCEPT !.semis = n, !.odd = FALSE] \in [words : Seq(Strings), wild : BOOLEAN, semis : Nat, odd : BOOLEAN]
  <2> HIDE DEF n
  <2> QED
    BY <1>1, <1>2 DEF TextType
<1> QED
  BY <1>2, <1>3 DEF TextType

(* strings.Contains finds a text in itself.                                *)
LEMMA WithinItself ==
  ASSUME NEW t \in TextType
  PROVE  Within(t, t)
<1>1. t.words \in Seq(Strings) /\ t.semis \in Nat
  BY DEF TextType
<1>2. SubSeq(t.words, 0 + 1, 0 + Len(t.words)) = t.words /\ Len(t.words) \in Nat
  BY <1>1, SubSeqFull, LenProperties
<1>3. 0 \in 0 .. (Len(t.words) - Len(t.words))
  BY <1>2
<1> QED
  BY <1>1, <1>2, <1>3 DEF Within

(* If the parameters of a call fit those of a rule, and none of them is a  *)
(* wildcard, then what is logged of them is what the rule says.            *)
LEMMA FitIsLogged ==
  ASSUME NEW expected \in ParamsType, NEW actual \in ParamsType,
         ParamsFit(expected, actual), expected # <<>>, AnyText \notin ToSet(expected)
  PROVE  Logged(actual) = expected
<1>1. /\ Len(expected) = Len(actual)
      /\ DOMAIN expected = 1 .. Len(expected) /\ DOMAIN actual = 1 .. Len(actual)
  BY LenProperties DEF ParamsFit, ParamsType
<1>2. ASSUME NEW i \in DOMAIN expected
      PROVE  (IF actual[i] = Nil THEN Null ELSE actual[i]) = expected[i]
  <2>1. ParamFits(expected[i], actual[i])
    BY DEF ParamsFit
  <2>2. expected[i] # AnyText
    BY DEF ToSet
  <2> QED
    BY <2>1, <2>2 DEF ParamFits
<1>3. expected = [i \in DOMAIN expected |-> expected[i]]
  BY LenProperties DEF ParamsType
<1> QED
  BY <1>1, <1>2, <1>3 DEF Logged

-----------------------------------------------------------------------------
(* The rules: whichever way they come in, they have the type of a rule.    *)

(* What is made of each element of a sequence is a sequence.               *)
LEMMA EachOf ==
  ASSUME NEW A, NEW list \in Seq(A), NEW S, NEW f, f \in [DOMAIN list -> S]
  PROVE  f \in Seq(S)
<1>1. DOMAIN list = 1 .. Len(list) /\ Len(list) \in Nat
  BY LenProperties
<1> QED
  BY <1>1, SeqDef

(* The tag and the types that are filled in (rules.go:81-100).             *)
LEMMA DefaultTypes ==
  ASSUME NEW rule \in RuleType
  PROVE  /\ DefaultTag(rule) \in [words : Seq(Strings), n : Int]
         /\ FilledTypes(rule) \in Seq(Int)
<1>1. rule.columns \in Seq(Strings) /\ rule.types \in Seq(Int) /\ rule.rows \in Seq(Seq(ValueType))
  BY DEF RuleType
<1>2. Len(rule.rows) \in Nat
  BY <1>1, LenProperties
<1>3. DefaultTag(rule) \in [words : Seq(Strings), n : Int]
  <2>1. \A w \in Strings : <<w>> \in Seq(Strings)
    OBVIOUS
  <2>2. \A w \in Strings, n \in Int : Tag(<<w>>, n) \in [words : Seq(Strings), n : Int]
    BY <2>1 DEF Tag
  <2>3. "SELECT" \in Strings /\ "OK" \in Strings
    BY StringsAssumption
  <2>4. NoCount \in Int
    BY DEF NoCount
  <2>5. Tag(<<"SELECT">>, Len(rule.rows)) \in [words : Seq(Strings), n : Int]
    <3>1. Len(rule.rows) \in Int
      BY <1>2
    <3> QED
      BY <2>2, <2>3, <3>1, Zenon
  <2>6. Tag(<<"OK">>, NoCount) \in [words : Seq(Strings), n : Int]
    BY <2>2, <2>3, <2>4
  <2> QED
    BY <2>5, <2>6, Zenon DEF DefaultTag
<1>4. \A i : OidAt(rule, i) \in Int
  BY <1>1, LenProperties DEF OidAt, OIDText
<1>5. [i \in DOMAIN rule.columns |-> OidAt(rule, i)] \in Seq(Int)
  <2>1. [i \in DOMAIN rule.columns |-> OidAt(rule, i)] \in [DOMAIN rule.columns -> Int]
    BY <1>4
  <2> QED
    BY <1>1, <2>1, EachOf
<1> QED
  BY <1>1, <1>3, <1>5 DEF FilledTypes

(* LoadRulesFile and handleAddRule make a rule of what they read.          *)
LEMMA DefaultsType ==
  ASSUME NEW rule \in RuleType, NEW id \in [name : Strings, n : Nat]
  PROVE  WithDefaults(rule, id) \in RuleType
<1> DEFINE i == IF rule.id = NoId THEN id ELSE rule.id
           g == IF rule.tag = NoTag THEN DefaultTag(rule) ELSE rule.tag
           ts == FilledTypes(rule)
<1>1. i \in [name : Strings, n : Nat] /\ g \in [words : Seq(Strings), n : Int] /\ ts \in Seq(Int)
  BY DefaultTypes DEF RuleType
<1>2. WithDefaults(rule, id) = [rule EXCEPT !.id = i, !.tag = g, !.types = ts]
  BY DEF WithDefaults, RuleType
<1>3. [rule EXCEPT !.id = i, !.tag = g, !.types = ts] \in RuleType
  <2> HIDE DEF i, g, ts
  <2> QED
    BY <1>1 DEF RuleType
<1> QED
  BY <1>2, <1>3

(* The rules at the start (main.go:32-52).                                 *)
LEMMA LoadedType ==
  ASSUME NEW list \in Seq(RuleType)
  PROVE  LoadRulesFile(list) \in Seq(RuleType) /\ ConvertTapeToRules(list) \in Seq(RuleType)
<1>1. DOMAIN list \subseteq Nat /\ \A i \in DOMAIN list : list[i] \in RuleType
  BY LenProperties
<1>2. \A i \in DOMAIN list : Id("rule", i) \in [name : Strings, n : Nat] /\ Id("tape", i) \in [name : Strings, n : Nat]
  <2>1. \A name \in Strings, n \in Nat : Id(name, n) \in [name : Strings, n : Nat]
    BY DEF Id
  <2> QED
    BY <1>1, <2>1, StringsAssumption
<1>3. LoadRulesFile(list) \in Seq(RuleType)
  <2>1. LoadRulesFile(list) \in [DOMAIN list -> RuleType]
    BY <1>1, <1>2, DefaultsType DEF LoadRulesFile
  <2> QED
    BY <2>1, EachOf
<1>4. ConvertTapeToRules(list) \in Seq(RuleType)
  <2>1. ASSUME NEW r \in RuleType, NEW id \in [name : Strings, n : Nat]
        PROVE  [r EXCEPT !.id = id, !.pattern = NoPattern, !.params = <<>>, !.error = ""] \in RuleType
    <3>1. <<>> \in ParamsType
      BY EmptySeq DEF ParamsType
    <3>2. "" \in Strings
      BY StringsAssumption
    <3> QED
      BY <3>1, <3>2 DEF RuleType
  <2>2. ConvertTapeToRules(list) \in [DOMAIN list -> RuleType]
    BY <1>1, <1>2, <2>1 DEF ConvertTapeToRules
  <2> QED
    BY <2>2, EachOf
<1> QED
  BY <1>3, <1>4

-----------------------------------------------------------------------------
(* The answers: those that are not a rule's name no parameters.            *)

Plain(rule) == rule.params = <<>> /\ DOMAIN rule = DOMAIN Rule

(* The rules that built-in answers are made of (engine.go:204-316).        *)
LEMMA RowsPlain ==
  ASSUME NEW name, NEW types, NEW n, NEW tag, NEW words, NEW q
  PROVE  /\ Plain(Rows(name, types, n, tag))
         /\ Plain(Select(name, types, n))
         /\ Plain(Command(name, words))
<1>1. \A m, t, k, g : Plain(Rows(m, t, k, g))
  BY DEF Plain, Rows, Rule
<1> QED
  BY <1>1, Zenon DEF Select, Command

(* A copy of such a rule, for the query it answers, is one too.            *)
LEMMA CopyPlain ==
  ASSUME NEW rule, Plain(rule), NEW q
  PROVE  /\ Plain([rule EXCEPT !.query = q])
         /\ [rule EXCEPT !.query = q].columns = rule.columns /\ [rule EXCEPT !.query = q].types = rule.types
         /\ [rule EXCEPT !.query = q].rows = rule.rows /\ [rule EXCEPT !.query = q].tag = rule.tag
BY DEF Plain, Rule

(* A built-in answer (matchDefaultSystemQuery, engine.go:204-316).         *)
LEMMA BuiltinPlain ==
  ASSUME NEW q, BuiltinHits(q) # {}
  PROVE  Plain(BuiltinRule(q))
<1>1. DOMAIN Builtins = 1 .. 8
  BY DEF Builtins
<1>2. BuiltinHits(q) \subseteq DOMAIN Builtins
  BY DEF BuiltinHits, Applicable
<1>3. First(BuiltinHits(q)) \in DOMAIN Builtins
  <2>1. BuiltinHits(q) \subseteq Nat
    BY <1>1, <1>2
  <2> QED
    BY <1>2, <2>1, FirstOne
<1>4. \A i \in 1 .. 8 : Plain(Builtins[i].rule)
  <2>1. \A texts, rule : Is(texts, rule).rule = rule /\ Starts(texts, rule).rule = rule
    BY DEF Is, Starts
  <2>2. /\ \A name, types, n, tag : Plain(Rows(name, types, n, tag))
        /\ \A name, types, n : Plain(Select(name, types, n))
        /\ \A name, words : Plain(Command(name, words))
    BY RowsPlain, Zenon
  <2> QED
    BY <2>1, <2>2 DEF Builtins
<1> QED
  BY <1>1, <1>3, <1>4, CopyPlain, Zenon DEF BuiltinRule

(* An answer of the catalog (MatchCatalogQuery, catalog.go).               *)
LEMMA CatalogPlain ==
  ASSUME NEW q, CatalogHits(q) # {}
  PROVE  Plain(CatalogRule(q))
<1>1. DOMAIN Catalog = 1 .. 14
  BY DEF Catalog
<1>2. CatalogHits(q) \subseteq DOMAIN Catalog
  BY DEF CatalogHits, Applicable
<1>3. First(CatalogHits(q)) \in DOMAIN Catalog
  <2>1. CatalogHits(q) \subseteq Nat
    BY <1>1, <1>2
  <2> QED
    BY <1>2, <2>1, FirstOne
<1>4. \A i \in 1 .. 14 : Plain(Catalog[i].rule)
  <2>1. \A texts, name, catalog, rule : Mentions(texts, rule).rule = rule /\ From(name, catalog, rule).rule = rule
    BY DEF Mentions, From
  <2>2. \A name, types, n : Plain(Select(name, types, n))
    BY RowsPlain, Zenon
  <2>3. Plain(PGTypeCatalogRule)
    BY <2>2, Zenon DEF PGTypeCatalogRule
  <2> QED
    BY <2>1, <2>2, <2>3 DEF Catalog
<1> QED
  BY <1>1, <1>3, <1>4, CopyPlain, Zenon DEF CatalogRule

(* The store's answer to a statement (MatchAndExecute, state_store.go).    *)
LEMMA StorePlain ==
  ASSUME NEW q, NEW params, q.words \in DOMAIN StatementOf
  PROVE  Plain(StoreRule(Statement(q, params)))
<1> DEFINE st == Statement(q, params)
<1>1. st.op \in StoreOps
  BY StatementsAssumption DEF Statement
<1>2. \A name, words, n : Plain(Done(name, words, n))
  BY DEF Plain, Done, Rule
<1>3. \A rule, cols, rows : Plain(rule) => Plain(Shows(rule, cols, rows))
  BY DEF Plain, Shows
<1>4. Plain(Missing) /\ \A n : Plain(CountsRows(n))
  <2>1. Plain(Missing)
    BY DEF Plain, Missing, Rule
  <2>2. \A n : Plain(CountsRows(n))
    BY <1>2 DEF Plain, CountsRows
  <2> QED
    BY <2>1, <2>2
<1>5. Plain(InsertRule(st)) /\ Plain(SelectRule(st))
  <2> HIDE DEF st
  <2> QED
    BY <1>2, <1>3, <1>4, Zenon DEF InsertRule, SelectRule
<1>6. StoreRule(st) \in {Missing, InsertRule(st), SelectRule(st)} \/ \E name, words, n : StoreRule(st) = Done(name, words, n)
  <2> HIDE DEF st
  <2> QED
    BY <1>1, SMTT(30) DEF StoreRule, StoreOps
<1>7. Plain(StoreRule(st))
  <2> HIDE DEF st
  <2>1. CASE StoreRule(st) \in {Missing, InsertRule(st), SelectRule(st)}
    BY <1>4, <1>5, <2>1
  <2>2. CASE \E name, words, n : StoreRule(st) = Done(name, words, n)
    BY <1>2, <2>2, Zenon
  <2> QED
    BY <1>6, <2>1, <2>2
<1> QED
  BY <1>7

(* The fallback (engine.go:188-202).                                       *)
LEMMA DefaultPlain ==
  ASSUME NEW q
  PROVE  Plain(DefaultRule(q))
BY RowsPlain DEF Plain, DefaultRule

(* Whatever answers, its parameters fit those of the call.                 *)
LEMMA AnswerFits ==
  ASSUME NEW q, NEW params, rules \in Seq(RuleType)
  PROVE  /\ Answer(q, params).params \in ParamsType
         /\ ParamsFit(Answer(q, params).params, params)
<1>1. CASE RuleHits(q, params) # {}
  <2>1. RuleHits(q, params) \subseteq DOMAIN rules /\ DOMAIN rules \subseteq Nat
    BY LenProperties DEF RuleHits
  <2>2. First(RuleHits(q, params)) \in RuleHits(q, params)
    BY <1>1, <2>1, FirstOne
  <2>3. Answer(q, params) = rules[First(RuleHits(q, params))]
    BY <1>1 DEF Answer, Source
  <2>4. PICK i \in DOMAIN rules : Answer(q, params) = rules[i] /\ Matches(rules[i], q, params)
    BY <2>2, <2>3, Zenon DEF RuleHits
  <2>5. rules[i] \in RuleType
    BY LenProperties
  <2>6. rules[i].params \in ParamsType
    BY <2>5 DEF RuleType
  <2> QED
    BY <2>4, <2>6, Zenon DEF Matches
<1>2. CASE RuleHits(q, params) = {}
  <2>1. Plain(Answer(q, params))
    BY <1>2, BuiltinPlain, CatalogPlain, StorePlain, CopyPlain, DefaultPlain DEF Answer, Source, StoreAnswer
  <2>2. <<>> \in ParamsType
    BY EmptySeq DEF ParamsType
  <2> QED
    BY <2>1, <2>2 DEF Plain, ParamsFit
<1> QED
  BY <1>1, <1>2

-----------------------------------------------------------------------------
(* The log: an entry for each call, and an answer that fits it.            *)

IsSequence(s) == \E S : s \in Seq(S)

(* What an entry of the log and the call behind it have in common.         *)
Faithful(entry, call) ==
  /\ call.query \in TextType /\ call.params \in ParamsType /\ call.rule.params \in ParamsType
  /\ ParamsFit(call.rule.params, call.params)
  /\ entry.query = call.query /\ entry.params = Logged(call.params)

Started == world \in World /\ portal \in PortalType /\ ops \in Nat
Typed   == rules \in Seq(RuleType)
Logging == /\ IsSequence(logs) /\ IsSequence(heard) /\ Len(logs) = Len(heard)
           /\ \A i \in DOMAIN heard : Faithful(logs[i], heard[i])

(* The inductive invariant.                                                *)
IInv == Started /\ Typed /\ Logging

(* A longer sequence, whatever it is of.                                   *)
LEMMA Longer ==
  ASSUME NEW s, IsSequence(s), NEW e
  PROVE  /\ IsSequence(Append(s, e)) /\ DOMAIN Append(s, e) = DOMAIN s \cup {Len(s) + 1}
         /\ Len(s) \in Nat /\ DOMAIN s = 1 .. Len(s)
         /\ Len(Append(s, e)) = Len(s) + 1
         /\ \A i \in DOMAIN s : Append(s, e)[i] = s[i]
         /\ Append(s, e)[Len(s) + 1] = e
<1>1. PICK S : s \in Seq(S)
  BY DEF IsSequence
<1> DEFINE All == S \cup {e}
<1>2. s \in Seq(All)
  <2>1. s \in [1 .. Len(s) -> S] /\ Len(s) \in Nat
    BY <1>1, LenProperties
  <2>2. s \in [1 .. Len(s) -> All]
    BY <2>1
  <2> HIDE DEF All
  <2> QED
    BY <2>1, <2>2, SeqDef
<1>3. e \in All
  OBVIOUS
<1> HIDE DEF All
<1>4. /\ Append(s, e) \in Seq(All) /\ Len(Append(s, e)) = Len(s) + 1
      /\ \A i \in 1 .. Len(s) : Append(s, e)[i] = s[i]
      /\ Append(s, e)[Len(s) + 1] = e
  BY <1>2, <1>3, AppendProperties
<1>5. Len(s) \in Nat /\ DOMAIN s = 1 .. Len(s) /\ DOMAIN Append(s, e) = 1 .. Len(Append(s, e))
  BY <1>2, <1>4, LenProperties
<1>6. IsSequence(Append(s, e))
  BY <1>4 DEF IsSequence
<1> QED
  BY <1>4, <1>5, <1>6

(* The log at the start and after a reset.                                 *)
LEMMA EmptyLog == IsSequence(<<>>) /\ Len(<<>>) = 0 /\ DOMAIN <<>> = {}
<1>1. <<>> \in Seq({}) /\ Len(<<>>) = 0 /\ DOMAIN <<>> = {}
  BY EmptySeq, LenProperties
<1> QED
  BY <1>1 DEF IsSequence

(* Match logs the call (engine.go:155-202).                                *)
LEMMA MatchLogs ==
  ASSUME IInv, NEW q \in TextType, NEW params \in ParamsType, Match(q, params)
  PROVE  Typed' /\ Logging'
<1> DEFINE entry == [query |-> q, params |-> Logged(params), rule |-> LoggedId(q, params)]
           call  == [query |-> q, params |-> params, rule |-> Answer(q, params)]
<1>1. logs' = Append(logs, entry) /\ heard' = Append(heard, call) /\ rules' = rules
  BY DEF Match
<1>2. Faithful(entry, call)
  BY AnswerFits DEF IInv, Typed, Faithful
<1> HIDE DEF entry, call
<1>3. IsSequence(logs) /\ IsSequence(heard) /\ Len(logs) = Len(heard)
  BY DEF IInv, Logging
<1>4. /\ IsSequence(logs') /\ IsSequence(heard') /\ Len(logs') = Len(heard')
      /\ DOMAIN heard' = DOMAIN heard \cup {Len(heard) + 1} /\ DOMAIN heard = DOMAIN logs
      /\ \A i \in DOMAIN heard : logs'[i] = logs[i] /\ heard'[i] = heard[i]
      /\ logs'[Len(heard) + 1] = entry /\ heard'[Len(heard) + 1] = call
  <2>1. DOMAIN heard = DOMAIN logs
    BY <1>3, Longer
  <2> QED
    BY <1>1, <1>3, <2>1, Longer
<1>5. \A i \in DOMAIN heard' : Faithful(logs'[i], heard'[i])
  BY <1>2, <1>4, Zenon DEF IInv, Logging
<1>6. Logging'
  BY <1>4, <1>5 DEF Logging
<1> QED
  BY <1>1, <1>6 DEF IInv, Typed

(* A session has texts and parameters of a text's and of their type.       *)
LEMMA PortalTyped ==
  /\ NoPortal \in PortalType
  /\ \A p \in PortalType : p.text \in TextType /\ p.params \in ParamsType
  /\ <<>> \in ParamsType
<1>1. /\ <<>> \in Seq(Strings) /\ <<>> \in Seq({0, 1}) /\ <<>> \in ParamsType
  BY EmptySeq DEF ParamsType
<1>2. Text(<<>>) \in TextType
  BY <1>1 DEF Text, TextType
<1> QED
  BY <1>1, <1>2 DEF NoPortal, Portal, PortalType

(* The invariant of the log and of the rules' types holds before the first *)
(* call.                                                                   *)
LEMMA InitIInv == Init => IInv
<1> SUFFICES ASSUME Init
             PROVE  IInv
  OBVIOUS
<1>1. world \in World
  BY WorldsAssumption DEF Init
<1>2. Started
  BY <1>1, PortalTyped DEF Init, Started
<1>3. Typed
  BY <1>1, LoadedType DEF Init, Typed, World
<1>4. Logging
  BY EmptyLog DEF Init, Logging
<1> QED
  BY <1>2, <1>3, <1>4 DEF IInv

(* Each step keeps it: a call by MatchLogs, a posted rule because it is    *)
(* given what it lacks, the rest because they leave what it is about.      *)
LEMMA NextIInv == IInv /\ [Next]_vars => IInv'
<1> SUFFICES ASSUME IInv, [Next]_vars
             PROVE  IInv'
  OBVIOUS
<1>1. /\ world.texts \subseteq TextType /\ world.portals \subseteq PortalType /\ world.posts \subseteq RuleType
      /\ portal.text \in TextType /\ portal.params \in ParamsType /\ <<>> \in ParamsType
      /\ rules \in Seq(RuleType) /\ ops \in Nat
  BY PortalTyped DEF IInv, Started, Typed, World
<1>2. ASSUME UNCHANGED <<logs, heard>>, world' = world, rules' \in Seq(RuleType), portal' \in PortalType, ops' \in Nat
      PROVE  IInv'
  BY <1>2 DEF IInv, Started, Typed, Logging
<1>3. ASSUME NEW q \in TextType, NEW params \in ParamsType, NEW formats, Run(q, params, formats)
      PROVE  IInv'
  <2>1. Match(q, params) /\ UNCHANGED <<world, portal, ops>>
    BY <1>3 DEF Run, Match
  <2> QED
    BY <2>1, MatchLogs DEF IInv, Started
<1>4. ASSUME NEW q \in world.texts, SimpleQuery(q)
      PROVE  IInv'
  <2>1. CASE UNCHANGED <<world, rules, portal, logs, heard, ops>>
    BY <1>1, <1>2, <2>1 DEF IInv, Started
  <2>2. CASE Run(q, <<>>, <<>>)
    BY <1>1, <1>3, <2>2
  <2> QED
    BY <1>4, <2>1, <2>2 DEF SimpleQuery
<1>5. ASSUME NEW p \in world.portals, Bind(p)
      PROVE  IInv'
  <2>1. UNCHANGED <<world, rules, logs, heard>> /\ portal' = p /\ ops' = ops + 1
    BY <1>5 DEF Bind
  <2> QED
    BY <1>1, <1>2, <2>1
<1>6. ASSUME NEW target, Describe(target)
      PROVE  IInv'
  <2>1. UNCHANGED portal
    BY <1>6 DEF Describe
  <2>2. CASE UNCHANGED <<world, rules, logs, heard, ops>>
    BY <1>1, <1>2, <2>1, <2>2 DEF IInv, Started
  <2>3. CASE Match(portal.text, <<>>)
    <3>1. UNCHANGED <<world, ops>>
      BY <2>3 DEF Match
    <3> QED
      BY <1>1, <2>1, <2>3, <3>1, MatchLogs DEF IInv, Started
  <2> QED
    BY <1>6, <2>2, <2>3 DEF Describe
<1>7. CASE Execute
  BY <1>1, <1>3, <1>7 DEF Execute
<1>8. ASSUME NEW rule \in world.posts, PostRule(rule)
      PROVE  IInv'
  <2>1. /\ UNCHANGED <<world, portal, logs, heard>> /\ ops' = ops + 1
        /\ rules' = <<Dynamic(rule, ops)>> \o rules
    BY <1>8 DEF PostRule, Operation
  <2>2. Dynamic(rule, ops) \in RuleType
    <3>1. Id("rule-dyn", ops) \in [name : Strings, n : Nat]
      BY <1>1, StringsAssumption DEF Id
    <3> QED
      BY <1>1, <3>1, DefaultsType DEF Dynamic
  <2>3. rules' \in Seq(RuleType)
    BY <1>1, <2>1, <2>2, ConcatProperties
  <2> QED
    BY <1>2, <2>1, <2>3 DEF IInv, Started
<1>9. ASSUME NEW id, DeleteRule(id)
      PROVE  IInv'
  <2>1. UNCHANGED <<world, portal, logs, heard>> /\ ops' = ops + 1
    BY <1>9 DEF DeleteRule, Operation
  <2>2. PICK i \in DOMAIN rules : rules' = RemoveAt(rules, i)
    BY <1>9 DEF DeleteRule
  <2>3. rules' \in Seq(RuleType)
    <3>1. i \in 1 .. Len(rules) /\ Len(rules) \in Nat
      BY <1>1, LenProperties
    <3>2. SubSeq(rules, 1, i - 1) \in Seq(RuleType) /\ SubSeq(rules, i + 1, Len(rules)) \in Seq(RuleType)
      BY <1>1, <3>1, SubSeqProperties
    <3> QED
      BY <2>2, <3>2, ConcatProperties DEF RemoveAt
  <2> QED
    BY <1>2, <2>1, <2>3 DEF IInv, Started
<1>10. CASE Reset
  <2>1. UNCHANGED <<world, portal, rules>> /\ logs' = <<>> /\ heard' = <<>> /\ ops' = ops + 1
    BY <1>10 DEF Reset, Operation
  <2>2. Logging'
    BY <2>1, EmptyLog DEF Logging
  <2> QED
    BY <1>1, <2>1, <2>2 DEF IInv, Started, Typed
<1>11. CASE UNCHANGED vars
  BY <1>1, <1>2, <1>11 DEF vars, IInv, Started
<1>12. CASE Rest
  BY <1>11, <1>12 DEF Rest
<1> QED
  BY <1>4, <1>5, <1>6, <1>7, <1>8, <1>9, <1>10, <1>11, <1>12 DEF Next

-----------------------------------------------------------------------------
(* Where the rules come from: each is answered with what its author wrote. *)

(* Two rules that are answered with the same.                              *)
SameAnswer(a, b) ==
  /\ a.columns = b.columns /\ a.rows = b.rows /\ a.error = b.error /\ SentTag(a) = SentTag(b)
  /\ \A i \in DOMAIN b.columns : OidAt(a, i) = OidAt(b, i)

Authors == ToSet(world.rules) \cup world.posts

Origin ==
  /\ written \in Seq(RuleType) /\ Len(written) = Len(rules)
  /\ \A i \in DOMAIN rules :
       rules[i].id # NoId /\ written[i] \in Authors /\ SameAnswer(rules[i], written[i])

(* Such rules have the same reply (executeRuleResponse, conn_handler.go).  *)
LEMMA SameReply ==
  ASSUME NEW a, NEW b, SameAnswer(a, b), NEW params, NEW formats, NEW drawn
  PROVE  Reply(a, params, formats, drawn) = Reply(b, params, formats, drawn)
<1>1. a.columns = b.columns /\ a.rows = b.rows /\ a.error = b.error /\ SentTag(a) = SentTag(b)
  BY DEF SameAnswer
<1>2. SentFields(a, formats) = SentFields(b, formats)
  <2>1. \A i \in DOMAIN b.columns : Field(a, i, FormatAt(formats, i)) = Field(b, i, FormatAt(formats, i))
    BY <1>1, Zenon DEF SameAnswer, Field
  <2> QED
    BY <1>1, <2>1, Zenon DEF SentFields
<1>3. Texts(a, params, drawn) = Texts(b, params, drawn)
  <2>1. SequenceCells(a) = SequenceCells(b)
    BY <1>1, Zenon DEF SequenceCells
  <2>2. \A i, j : RenderTemplate(a, i, j, params, drawn) = RenderTemplate(b, i, j, params, drawn)
    BY <1>1, <2>1, Zenon DEF RenderTemplate
  <2> QED
    BY <1>1, <2>2, Zenon DEF Texts
<1> QED
  BY <1>1, <1>2, <1>3, Zenon DEF Reply

(* Defaults change nothing of the reply (rules.go:77-101, api.go:158-178). *)
LEMMA DefaultsAnswer ==
  ASSUME NEW rule \in RuleType, NEW id \in [name : Strings, n : Nat], id # NoId
  PROVE  WithDefaults(rule, id).id # NoId /\ SameAnswer(WithDefaults(rule, id), rule)
<1> DEFINE i == IF rule.id = NoId THEN id ELSE rule.id
           g == IF rule.tag = NoTag THEN DefaultTag(rule) ELSE rule.tag
           ts == FilledTypes(rule)
<1>1. WithDefaults(rule, id) = [rule EXCEPT !.id = i, !.tag = g, !.types = ts] /\ i # NoId
  BY DEF WithDefaults, RuleType
<1> SUFFICES ASSUME NEW new, new = WithDefaults(rule, id)
             PROVE  new.id # NoId /\ SameAnswer(new, rule)
  OBVIOUS
<1>2. /\ new.columns = rule.columns /\ new.rows = rule.rows /\ new.error = rule.error
      /\ new.id = i /\ new.tag = g /\ new.types = ts
  <2> HIDE DEF i, g, ts
  <2> QED
    BY <1>1 DEF RuleType
<1>3. SentTag(new) = SentTag(rule)
  <2>1. DefaultTag(new) = DefaultTag(rule)
    BY <1>2, Zenon DEF DefaultTag
  <2> QED
    BY <1>2, <2>1, Zenon DEF SentTag
<1>4. ASSUME NEW k \in DOMAIN rule.columns
      PROVE  OidAt(new, k) = OidAt(rule, k)
  <2>1. CASE Len(rule.types) < Len(rule.columns)
    <3>1. new.types = [n \in DOMAIN rule.columns |-> OidAt(rule, n)]
      BY <1>2, <2>1, Zenon DEF FilledTypes
    <3>2. OidAt(rule, k) # 0
      BY DEF OidAt, OIDText
    <3> HIDE DEF ts
    <3> QED
      BY <3>1, <3>2, Zenon DEF OidAt
  <2>2. CASE ~(Len(rule.types) < Len(rule.columns))
    <3>1. new.types = rule.types
      BY <1>2, <2>2, Zenon DEF FilledTypes
    <3> QED
      BY <3>1, Zenon DEF OidAt
  <2> QED
    BY <2>1, <2>2
<1> HIDE DEF i, g, ts
<1> QED
  BY <1>1, <1>2, <1>3, <1>4 DEF SameAnswer

(* A tape has no errors.                                                   *)
NoErrors(list) == \A i \in DOMAIN list : list[i].error = ""

(* The rules at the start (main.go:32-52).                                 *)
LEMMA LoadedAnswer ==
  ASSUME NEW list \in Seq(RuleType), NEW new \in {LoadRulesFile(list), ConvertTapeToRules(list)},
         new = LoadRulesFile(list) \/ NoErrors(list)
  PROVE  /\ DOMAIN new = DOMAIN list /\ Len(new) = Len(list)
         /\ \A i \in DOMAIN new : new[i].id # NoId /\ SameAnswer(new[i], list[i])
<1>1. DOMAIN list = 1 .. Len(list) /\ Len(list) \in Nat /\ \A i \in DOMAIN list : list[i] \in RuleType
  BY LenProperties
<1>2. DOMAIN new = DOMAIN list
  BY DEF LoadRulesFile, ConvertTapeToRules
<1>3. Len(new) = Len(list)
  <2>1. new \in Seq(RuleType)
    BY LoadedType
  <2>2. DOMAIN new = 1 .. Len(new) /\ Len(new) \in Nat
    BY <2>1, LenProperties
  <2> QED
    BY <1>1, <1>2, <2>2
<1>4. ASSUME NEW i \in DOMAIN list
      PROVE  /\ Id("rule", i) # NoId /\ Id("tape", i) # NoId
             /\ Id("rule", i) \in [name : Strings, n : Nat]
  <2>1. \A name \in Strings, n \in Nat : Id(name, n) \in [name : Strings, n : Nat]
    BY DEF Id
  <2>2. i \in Nat
    BY <1>1
  <2>3. NoId.name = "" /\ Id("rule", i).name = "rule" /\ Id("tape", i).name = "tape"
    BY DEF Id, NoId
  <2>4. Id("rule", i) # NoId /\ Id("tape", i) # NoId
    BY <2>3
  <2>5. "rule" \in Strings
    BY StringsAssumption
  <2> QED
    BY <2>1, <2>2, <2>4, <2>5
<1>5. ASSUME NEW i \in DOMAIN list
      PROVE  new[i].id # NoId /\ SameAnswer(new[i], list[i])
  <2>1. CASE new = LoadRulesFile(list)
    <3>1. new[i] = WithDefaults(list[i], Id("rule", i))
      BY <2>1, Zenon DEF LoadRulesFile
    <3> QED
      BY <1>1, <1>4, <3>1, DefaultsAnswer
  <2>2. CASE new = ConvertTapeToRules(list) /\ NoErrors(list)
    <3>1. PICK r \in RuleType : r = list[i] /\ r.error = ""
      BY <1>1, <2>2 DEF NoErrors
    <3>2. new[i] = [r EXCEPT !.id = Id("tape", i), !.pattern = NoPattern, !.params = <<>>, !.error = ""]
      BY <2>2, <3>1, Zenon DEF ConvertTapeToRules
    <3>3. PICK id : id = Id("tape", i) /\ id # NoId
      BY <1>4
    <3>4. /\ new[i].id = id /\ new[i].columns = r.columns /\ new[i].rows = r.rows /\ new[i].error = r.error
          /\ new[i].tag = r.tag /\ new[i].types = r.types
      BY <3>1, <3>2, <3>3 DEF RuleType
    <3>5. SentTag(new[i]) = SentTag(r) /\ \A k : OidAt(new[i], k) = OidAt(r, k)
      BY <3>4, Zenon DEF SentTag, DefaultTag, OidAt
    <3> QED
      BY <3>1, <3>3, <3>4, <3>5, Zenon DEF SameAnswer
  <2> QED
    BY <2>1, <2>2
<1> QED
  BY <1>2, <1>3, <1>5

(* What a list has without its k-th member.                                *)
LEMMA RemovedOne ==
  ASSUME NEW R, NEW s \in Seq(R), NEW k \in 1 .. Len(s)
  PROVE  /\ RemoveAt(s, k) \in Seq(R) /\ Len(RemoveAt(s, k)) = Len(s) - 1
         /\ DOMAIN RemoveAt(s, k) = 1 .. Len(s) - 1
         /\ \A i \in 1 .. Len(s) - 1 : RemoveAt(s, k)[i] = s[IF i < k THEN i ELSE i + 1]
<1>1. PICK n, a, b : n = Len(s) /\ a = SubSeq(s, 1, k - 1) /\ b = SubSeq(s, k + 1, Len(s))
  OBVIOUS
<1>2. n \in Nat /\ k \in 1 .. n /\ k \in Nat
  BY <1>1, LenProperties
<1>3. /\ a \in Seq(R) /\ Len(a) = k - 1 /\ \A i \in 1 .. k - 1 : a[i] = s[i]
  BY <1>1, <1>2, SubSeqProperties
<1>4. /\ b \in Seq(R) /\ Len(b) = n - k
      /\ \A i \in 1 .. n - k : b[i] = s[k + i]
  BY <1>1, <1>2, SubSeqProperties
<1>5. RemoveAt(s, k) = a \o b
  BY <1>1 DEF RemoveAt
<1>6. /\ a \o b \in Seq(R) /\ Len(a \o b) = n - 1
      /\ \A i \in 1 .. n - 1 : (a \o b)[i] = IF i < k THEN a[i] ELSE b[i - k + 1]
  <2>1. /\ a \o b \in Seq(R) /\ Len(a \o b) = Len(a) + Len(b)
        /\ \A i \in 1 .. Len(a) + Len(b) : (a \o b)[i] = IF i <= Len(a) THEN a[i] ELSE b[i - Len(a)]
    BY <1>3, <1>4, ConcatProperties
  <2>2. \A i \in 1 .. n - 1 : (i <= k - 1 <=> i < k) /\ i - (k - 1) = i - k + 1
    BY <1>2
  <2> QED
    BY <1>2, <1>3, <1>4, <2>1, <2>2
<1>7. DOMAIN (a \o b) = 1 .. n - 1
  BY <1>6, LenProperties
<1>8. ASSUME NEW i \in 1 .. n - 1
      PROVE  (a \o b)[i] = s[IF i < k THEN i ELSE i + 1]
  <2>1. CASE i < k
    BY <1>2, <1>3, <1>6, <2>1
  <2>2. CASE ~(i < k)
    <3>1. i - k + 1 \in 1 .. n - k /\ k + (i - k + 1) = i + 1
      BY <1>2, <2>2
    <3> QED
      BY <1>4, <1>6, <2>2, <3>1
  <2> QED
    BY <2>1, <2>2
<1> QED
  BY <1>1, <1>5, <1>6, <1>7, <1>8

(* At the start the rules are those of the file or the tape, with the      *)
(* defaults filled in (rules.go:77-101, recorder.go:117-132).              *)
LEMMA InitOrigin == Init => Origin
<1> SUFFICES ASSUME Init
             PROVE  Origin
  OBVIOUS
<1>1. /\ world \in World /\ world.rules \in Seq(RuleType) /\ written = world.rules
      /\ rules \in {LoadRulesFile(written), ConvertTapeToRules(written)}
      /\ rules = LoadRulesFile(written) \/ NoErrors(written)
  BY WorldsAssumption DEF Init, World, NoErrors
<1>2. /\ DOMAIN rules = DOMAIN written /\ Len(rules) = Len(written)
      /\ \A i \in DOMAIN rules : rules[i].id # NoId /\ SameAnswer(rules[i], written[i])
  BY <1>1, LoadedAnswer
<1>3. \A i \in DOMAIN written : written[i] \in ToSet(world.rules)
  BY <1>1 DEF ToSet
<1> QED
  BY <1>1, <1>2, <1>3, Zenon DEF Origin, Authors

(* A posted rule comes first with its defaults, a deleted one is gone in   *)
(* both lists (engine.go:67-85, api.go:151-198).                           *)
LEMMA NextOrigin == IInv /\ Origin /\ [Next]_vars => Origin'
<1> SUFFICES ASSUME IInv, Origin, [Next]_vars
             PROVE  Origin'
  OBVIOUS
<1>1. /\ world.posts \subseteq RuleType /\ rules \in Seq(RuleType) /\ written \in Seq(RuleType)
      /\ ops \in Nat /\ Len(written) = Len(rules)
      /\ Len(rules) \in Nat /\ DOMAIN rules = 1 .. Len(rules) /\ DOMAIN written = 1 .. Len(rules)
  BY LenProperties DEF IInv, Started, Typed, World, Origin
<1>2. CASE UNCHANGED <<world, rules, written>>
  BY <1>2 DEF Origin, Authors
<1>3. ASSUME NEW rule \in world.posts, PostRule(rule)
      PROVE  Origin'
  <2> DEFINE new == Dynamic(rule, ops)
  <2>1. /\ world' = world /\ rules' = <<new>> \o rules /\ written' = <<rule>> \o written
    BY <1>3 DEF PostRule, Operation
  <2>2. new \in RuleType /\ new.id # NoId /\ SameAnswer(new, rule)
    <3>1. Id("rule-dyn", ops) \in [name : Strings, n : Nat]
      BY <1>1, StringsAssumption DEF Id
    <3>2. Id("rule-dyn", ops) # NoId
      BY DEF Id, NoId
    <3> QED
      BY <1>1, <3>1, <3>2, DefaultsAnswer, DefaultsType DEF Dynamic
  <2> HIDE DEF new
  <2>3. rule \in RuleType /\ rule \in Authors
    BY <1>1 DEF Authors
  <2>4. /\ written' \in Seq(RuleType) /\ Len(written') = Len(rules) + 1 /\ Len(rules') = Len(rules) + 1
        /\ DOMAIN rules' = 1 .. Len(rules) + 1
        /\ rules'[1] = new /\ written'[1] = rule
        /\ \A i \in 2 .. Len(rules) + 1 : rules'[i] = rules[i - 1] /\ written'[i] = written[i - 1]
    BY <1>1, <2>1, <2>2, <2>3
  <2>5. Authors' = Authors
    BY <2>1 DEF Authors
  <2>6. ASSUME NEW i \in DOMAIN rules'
        PROVE  rules'[i].id # NoId /\ written'[i] \in Authors /\ SameAnswer(rules'[i], written'[i])
    <3>1. CASE i = 1
      BY <2>2, <2>3, <2>4, <3>1
    <3>2. CASE i # 1
      <4>1. i \in 2 .. Len(rules) + 1 /\ i - 1 \in DOMAIN rules
        BY <1>1, <2>4, <3>2
      <4> QED
        BY <2>4, <4>1, Zenon DEF Origin
    <3> QED
      BY <3>1, <3>2
  <2> QED
    BY <2>4, <2>5, <2>6 DEF Origin
<1>4. ASSUME NEW id, DeleteRule(id)
      PROVE  Origin'
  <2>1. PICK k \in DOMAIN rules : rules' = RemoveAt(rules, k) /\ written' = RemoveAt(written, k)
    BY <1>4 DEF DeleteRule
  <2>2. world' = world
    BY <1>4 DEF DeleteRule, Operation
  <2>3. k \in 1 .. Len(rules)
    BY <1>1
  <2>4. /\ written' \in Seq(RuleType) /\ Len(written') = Len(rules) - 1 /\ Len(rules') = Len(rules) - 1
        /\ DOMAIN rules' = 1 .. Len(rules) - 1
        /\ \A i \in 1 .. Len(rules) - 1 :
             \E j \in DOMAIN rules : rules'[i] = rules[j] /\ written'[i] = written[j]
    <3>1. ASSUME NEW s \in Seq(RuleType), Len(s) = Len(rules)
          PROVE  /\ RemoveAt(s, k) \in Seq(RuleType) /\ Len(RemoveAt(s, k)) = Len(rules) - 1
                 /\ DOMAIN RemoveAt(s, k) = 1 .. Len(rules) - 1
                 /\ \A i \in 1 .. Len(rules) - 1 : RemoveAt(s, k)[i] = s[IF i < k THEN i ELSE i + 1]
      <4>1. k \in 1 .. Len(s)
        BY <2>3, <3>1
      <4> QED
        BY <3>1, <4>1, RemovedOne
    <3>2. \A i \in 1 .. Len(rules) - 1 : (IF i < k THEN i ELSE i + 1) \in DOMAIN rules
      BY <1>1, <2>3
    <3>3. /\ \A i \in 1 .. Len(rules) - 1 : rules'[i] = rules[IF i < k THEN i ELSE i + 1]
          /\ \A i \in 1 .. Len(rules) - 1 : written'[i] = written[IF i < k THEN i ELSE i + 1]
      BY <1>1, <2>1, <3>1, Zenon
    <3> QED
      BY <1>1, <2>1, <3>1, <3>2, <3>3, Zenon
  <2>5. Authors' = Authors
    BY <2>2 DEF Authors
  <2> QED
    BY <2>4, <2>5, Zenon DEF Origin
<1>5. ASSUME NEW q, NEW params, Match(q, params)
      PROVE  UNCHANGED <<world, rules, written>>
  BY <1>5 DEF Match
<1>6. ASSUME NEW q, NEW params, NEW formats, Run(q, params, formats)
      PROVE  UNCHANGED <<world, rules, written>>
  BY <1>5, <1>6 DEF Run
<1>7. ASSUME NEW q, SimpleQuery(q)
      PROVE  UNCHANGED <<world, rules, written>>
  BY <1>6, <1>7 DEF SimpleQuery
<1>8. ASSUME NEW p, Bind(p)
      PROVE  UNCHANGED <<world, rules, written>>
  BY <1>8 DEF Bind
<1>9. ASSUME NEW target, Describe(target)
      PROVE  UNCHANGED <<world, rules, written>>
  BY <1>5, <1>9 DEF Describe
<1>10. CASE Execute
  BY <1>2, <1>6, <1>10 DEF Execute
<1>11. CASE Reset
  BY <1>2, <1>11 DEF Reset, Operation
<1>12. CASE UNCHANGED vars
  BY <1>2, <1>12 DEF vars
<1> QED
  BY <1>2, <1>3, <1>4, <1>7, <1>8, <1>9, <1>10, <1>11, <1>12 DEF Next, Rest

-----------------------------------------------------------------------------
(* What answers show: rows of values, and a tag that counts them.          *)

(* Rows of values.                                                         *)
Shown(rule)  == IsSequence(rule.columns) /\ rule.rows \in Seq(Seq(ValueType))

(* A tag that counts the rows, if there are any and it counts.             *)
Tagged(rule) == /\ rule.tag # NoTag
                /\ rule.columns # <<>> /\ rule.tag.n # NoCount => rule.tag.n = Len(rule.rows)

Good(rule) == Shown(rule) /\ Tagged(rule)

(* A tag with words is one.                                                *)
LEMMA TagSet ==
  ASSUME NEW words, NEW n, words # <<>>
  PROVE  Tag(words, n) # NoTag /\ Tag(words, n).n = n
BY DEF Tag, NoTag

(* Rules made of rows like these (engine.go:204-316, catalog.go).          *)
LEMMA RowsGood ==
  ASSUME NEW name, NEW types \in Seq(Int), NEW n \in Nat, NEW tag, tag # NoTag, tag.n \in {n, NoCount}
  PROVE  /\ Good(Rows(name, types, n, tag)) /\ Rows(name, types, n, tag).tag = tag
         /\ types = <<>> => Rows(name, types, n, tag).columns = <<>>
<1> SUFFICES ASSUME NEW r, r = Rows(name, types, n, tag)
             PROVE  Good(r) /\ r.tag = tag /\ (types = <<>> => r.columns = <<>>)
  OBVIOUS
<1>1. /\ r.columns = [j \in DOMAIN types |-> name] /\ r.rows = [i \in 1 .. n |-> Cells(types, i)] /\ r.tag = tag
  BY DEF Rows, Rule
<1>2. r.columns \in Seq({name}) /\ (types = <<>> => r.columns = <<>>)
  <2>1. [j \in DOMAIN types |-> name] \in [DOMAIN types -> {name}]
    OBVIOUS
  <2>2. r.columns \in Seq({name})
    BY <1>1, <2>1, EachOf
  <2>3. ASSUME types = <<>>
        PROVE  r.columns = <<>>
    <3>1. DOMAIN r.columns = {}
      BY <1>1, <2>3, EmptyLog
    <3>2. Len(r.columns) = 0
      <4>1. Len(r.columns) \in Nat /\ 1 .. Len(r.columns) = {}
        BY <2>2, <3>1, LenProperties
      <4>2. \A k \in Nat : k # 0 => 1 \in 1 .. k
        OBVIOUS
      <4> QED
        BY <4>1, <4>2, Zenon
    <3> QED
      BY <2>2, <3>2, EmptySeq
  <2> QED
    BY <2>2, <2>3
<1>3. \A i \in 1 .. n : Cells(types, i) \in Seq(ValueType)
  <2> SUFFICES ASSUME NEW i \in 1 .. n
               PROVE  Cells(types, i) \in Seq(ValueType)
    OBVIOUS
  <2>1. Value("bool", 0) \in ValueType /\ Value("int", i) \in ValueType /\ Value("word", i) \in ValueType
    <3>1. \A kind \in Strings, k \in Int : Value(kind, k) \in ValueType
      BY DEF Value, ValueType
    <3>2. "bool" \in Strings /\ "int" \in Strings /\ "word" \in Strings
      BY StringsAssumption
    <3>3. i \in Int
      OBVIOUS
    <3>4. 0 \in Int
      OBVIOUS
    <3> QED
      BY <3>1, <3>2, <3>3, <3>4, Zenon
  <2>2. Cells(types, i) \in [DOMAIN types -> ValueType]
    BY <2>1, Zenon DEF Cells
  <2> QED
    BY <2>2, EachOf
<1>4. r.rows \in Seq(Seq(ValueType)) /\ Len(r.rows) = n
  <2>1. r.rows \in [1 .. n -> Seq(ValueType)]
    BY <1>1, <1>3
  <2>2. r.rows \in Seq(Seq(ValueType))
    <3>1. \A S, s : s \in [1 .. n -> S] => s \in Seq(S)
      BY SeqDef
    <3> QED
      BY <2>1, <3>1, Zenon
  <2>3. DOMAIN r.rows = 1 .. n /\ DOMAIN r.rows = 1 .. Len(r.rows) /\ Len(r.rows) \in Nat
    BY <2>1, <2>2, LenProperties
  <2> QED
    BY <2>2, <2>3
<1>5. IsSequence(r.columns)
  BY <1>2 DEF IsSequence
<1> QED
  BY <1>1, <1>2, <1>4, <1>5 DEF Good, Shown, Tagged

(* A SELECT's rows, and a command without any.                             *)
LEMMA SelectGood ==
  ASSUME NEW name, NEW types \in Seq(Int), NEW n \in Nat
  PROVE  Good(Select(name, types, n))
<1>1. <<"SELECT">> # <<>>
  OBVIOUS
<1> QED
  BY <1>1, TagSet, RowsGood DEF Select

(* A canned command names its tag and has neither columns nor rows         *)
(* (engine.go:218-224).                                                    *)
LEMMA CommandGood ==
  ASSUME NEW name, NEW words, words # <<>>
  PROVE  Good(Command(name, words))
<1>1. <<>> \in Seq(Int) /\ 0 \in Nat
  BY EmptySeq
<1> QED
  BY <1>1, TagSet, RowsGood DEF Command

(* A copy for the query it answers shows the same.                         *)
LEMMA CopyGood ==
  ASSUME NEW rule, Good(rule), NEW q, "columns" \in DOMAIN rule
  PROVE  Good([rule EXCEPT !.query = q])
BY DEF Good, Shown, Tagged

(* A built-in answer (matchDefaultSystemQuery, engine.go:204-316).         *)
LEMMA BuiltinGood ==
  ASSUME NEW q, BuiltinHits(q) # {}
  PROVE  Good(BuiltinRule(q))
<1>1. DOMAIN Builtins = 1 .. 8
  BY DEF Builtins
<1>2. First(BuiltinHits(q)) \in 1 .. 8
  <2>1. BuiltinHits(q) \subseteq 1 .. 8
    BY <1>1 DEF BuiltinHits, Applicable
  <2>2. BuiltinHits(q) \subseteq Nat
    BY <2>1
  <2> QED
    BY <2>1, <2>2, FirstOne
<1>3. \A i \in 1 .. 8 : Good(Builtins[i].rule)
  <2>1. \A texts, rule : Is(texts, rule).rule = rule /\ Starts(texts, rule).rule = rule
    BY DEF Is, Starts
  <2>2. Good(Select("builtin-select-1", <<OIDInt4>>, 1))
    <3>1. <<OIDInt4>> \in Seq(Int) /\ 1 \in Nat
      BY DEF OIDInt4
    <3> QED
      BY <3>1, SelectGood
  <2>3. Good(Rows("builtin-show", <<OIDText>>, 1, Tag(<<"SHOW">>, NoCount)))
    <3>1. <<OIDText>> \in Seq(Int) /\ 1 \in Nat
      BY DEF OIDText
    <3>2. <<"SHOW">> # <<>>
      OBVIOUS
    <3> QED
      BY <3>1, <3>2, TagSet, RowsGood
  <2>4. /\ Good(Command("builtin-set", <<"SET">>)) /\ Good(Command("builtin-begin", <<"BEGIN">>))
        /\ Good(Command("builtin-commit", <<"COMMIT">>)) /\ Good(Command("builtin-rollback", <<"ROLLBACK">>))
        /\ Good(Command("builtin-discard", <<"DISCARD", "ALL">>))
        /\ Good(Command("builtin-unlisten", <<"UNLISTEN">>))
    <3>1. \A a, b : <<a>> # <<>> /\ <<a, b>> # <<>>
      OBVIOUS
    <3> QED
      BY <3>1, CommandGood, Zenon
  <2> QED
    BY <2>1, <2>2, <2>3, <2>4 DEF Builtins
<1>4. \A i \in 1 .. 8 : "columns" \in DOMAIN Builtins[i].rule
  <2>1. \A texts, rule : Is(texts, rule).rule = rule /\ Starts(texts, rule).rule = rule
    BY DEF Is, Starts
  <2>2. \A m, t, k, g : "columns" \in DOMAIN Rows(m, t, k, g)
    BY DEF Rows, Rule
  <2>3. /\ \A name, types, n : "columns" \in DOMAIN Select(name, types, n)
        /\ \A name, words : "columns" \in DOMAIN Command(name, words)
    BY <2>2, Zenon DEF Select, Command
  <2> QED
    BY <2>1, <2>2, <2>3 DEF Builtins
<1> QED
  BY <1>2, <1>3, <1>4, CopyGood, Zenon DEF BuiltinRule

(* A SELECT of some number of rows.                                        *)
OfNumbers(rule) == \E name : \E types \in Seq(Int), n \in Nat : rule = Select(name, types, n)

(* An answer of the catalog (MatchCatalogQuery, catalog.go).               *)
LEMMA CatalogGood ==
  ASSUME NEW q, CatalogHits(q) # {}
  PROVE  Good(CatalogRule(q))
<1>1. DOMAIN Catalog = 1 .. 14
  BY DEF Catalog
<1>2. First(CatalogHits(q)) \in 1 .. 14
  <2>1. CatalogHits(q) \subseteq 1 .. 14
    BY <1>1 DEF CatalogHits, Applicable
  <2>2. CatalogHits(q) \subseteq Nat
    BY <2>1
  <2> QED
    BY <2>1, <2>2, FirstOne
<1>3. \A texts, name, catalog, rule : Mentions(texts, rule).rule = rule /\ From(name, catalog, rule).rule = rule
  BY DEF Mentions, From
<1>4. \A i \in 1 .. 14 : \E name : \E types \in Seq(Int), n \in Nat : Catalog[i].rule = Select(name, types, n)
  <2>0. \A name : \A types \in Seq(Int), n \in Nat : OfNumbers(Select(name, types, n))
    BY Zenon DEF OfNumbers
  <2>1. /\ <<25>> \in Seq(Int) /\ <<16>> \in Seq(Int) /\ <<20>> \in Seq(Int)
        /\ <<26, 25, 26>> \in Seq(Int) /\ <<25, 25, 25>> \in Seq(Int) /\ <<26, 26>> \in Seq(Int)
        /\ <<25, 25, 25, 25>> \in Seq(Int)
    OBVIOUS
  <2>2. <<26, 25, 26, 21, 16>> \in Seq(Int) /\ <<25, 25, 25, 25, 25>> \in Seq(Int)
    OBVIOUS
  <2>3. <<26, 25, 26, 21, 18, 18, 26, 26>> \in Seq(Int)
    OBVIOUS
  <2>4. <<25, 25, 25, 25, 23, 25, 25>> \in Seq(Int)
    OBVIOUS
  <2>5. 0 \in Nat /\ 1 \in Nat /\ 3 \in Nat /\ 4 \in Nat /\ 5 \in Nat /\ 20 \in Nat
    OBVIOUS
  <2>6. /\ OfNumbers(Select("builtin-current-schema", <<25>>, 1)) /\ OfNumbers(Select("builtin-version", <<25>>, 1))
        /\ OfNumbers(Select("builtin-recovery", <<16>>, 1)) /\ OfNumbers(Select("builtin-txid", <<20>>, 1))
    BY <2>0, <2>1, <2>5
  <2>7. OfNumbers(PGTypeCatalogRule)
    BY <2>0, <2>3, <2>5 DEF PGTypeCatalogRule
  <2>8. \A name : \A types \in Seq(Int) : OfNumbers(Select(name, types, 0))
    BY <2>0, <2>5, Zenon
  <2>9. /\ OfNumbers(Select("builtin-pg-class", <<26, 25, 26, 18, 700>>, 0))
        /\ OfNumbers(Select("builtin-pg-attribute", <<26, 25, 26, 21, 16>>, 0))
    <3>1. \A oid \in Int : OfNumbers(Select("builtin-pg-class", <<26, 25, 26, 18, oid>>, 0))
      <4>1. \A oid \in Int : <<26, 25, 26, 18, oid>> \in Seq(Int)
        OBVIOUS
      <4> QED
        BY <2>8, <4>1
    <3>2. OfNumbers(Select("builtin-pg-attribute", <<26, 25, 26, 21, 16>>, 0))
      BY <2>2, <2>8
    <3>3. 700 \in Int
      OBVIOUS
    <3> QED
      BY <3>1, <3>2, <3>3
  <2>10. /\ OfNumbers(Select("builtin-pg-settings", <<25, 25, 25, 25, 25>>, 5))
         /\ OfNumbers(Select("builtin-info-schema-tables", <<25, 25, 25, 25>>, 0))
    BY <2>0, <2>1, <2>2, <2>5
  <2>11. /\ OfNumbers(Select("builtin-pg-namespace", <<26, 25, 26>>, 4))
         /\ OfNumbers(Select("builtin-info-schema-schemata", <<25, 25, 25>>, 3))
    BY <2>0, <2>1, <2>5
  <2>12. /\ OfNumbers(Select("builtin-info-schema-columns", <<25, 25, 25, 25, 23, 25, 25>>, 0))
         /\ OfNumbers(Select("builtin-pg-range", <<26, 26>>, 0)) /\ OfNumbers(Select("builtin-pg-enum", <<26, 700, 25>>, 0))
    <3>1. OfNumbers(Select("builtin-info-schema-columns", <<25, 25, 25, 25, 23, 25, 25>>, 0))
      BY <2>4, <2>8
    <3>2. OfNumbers(Select("builtin-pg-range", <<26, 26>>, 0))
      BY <2>1, <2>8
    <3>3. \A oid \in Int : OfNumbers(Select("builtin-pg-enum", <<26, oid, 25>>, 0))
      <4>1. \A oid \in Int : <<26, oid, 25>> \in Seq(Int)
        OBVIOUS
      <4> QED
        BY <2>8, <4>1
    <3>4. 700 \in Int
      OBVIOUS
    <3> QED
      BY <3>1, <3>2, <3>3, <3>4
  <2>13. \A i \in 1 .. 14 : OfNumbers(Catalog[i].rule)
    BY <1>3, <2>6, <2>7, <2>8, <2>9, <2>10, <2>11, <2>12 DEF Catalog
  <2> QED
    BY <2>13 DEF OfNumbers
<1>5. PICK name, types, n : types \in Seq(Int) /\ n \in Nat /\ Catalog[First(CatalogHits(q))].rule = Select(name, types, n)
  BY <1>2, <1>4
<1>6. Good(Select(name, types, n))
  BY <1>5, SelectGood
<1>7. "columns" \in DOMAIN Select(name, types, n)
  BY DEF Select, Rows, Rule
<1> QED
  BY <1>5, <1>6, <1>7, CopyGood, Zenon DEF CatalogRule

(* The fallback: a tag that says none were touched (engine.go:188-202).    *)
LEMMA DefaultGood ==
  ASSUME NEW q \in TextType
  PROVE  Good(DefaultRule(q))
<1>1. detectCommandTag(q) # NoTag
  <2>1. \A a, b : <<a>> # <<>> /\ <<a, b>> # <<>>
    OBVIOUS
  <2>2. \A i : Part(q, i) # <<>>
    BY <2>1, Zenon DEF Part
  <2>3. ASSUME Part(q, 1) \in {<<"CREATE">>, <<"DROP">>}, Len(q.words) > 1
        PROVE  Part(q, 1) \o Part(q, 2) # <<>>
    <3>1. PICK a : Part(q, 1) = <<a>>
      BY <2>3
    <3>2. \E b, c : Part(q, 2) = <<b>> \/ Part(q, 2) = <<b, c>>
      BY DEF Part
    <3>3. \A b, c : <<a>> \o <<b>> # <<>> /\ <<a>> \o <<b, c>> # <<>>
      OBVIOUS
    <3> QED
      BY <3>1, <3>2, <3>3
  <2> QED
    BY <2>1, <2>2, <2>3, TagSet, Zenon DEF detectCommandTag
<1>2. PICK r : r = Rows("default-fallback", <<>>, 0, Tag(<<"OK">>, NoCount))
  OBVIOUS
<1>3. Good(r) /\ r.columns = <<>>
  <2>1. <<>> \in Seq(Int) /\ 0 \in Nat
    BY EmptySeq
  <2>2. <<"OK">> # <<>>
    OBVIOUS
  <2> QED
    <3>1. Tag(<<"OK">>, NoCount) # NoTag /\ Tag(<<"OK">>, NoCount).n = NoCount
      BY <2>2, TagSet
    <3> QED
      BY <1>2, <2>1, <3>1, RowsGood
<1>4. /\ DefaultRule(q).columns = r.columns /\ DefaultRule(q).rows = r.rows
      /\ DefaultRule(q).tag = detectCommandTag(q)
  BY <1>2 DEF DefaultRule, Command, Rows, Rule
<1> QED
  BY <1>1, <1>3, <1>4 DEF Good, Shown, Tagged

-----------------------------------------------------------------------------
(* The tables: rows of values, as wide as there are columns.               *)

TableTyped(t) ==
  /\ t \in [cols : Seq(Columns), rows : Seq(Seq(ValueType))]
  /\ \A i \in DOMAIN t.rows : Len(t.rows[i]) = Len(t.cols)

DbTyped == \A n \in DOMAIN db : TableTyped(db[n])

(* A statement with its parameters in place.                               *)
Executable(st) ==
  /\ st.op \in StoreOps /\ st.cols \in Seq(Columns) /\ st.rows \in Seq(Seq(ValueType))
  /\ \A c \in DOMAIN st.set : st.set[c] \in ValueType
  /\ st.cols = <<>> /\ st.rows # <<>> => Len(Head(st.rows)) <= Len(Generated)

(* A list made member by member of another.                                *)
LEMMA EachLength ==
  ASSUME NEW A, NEW list \in Seq(A), NEW U, NEW f, f \in [DOMAIN list -> U]
  PROVE  f \in Seq(U) /\ Len(f) = Len(list) /\ DOMAIN f = DOMAIN list
<1>1. f \in Seq(U) /\ DOMAIN f = DOMAIN list
  BY EachOf
<1>2. DOMAIN f = 1 .. Len(f) /\ Len(f) \in Nat /\ DOMAIN list = 1 .. Len(list) /\ Len(list) \in Nat
  BY <1>1, LenProperties
<1>3. \A m, n \in Nat : 1 .. m = 1 .. n => m = n
  OBVIOUS
<1> QED
  BY <1>1, <1>2, <1>3

(* The text NULL is a value.                                               *)
LEMMA NullIsValue == Null \in ValueType
<1>1. \A kind \in Strings : Value(kind, 0) \in ValueType
  BY DEF Value, ValueType
<1>2. "NULL" \in Strings
  BY StringsAssumption
<1> QED
  BY <1>1, <1>2, Zenon DEF Null

(* Parameters take the place of $n (state_store.go:62-110).                *)
LEMMA BoundType ==
  ASSUME NEW v \in ValueType, NEW params \in ParamsType
  PROVE  Bound(v, params) \in ValueType
<1>2. \A i \in DOMAIN params : params[i] \in ValueType
  BY LenProperties, ElementOfSeq DEF ParamsType
<1> QED
  BY <1>2, NullIsValue, Zenon DEF Bound

(* What the parameters change of a statement: the values of its rows, of   *)
(* its SET and of its WHERE, and nothing else (state_store.go:400-453).    *)
LEMMA StatementParts ==
  ASSUME NEW q, NEW params \in ParamsType, q.words \in DOMAIN StatementOf,
         NEW st, st = Statement(q, params), NEW old, old = StatementOf[q.words]
  PROVE  /\ st.op = old.op /\ st.table = old.table /\ st.cols = old.cols /\ st.form = old.form
         /\ st.rows \in Seq(Seq(ValueType)) /\ (st.rows = <<>> <=> old.rows = <<>>)
         /\ old.rows # <<>> => Len(Head(st.rows)) = Len(Head(old.rows))
         /\ \A c \in DOMAIN st.set : st.set[c] \in ValueType
<1>1. /\ DOMAIN old = {"op", "table", "cols", "rows", "where", "set", "form"}
      /\ old.rows \in Seq(Seq(ValueType)) /\ ToSet(old.set) \subseteq ValueType
  BY StatementsAssumption, Zenon
<1> DEFINE rows == [i \in DOMAIN old.rows |-> [j \in DOMAIN old.rows[i] |-> Bound(old.rows[i][j], params)]]
           set == [c \in DOMAIN old.set |-> Bound(old.set[c], params)]
<1>2. \A i \in DOMAIN old.rows : old.rows[i] \in Seq(ValueType)
  BY <1>1, LenProperties, ElementOfSeq
<1>3. \A i \in DOMAIN old.rows : /\ [j \in DOMAIN old.rows[i] |-> Bound(old.rows[i][j], params)] \in Seq(ValueType)
                                 /\ Len([j \in DOMAIN old.rows[i] |-> Bound(old.rows[i][j], params)]) = Len(old.rows[i])
  <2> SUFFICES ASSUME NEW row \in Seq(ValueType)
               PROVE  /\ [j \in DOMAIN row |-> Bound(row[j], params)] \in Seq(ValueType)
                      /\ Len([j \in DOMAIN row |-> Bound(row[j], params)]) = Len(row)
    BY <1>2
  <2>1. \A j \in DOMAIN row : row[j] \in ValueType
    BY LenProperties, ElementOfSeq
  <2>2. [j \in DOMAIN row |-> Bound(row[j], params)] \in [DOMAIN row -> ValueType]
    BY <2>1, BoundType
  <2> QED
    BY <2>2, EachLength
<1>4. rows \in Seq(Seq(ValueType)) /\ Len(rows) = Len(old.rows) /\ DOMAIN rows = DOMAIN old.rows
  <2>1. rows \in [DOMAIN old.rows -> Seq(ValueType)]
    BY <1>3
  <2> HIDE DEF rows
  <2> QED
    BY <1>1, <2>1, EachLength
<1>5. \A c \in DOMAIN set : set[c] \in ValueType
  <2>1. \A c \in DOMAIN old.set : old.set[c] \in ValueType
    BY <1>1 DEF ToSet
  <2> QED
    BY <2>1, BoundType
<1>6. rows = <<>> <=> old.rows = <<>>
  BY <1>1, <1>4, EmptySeq
<1>7. ASSUME old.rows # <<>>
      PROVE  Len(Head(rows)) = Len(Head(old.rows))
  <2>1. 1 \in DOMAIN old.rows
    <3>1. DOMAIN old.rows = 1 .. Len(old.rows) /\ Len(old.rows) \in Nat /\ Len(old.rows) # 0
      BY <1>1, <1>7, EmptySeq, LenProperties
    <3>2. \A n \in Nat : n # 0 => 1 \in 1 .. n
      OBVIOUS
    <3> QED
      BY <3>1, <3>2, Zenon
  <2>2. Len(rows[1]) = Len(old.rows[1])
    BY <1>3, <2>1
  <2>3. Head(rows) = rows[1] /\ Head(old.rows) = old.rows[1]
    BY <1>1, <1>4, <1>6, <1>7
  <2> QED
    BY <2>2, <2>3
<1>8. /\ st.op = old.op /\ st.table = old.table /\ st.cols = old.cols /\ st.form = old.form
      /\ st.rows = rows /\ st.set = set
  BY <1>1 DEF Statement
<1> HIDE DEF rows, set
<1> QED
  BY <1>4, <1>5, <1>6, <1>7, <1>8, Zenon

(* The store finds in a text of its own a statement whose parts have the   *)
(* types it relies on, once the parameters stand in their places           *)
(* (state_store.go:400-453).                                               *)
LEMMA StatementType ==
  ASSUME NEW q, NEW params \in ParamsType, q.words \in DOMAIN StatementOf
  PROVE  Executable(Statement(q, params))
<1>1. PICK st, old : st = Statement(q, params) /\ old = StatementOf[q.words]
  OBVIOUS
<1>2. /\ old.op \in StoreOps /\ old.cols \in Seq(Columns)
      /\ old.cols = <<>> /\ old.rows # <<>> => Len(Head(old.rows)) <= Len(Generated)
  BY <1>1, StatementsAssumption, Zenon
<1>3. /\ st.op = old.op /\ st.cols = old.cols
      /\ st.rows \in Seq(Seq(ValueType)) /\ (st.rows = <<>> <=> old.rows = <<>>)
      /\ old.rows # <<>> => Len(Head(st.rows)) = Len(Head(old.rows))
      /\ \A c \in DOMAIN st.set : st.set[c] \in ValueType
  BY <1>1, StatementParts
<1> QED
  BY <1>1, <1>2, <1>3, Zenon DEF Executable

(* Tables and the lemmas use the operators of Statement.                   *)
LEMMA SameOperators ==
  ASSUME NEW cols, NEW row, NEW rows, NEW where, NEW wanted, NEW set, NEW list, NEW I, NEW st
  PROVE  /\ T!Those(list, I) = SP!Those(list, I)
         /\ T!Hits(where, cols, rows) \subseteq DOMAIN rows
         /\ T!FullRow(cols, row) = SP!FullRow(cols, row)
         /\ T!InsertColumns(st) = SP!InsertColumns(st)
<1>1. T!Those(list, I) = SP!Those(list, I)
  BY DEF T!Those, SP!Those, T!Nth, SP!Nth, T!Cardinality, SP!Cardinality
<1>2. T!Hits(where, cols, rows) \subseteq DOMAIN rows
  BY DEF T!Hits
<1>3. T!FullRow(cols, row) = SP!FullRow(cols, row)
  BY DEF T!FullRow, SP!FullRow
<1>4. T!InsertColumns(st) = SP!InsertColumns(st)
  BY DEF T!InsertColumns, SP!InsertColumns
<1> QED
  BY <1>1, <1>2, <1>3, <1>4

(* Some of the rows of a table.                                            *)
LEMMA SomeRows ==
  ASSUME NEW U, NEW rows \in Seq(U), NEW I, I \subseteq DOMAIN rows
  PROVE  /\ T!Those(rows, I) \in Seq(U)
         /\ \A k \in DOMAIN T!Those(rows, I) : \E i \in DOMAIN rows : T!Those(rows, I)[k] = rows[i]
<1>1. /\ SP!Those(rows, I) \in Seq(U)
      /\ \A k \in DOMAIN SP!Those(rows, I) : SP!Nth(I, k) \in DOMAIN rows /\ SP!Those(rows, I)[k] = rows[SP!Nth(I, k)]
  BY SP!ThoseAreMembers, NullIsValue, GeneratedAssumption, Zenon
<1>2. T!Those(rows, I) = SP!Those(rows, I)
  BY SameOperators
<1> QED
  BY <1>1, <1>2

(* A table that is put among the others.                                   *)
LEMMA PutTyped ==
  ASSUME DbTyped, NEW n, NEW t, TableTyped(t), T!Put(n, t)
  PROVE  DbTyped'
<1>1. db' = [m \in DOMAIN db \cup {n} |-> IF m = n THEN t ELSE db[m]]
  BY DEF T!Put
<1> QED
  BY <1>1 DEF DbTyped

(* Other rows, as wide.                                                    *)
LEMMA OtherRows ==
  ASSUME NEW t, TableTyped(t), NEW rows \in Seq(Seq(ValueType)), \A i \in DOMAIN rows : Len(rows[i]) = Len(t.cols)
  PROVE  TableTyped([t EXCEPT !.rows = rows])
BY DEF TableTyped

(* CREATE TABLE.                                                           *)
LEMMA CreateTyped ==
  ASSUME DbTyped, NEW st, Executable(st), T!Create(st)
  PROVE  DbTyped'
<1>1. T!Put(st.table, [cols |-> st.cols, rows |-> <<>>]) /\ st.cols \in Seq(Columns)
  BY DEF T!Create, Executable
<1>2. <<>> \in Seq(Seq(ValueType)) /\ DOMAIN <<>> = {}
  BY EmptySeq, EmptyLog
<1>3. TableTyped([cols |-> st.cols, rows |-> <<>>])
  BY <1>1, <1>2 DEF TableTyped
<1> QED
  BY <1>1, <1>3, PutTyped

(* TRUNCATE.                                                               *)
LEMMA TruncateTyped ==
  ASSUME DbTyped, NEW st, T!Truncate(st)
  PROVE  DbTyped'
<1>1. T!Put(st.table, [db[st.table] EXCEPT !.rows = <<>>]) /\ TableTyped(db[st.table])
  BY DEF T!Truncate, DbTyped
<1>2. <<>> \in Seq(Seq(ValueType)) /\ DOMAIN <<>> = {}
  BY EmptySeq, EmptyLog
<1>3. TableTyped([db[st.table] EXCEPT !.rows = <<>>])
  BY <1>1, <1>2, OtherRows
<1> QED
  BY <1>1, <1>3, PutTyped

(* INSERT fills up its rows (state_store.go:232-270).                      *)
LEMMA InsertTyped ==
  ASSUME DbTyped, NEW st, Executable(st), T!Insert(st)
  PROVE  DbTyped'
<1>1. PICK old : old = IF st.table \in DOMAIN db THEN db[st.table] ELSE [cols |-> T!InsertColumns(st), rows |-> <<>>]
  OBVIOUS
<1>2. T!Put(st.table, [old EXCEPT !.rows = @ \o [i \in DOMAIN st.rows |-> T!FullRow(old.cols, st.rows[i])]])
  BY <1>1, Zenon DEF T!Insert
<1>3. TableTyped(old)
  <2>1. CASE st.table \in DOMAIN db
    BY <1>1, <2>1 DEF DbTyped
  <2>2. CASE st.table \notin DOMAIN db
    <3>1. SP!InsertColumns(st) \in Seq(Columns)
      BY SP!InsertColumnsType, NullIsValue, GeneratedAssumption, Zenon DEF Executable
    <3>2. T!InsertColumns(st) \in Seq(Columns)
      BY <3>1, SameOperators
    <3>3. <<>> \in Seq(Seq(ValueType)) /\ DOMAIN <<>> = {}
      BY EmptySeq, EmptyLog
    <3>4. old = [cols |-> T!InsertColumns(st), rows |-> <<>>]
      BY <1>1, <2>2
    <3> HIDE DEF T!InsertColumns
    <3> QED
      BY <3>2, <3>3, <3>4 DEF TableTyped
  <2> QED
    BY <2>1, <2>2
<1>4. old.cols \in Seq(Columns) /\ old.rows \in Seq(Seq(ValueType)) /\ st.rows \in Seq(Seq(ValueType))
  BY <1>3 DEF TableTyped, Executable
<1> DEFINE more == [i \in DOMAIN st.rows |-> T!FullRow(old.cols, st.rows[i])]
<1>5. more \in Seq(Seq(ValueType)) /\ \A i \in DOMAIN more : Len(more[i]) = Len(old.cols)
  <2>1. \A i \in DOMAIN st.rows : /\ T!FullRow(old.cols, st.rows[i]) \in Seq(ValueType)
                                  /\ Len(T!FullRow(old.cols, st.rows[i])) = Len(old.cols)
    <3>1. \A i \in DOMAIN st.rows : st.rows[i] \in Seq(ValueType)
      BY <1>4, LenProperties, ElementOfSeq
    <3>2. \A row \in Seq(ValueType) : /\ SP!FullRow(old.cols, row) \in Seq(ValueType)
                                      /\ Len(SP!FullRow(old.cols, row)) = Len(old.cols)
      BY <1>4, SP!FullRows, NullIsValue, GeneratedAssumption, Zenon
    <3>3. \A row : T!FullRow(old.cols, row) = SP!FullRow(old.cols, row)
      BY SameOperators
    <3> QED
      BY <3>1, <3>2, <3>3
  <2>2. more \in [DOMAIN st.rows -> Seq(ValueType)]
    BY <2>1
  <2>3. \A i \in DOMAIN more : Len(more[i]) = Len(old.cols)
    BY <2>1
  <2> HIDE DEF more
  <2> QED
    BY <1>4, <2>2, <2>3, EachOf
<1> DEFINE all == old.rows \o more
<1> HIDE DEF more
<1>6. all \in Seq(Seq(ValueType)) /\ \A i \in DOMAIN all : Len(all[i]) = Len(old.cols)
  <2>1. /\ all \in Seq(Seq(ValueType)) /\ Len(all) = Len(old.rows) + Len(more)
        /\ \A i \in 1 .. Len(old.rows) + Len(more) :
             all[i] = IF i <= Len(old.rows) THEN old.rows[i] ELSE more[i - Len(old.rows)]
    BY <1>4, <1>5, ConcatProperties
  <2>2. /\ Len(old.rows) \in Nat /\ DOMAIN old.rows = 1 .. Len(old.rows)
        /\ Len(more) \in Nat /\ DOMAIN more = 1 .. Len(more) /\ DOMAIN all = 1 .. Len(all)
    BY <1>4, <1>5, <2>1, LenProperties
  <2> HIDE DEF all
  <2>3. ASSUME NEW i \in DOMAIN all
        PROVE  Len(all[i]) = Len(old.cols)
    <3>1. CASE i <= Len(old.rows)
      <4>1. i \in DOMAIN old.rows /\ all[i] = old.rows[i]
        BY <2>1, <2>2, <3>1
      <4> QED
        BY <1>3, <4>1 DEF TableTyped
    <3>2. CASE ~(i <= Len(old.rows))
      <4>1. \A m, n \in Nat : \A j \in 1 .. m + n : ~(j <= m) => j - m \in 1 .. n
        OBVIOUS
      <4>2. i \in 1 .. Len(old.rows) + Len(more)
        BY <2>1, <2>2
      <4>3. i - Len(old.rows) \in DOMAIN more
        BY <2>2, <3>2, <4>1, <4>2
      <4>4. all[i] = more[i - Len(old.rows)]
        BY <2>1, <3>2, <4>2
      <4> QED
        BY <1>5, <4>3, <4>4
    <3> QED
      BY <3>1, <3>2
  <2> QED
    BY <2>1, <2>3
<1>7. TableTyped([old EXCEPT !.rows = all])
  <2> HIDE DEF all
  <2> QED
    BY <1>3, <1>6, OtherRows
<1>8. T!Put(st.table, [old EXCEPT !.rows = all])
  <2>1. [old EXCEPT !.rows = @ \o [i \in DOMAIN st.rows |-> T!FullRow(old.cols, st.rows[i])]] = [old EXCEPT !.rows = all]
    BY Zenon DEF all, more
  <2> HIDE DEF all
  <2> QED
    BY <1>2, <2>1, Zenon
<1> HIDE DEF all
<1> QED
  BY <1>7, <1>8, PutTyped

(* UPDATE keeps the rows as wide as they are (state_store.go:315-370).     *)
LEMMA UpdateTyped ==
  ASSUME DbTyped, NEW st, Executable(st), T!Update(st)
  PROVE  DbTyped'
<1>1. PICK t : t = db[st.table] /\ TableTyped(t) /\ st.table \in DOMAIN db
  BY DEF T!Update, DbTyped
<1> DEFINE rows == [i \in DOMAIN t.rows |-> IF T!Holds(st.where, t.cols, t.rows[i])
                                            THEN T!Assigned(t.cols, st.set, t.rows[i]) ELSE t.rows[i]]
<1>2. T!Put(st.table, [t EXCEPT !.rows = rows])
  BY <1>1, Zenon DEF T!Update
<1>3. t.rows \in Seq(Seq(ValueType)) /\ \A i \in DOMAIN t.rows : t.rows[i] \in Seq(ValueType) /\ Len(t.rows[i]) = Len(t.cols)
  BY <1>1, LenProperties, ElementOfSeq DEF TableTyped
<1>4. ASSUME NEW row \in Seq(ValueType)
      PROVE  T!Assigned(t.cols, st.set, row) \in Seq(ValueType) /\ Len(T!Assigned(t.cols, st.set, row)) = Len(row)
  <2>1. \A j \in DOMAIN row : row[j] \in ValueType
    BY LenProperties, ElementOfSeq
  <2>2. T!Assigned(t.cols, st.set, row) \in [DOMAIN row -> ValueType]
    BY <2>1, Zenon DEF T!Assigned, Executable
  <2> QED
    BY <2>2, EachLength
<1>5. \A i \in DOMAIN t.rows : rows[i] \in Seq(ValueType) /\ Len(rows[i]) = Len(t.cols)
  BY <1>3, <1>4
<1>6. rows \in Seq(Seq(ValueType)) /\ DOMAIN rows = DOMAIN t.rows
  <2>1. rows \in [DOMAIN t.rows -> Seq(ValueType)]
    BY <1>5
  <2> HIDE DEF rows
  <2> QED
    BY <1>3, <2>1, EachLength
<1> HIDE DEF rows
<1>7. TableTyped([t EXCEPT !.rows = rows])
  BY <1>1, <1>5, <1>6, OtherRows
<1> QED
  BY <1>2, <1>7, PutTyped

(* DELETE keeps some of the rows (state_store.go:371-410).                 *)
LEMMA DeleteTyped ==
  ASSUME DbTyped, NEW st, T!Delete(st)
  PROVE  DbTyped'
<1>1. PICK t : t = db[st.table] /\ TableTyped(t) /\ st.table \in DOMAIN db
  BY DEF T!Delete, DbTyped
<1>2. PICK I : I = DOMAIN t.rows \ T!Hits(st.where, t.cols, t.rows)
  OBVIOUS
<1>3. T!Put(st.table, [t EXCEPT !.rows = T!Those(t.rows, I)])
  BY <1>1, <1>2, Zenon DEF T!Delete
<1>4. PICK rows : rows = T!Those(t.rows, I)
  OBVIOUS
<1>5. rows \in Seq(Seq(ValueType)) /\ \A k \in DOMAIN rows : \E i \in DOMAIN t.rows : rows[k] = t.rows[i]
  <2>1. t.rows \in Seq(Seq(ValueType)) /\ I \subseteq DOMAIN t.rows
    BY <1>1, <1>2 DEF TableTyped
  <2> QED
    BY <1>4, <2>1, SomeRows
<1>6. \A k \in DOMAIN rows : Len(rows[k]) = Len(t.cols)
  BY <1>1, <1>5 DEF TableTyped
<1>7. TableTyped([t EXCEPT !.rows = rows])
  BY <1>1, <1>5, <1>6, OtherRows
<1> QED
  BY <1>3, <1>4, <1>7, PutTyped

(* Whatever statement the store runs (MatchAndExecute, state_store.go).    *)
LEMMA ExecuteTyped ==
  ASSUME DbTyped, NEW st, Executable(st), MatchAndExecute(st)
  PROVE  DbTyped'
<1>1. CASE T!Drop(st)
  <2>1. db' = [m \in DOMAIN db \ {st.table} |-> db[m]]
    BY <1>1 DEF T!Drop
  <2> QED
    BY <2>1 DEF DbTyped
<1>2. CASE UNCHANGED db
  BY <1>2 DEF DbTyped
<1> QED
  BY <1>1, <1>2, CreateTyped, TruncateTyped, InsertTyped, UpdateTyped, DeleteTyped DEF MatchAndExecute

(* A call runs the statement the store answers, nothing else changes them. *)
LEMMA NextDbTyped == IInv /\ DbTyped /\ [Next]_vars => DbTyped'
<1> SUFFICES ASSUME IInv, DbTyped, [Next]_vars
             PROVE  DbTyped'
  OBVIOUS
<1>1. /\ world.texts \subseteq TextType /\ portal.params \in ParamsType /\ <<>> \in ParamsType
  BY PortalTyped DEF IInv, Started, World
<1>2. CASE UNCHANGED db
  BY <1>2 DEF DbTyped
<1>3. ASSUME NEW q, NEW params \in ParamsType, Match(q, params)
      PROVE  DbTyped'
  <2>1. CASE Source(q, params) = "store"
    <3>1. q.words \in DOMAIN StatementOf /\ MatchAndExecute(Statement(q, params))
      BY <1>3, <2>1 DEF Match, Source
    <3> QED
      BY <3>1, StatementType, ExecuteTyped
  <2>2. CASE Source(q, params) # "store"
    BY <1>2, <1>3, <2>2 DEF Match
  <2> QED
    BY <2>1, <2>2
<1>4. ASSUME NEW q, SimpleQuery(q)
      PROVE  DbTyped'
  BY <1>1, <1>2, <1>3, <1>4 DEF SimpleQuery, Run
<1>5. ASSUME NEW target, Describe(target)
      PROVE  DbTyped'
  BY <1>1, <1>2, <1>3, <1>5 DEF Describe
<1>6. CASE Execute
  BY <1>1, <1>3, <1>6 DEF Execute, Run
<1>7. ASSUME NEW p, Bind(p)
      PROVE  DbTyped'
  BY <1>2, <1>7 DEF Bind
<1>8. ASSUME NEW rule, PostRule(rule)
      PROVE  DbTyped'
  BY <1>2, <1>8 DEF PostRule, Operation
<1>9. ASSUME NEW id, DeleteRule(id)
      PROVE  DbTyped'
  BY <1>2, <1>9 DEF DeleteRule, Operation
<1>10. CASE Reset
  BY <1>2, <1>10 DEF Reset, Operation
<1>11. CASE UNCHANGED vars
  BY <1>2, <1>11 DEF vars
<1> QED
  BY <1>4, <1>5, <1>6, <1>7, <1>8, <1>9, <1>10, <1>11 DEF Next, Rest

-----------------------------------------------------------------------------
(* The rows of a reply, and what their cells decode to.                    *)

(* What ValuesDecode says of one cell and of a whole reply.                *)
CellGood(f, c, v) ==
  /\ c = Nil <=> v = Nil
  /\ c # Nil /\ f.format = 0 => c = Bytes(-1, v)
  /\ c # Nil /\ f.format = 1 /\ IsLiteral(f.oid, v) =>
       Decode(f.oid, c) = v /\ (f.oid = OIDUUID \/ f.size \in {-1, c.size})
  /\ c # Nil /\ f.format = 1 /\ IsNoNumber(f.oid, v) => c = Bytes(-1, v)

Decodes(r) ==
  \A i \in DOMAIN r.rows :
    /\ DOMAIN r.rows[i] = DOMAIN r.fields
    /\ \A j \in DOMAIN r.fields : CellGood(r.fields[j], r.rows[i][j], r.texts[i][j])

(* Bytes are not NULL.                                                     *)
LEMMA BytesAreBytes ==
  ASSUME NEW size \in Int, NEW kind \in Strings, NEW n \in Int
  PROVE  Value(kind, n) # Nil /\ Bytes(size, Value(kind, n)) # Nil /\ Bytes(size, Value(kind, n)).size = size
         /\ Bytes(size, Value(kind, n)).v = Value(kind, n) /\ Value(kind, n).kind = kind /\ Value(kind, n).n = n
BY NoBytesAssumption, NilAssumption DEF Bytes, Value

(* A day that is clamped (binary.go:103-124).                              *)
LEMMA ClampedDays ==
  ASSUME NEW x \in Int
  PROVE  Clamp(x) \in Int /\ (x \in -MaxDays .. MaxDays => Clamp(x) = x)
<1>1. MaxDays \in Int
  BY DEF MaxDays
<1> QED
  BY <1>1 DEF Clamp

(* Two's complement, in any number of bits (binary.go:39-51).              *)
LEMMA Complement ==
  ASSUME NEW h \in Nat, h > 0, NEW m \in Int, -h <= m, m < h
  PROVE  m % (2 * h) \in Int /\ m = IF m % (2 * h) < h THEN m % (2 * h) ELSE (m % (2 * h)) - 2 * h
<1>1. m % (2 * h) = IF m < 0 THEN m + 2 * h ELSE m
  OBVIOUS
<1> QED
  BY <1>1

(* Every unit has a multiple nearest to a number; of the finest it is the  *)
(* number itself (binary.go:54-68).                                        *)
LEMMA RoundedNumber ==
  ASSUME NEW unit \in Nat, unit > 0, NEW m \in Int
  PROVE  Rounded(unit, m) \in Int /\ (unit = 1 => Rounded(unit, m) = m)
<1>1. m % unit \in Int /\ m \div unit \in Int
  OBVIOUS
<1>2. Rounded(unit, m) \in Int
  BY <1>1 DEF Rounded
<1>3. ASSUME unit = 1
      PROVE  Rounded(unit, m) = m
  <2>1. m % 1 = 0 /\ m \div 1 = m
    OBVIOUS
  <2> QED
    BY <1>3, <2>1 DEF Rounded
<1> QED
  BY <1>2, <1>3

(* What the finest unit that will do gives is a number.                    *)
LEMMA FloatTyped ==
  ASSUME NEW size \in {4, 8}, NEW m \in Int, UnitsFor(size, m) # {}
  PROVE  Rounded(First(UnitsFor(size, m)), m) \in Int
<1>1. UnitsFor(size, m) \subseteq Nat \ {0}
  BY WidthsAssumption DEF UnitsFor
<1>2. First(UnitsFor(size, m)) \in Nat \ {0}
  BY <1>1, FirstOne
<1> QED
  BY <1>2, RoundedNumber

(* A float of few enough halves is exact.                                  *)
LEMMA FloatExact ==
  ASSUME NEW size \in {4, 8}, NEW m \in (1 - Exact[size]) .. (Exact[size] - 1)
  PROVE  UnitsFor(size, m) # {} /\ Rounded(First(UnitsFor(size, m)), m) = m
<1>1. Exact[size] \in Nat /\ Units[size] \subseteq Nat \ {0} /\ 1 \in Units[size]
  BY WidthsAssumption
<1>2. m \in Int /\ -Exact[size] < m /\ m < Exact[size]
  BY <1>1
<1>3. Rounded(1, m) = m
  BY <1>2, RoundedNumber
<1>4. 1 \in UnitsFor(size, m)
  BY <1>1, <1>2, <1>3 DEF UnitsFor
<1>5. UnitsFor(size, m) \subseteq Nat \ {0}
  BY <1>1 DEF UnitsFor
<1>6. First(UnitsFor(size, m)) = 1
  BY <1>4, <1>5, FirstOne
<1> QED
  BY <1>3, <1>4, <1>6

(* What ValuesDecode says of the binary form e of v.                       *)
EncodedGood(oid, v, e) ==
  /\ e # Nil
  /\ IsLiteral(oid, v) => Decode(oid, e) = v
  /\ IsLiteral(oid, v) /\ oid # OIDUUID => DefaultTypeSize(oid) \in {-1, e.size}
  /\ IsNoNumber(oid, v) => e = Bytes(-1, v)

(* An integer in size bytes (binary.go:26-51).                             *)
LEMMA IntDecodes ==
  ASSUME NEW oid \in Integral, NEW v \in [kind : Strings, n : Int], NEW size \in {2, 4, 8},
         DefaultTypeSize(oid) = size, oid \notin Floating,
         IsLiteral(oid, v) <=> v.kind = "int" /\ v.n \in -Half[size] .. (Half[size] - 1)
  PROVE  EncodedGood(oid, v, EncodeInt(size, v))
<1>1. v = Value(v.kind, v.n) /\ v.n \in Int /\ v.kind \in Strings
  BY DEF Value
<1>2. PICK h \in Nat : h = Half[size] /\ h > 0
  BY WidthsAssumption
<1>3. IsLiteral(oid, v) <=> IsInt(size, v)
  BY <1>1, <1>2 DEF IsInt
<1>4. CASE IsInt(size, v)
  <2>1. PICK n \in Int : n = v.n % (2 * h) /\ v.n = IF n < h THEN n ELSE n - 2 * h
    <3>1. -h <= v.n /\ v.n < h
      BY <1>2, <1>4 DEF IsInt
    <3> QED
      BY <1>1, <1>2, <3>1, Complement
  <2>2. EncodeInt(size, v) = Bytes(size, Value("bits", n))
    BY <1>2, <1>4, <2>1 DEF EncodeInt
  <2>3. PICK e : e = EncodeInt(size, v)
    OBVIOUS
  <2>4. e # Nil /\ e.size = size /\ e.v.n = n
    <3>1. "bits" \in Strings
      BY StringsAssumption
    <3>2. size \in Int
      OBVIOUS
    <3> QED
      BY <2>2, <2>3, <3>1, <3>2, BytesAreBytes
  <2>5. Decode(oid, e) = Value("int", Signed(size, n))
    BY <2>4, Zenon DEF Decode
  <2>6. Signed(size, n) = v.n
    BY <1>2, <2>1 DEF Signed
  <2>7. v = Value("int", v.n)
    BY <1>1, <1>4, Zenon DEF IsInt
  <2>8. ~IsNoNumber(oid, v)
    BY <1>3, <1>4 DEF IsNoNumber
  <2> QED
    BY <2>3, <2>4, <2>5, <2>6, <2>7, <2>8, Zenon DEF EncodedGood
<1>5. CASE ~IsInt(size, v)
  <2>1. EncodeInt(size, v) = Bytes(-1, v)
    BY <1>5 DEF EncodeInt
  <2>2. Bytes(-1, v) # Nil
    BY <1>1, BytesAreBytes
  <2> QED
    BY <1>3, <1>5, <2>1, <2>2, Zenon DEF EncodedGood
<1> QED
  BY <1>4, <1>5

(* A number and its halves.                                                *)
LEMMA HalvedHalves ==
  ASSUME NEW v \in [kind : Strings, n : Int], IsNumber(v)
  PROVE  Halves(v) \in Int /\ Halved(Halves(v)) = v
<1>1. v = Value(v.kind, v.n) /\ v.n \in Int
  BY DEF Value
<1>2. CASE v.kind = "int"
  <2>1. Halves(v) = 2 * v.n
    BY <1>2 DEF Halves
  <2>2. (2 * v.n) % 2 = 0 /\ (2 * v.n) \div 2 = v.n
    BY <1>1
  <2> QED
    BY <1>1, <1>2, <2>1, <2>2 DEF Halved
<1>3. CASE v.kind # "int"
  <2>1. v.kind = "half" /\ v.n % 2 = 1 /\ Halves(v) = v.n
    BY <1>3 DEF IsNumber, Halves
  <2> QED
    BY <1>1, <2>1 DEF Halved
<1> QED
  BY <1>2, <1>3

(* A float in size bytes (binary.go:53-71).                                *)
LEMMA FloatDecodes ==
  ASSUME NEW oid \in Floating, NEW v \in [kind : Strings, n : Int], NEW size \in {4, 8},
         DefaultTypeSize(oid) = size, oid \notin Integral,
         IsLiteral(oid, v) <=> IsNumber(v) /\ Halves(v) \in (1 - Exact[size]) .. (Exact[size] - 1)
  PROVE  EncodedGood(oid, v, EncodeFloat(size, v))
<1>1. v = Value(v.kind, v.n) /\ v.n \in Int /\ v.kind \in Strings
  BY DEF Value
<1>2. PICK m : m = Halves(v)
  OBVIOUS
<1>3. PICK f : f = Rounded(First(UnitsFor(size, m)), m)
  OBVIOUS
<1>4. EncodeFloat(size, v) = IF IsNumber(v) /\ UnitsFor(size, m) # {}
                             THEN Bytes(size, Value("float", f)) ELSE Bytes(-1, v)
  BY <1>2, <1>3, Zenon DEF EncodeFloat
<1>5. Bytes(-1, v) # Nil
  BY <1>1, BytesAreBytes
<1>6. IsLiteral(oid, v) => UnitsFor(size, m) # {} /\ f = m
  BY <1>2, <1>3, FloatExact
<1>7. CASE IsNumber(v) /\ UnitsFor(size, m) # {}
  <2>1. m \in Int /\ Halved(m) = v
    BY <1>2, <1>7, HalvedHalves
  <2>2. f \in Int
    BY <1>3, <1>7, <2>1, FloatTyped
  <2>3. PICK e : e = EncodeFloat(size, v)
    OBVIOUS
  <2>4. e # Nil /\ e.size = size /\ e.v.n = f
    <3>1. "float" \in Strings
      BY StringsAssumption
    <3>2. e = Bytes(size, Value("float", f))
      BY <1>4, <1>7, <2>3
    <3>3. size \in Int
      OBVIOUS
    <3> QED
      BY <2>2, <3>1, <3>2, <3>3, BytesAreBytes
  <2>5. Decode(oid, e) = Halved(f)
    BY <2>4, Zenon DEF Decode
  <2>6. ~IsNoNumber(oid, v)
    BY <1>7 DEF IsNoNumber
  <2> QED
    BY <1>6, <2>1, <2>3, <2>4, <2>5, <2>6, Zenon DEF EncodedGood
<1>8. CASE ~(IsNumber(v) /\ UnitsFor(size, m) # {})
  <2>1. EncodeFloat(size, v) = Bytes(-1, v) /\ ~IsLiteral(oid, v)
    BY <1>4, <1>6, <1>8
  <2> QED
    BY <1>5, <2>1, Zenon DEF EncodedGood
<1> QED
  BY <1>7, <1>8

(* A date or a time, in size bytes.                                        *)
LEMMA AsDays ==
  ASSUME NEW oid, NEW v \in [kind : Strings, n : Int], NEW e, NEW size \in {4, 8}, NEW kind \in Strings,
         oid \notin Integral, oid \notin Floating, DefaultTypeSize(oid) \in {-1, size},
         IsLiteral(oid, v) => v.kind = kind /\ v.n \in -MaxDays .. MaxDays,
         e = IF v.kind = kind THEN Bytes(size, Value(kind, Clamp(v.n))) ELSE Bytes(-1, v)
  PROVE  EncodedGood(oid, v, e)
<1>1. v.n \in Int /\ v.kind \in Strings /\ v = Value(v.kind, v.n)
  BY DEF Value
<1>2. Decode(oid, e) = e.v
  BY DEF Decode
<1>3. CASE v.kind = kind
  <2>1. PICK n \in Int : n = Clamp(v.n) /\ (v.n \in -MaxDays .. MaxDays => n = v.n)
    BY <1>1, ClampedDays, Zenon
  <2>2. e = Bytes(size, Value(kind, n))
    BY <1>3, <2>1
  <2>3. e # Nil /\ e.size = size /\ e.v = Value(kind, n)
    BY <2>2, BytesAreBytes
  <2>4. v.n \in -MaxDays .. MaxDays => e.v = v
    BY <1>1, <1>3, <2>1, <2>3
  <2> QED
    BY <1>2, <2>3, <2>4 DEF EncodedGood, IsNoNumber
<1>4. CASE v.kind # kind
  <2>1. e # Nil
    BY <1>1, <1>4, BytesAreBytes
  <2> QED
    BY <1>4, <2>1 DEF EncodedGood, IsNoNumber
<1> QED
  BY <1>3, <1>4

(* A value in its binary form (binary.go:17-124).                          *)
LEMMA EncodedDecodes ==
  ASSUME NEW oid, NEW v \in [kind : Strings, n : Int]
  PROVE  EncodedGood(oid, v, EncodeBinaryValue(oid, v))
<1> DEFINE enc == EncodeBinaryValue(oid, v)
<1> SUFFICES ASSUME NEW e, e = enc
             PROVE  EncodedGood(oid, v, e)
  OBVIOUS
<1> USE DEF OIDBool, OIDInt8, OIDInt2, OIDInt4, OIDFloat4, OIDFloat8, OIDDate, OIDStamps, OIDUUID
<1>1. v = Value(v.kind, v.n) /\ v.n \in Int /\ v.kind \in Strings
  BY DEF Value
<1>3. CASE oid = OIDBool
  <2>1. PICK n \in Int : n = IF v.kind \in {"int", "bool"} /\ v.n = 1 THEN 1 ELSE 0
    OBVIOUS
  <2>2. e = Bytes(1, Value("bool", n))
    BY <1>3, <2>1 DEF EncodeBinaryValue
  <2>3. e # Nil /\ e.size = 1 /\ e.v = Value("bool", n)
    <3>1. "bool" \in Strings
      BY StringsAssumption
    <3>2. 1 \in Int
      OBVIOUS
    <3> QED
      BY <2>1, <2>2, <3>1, <3>2, BytesAreBytes
  <2>4. /\ IsLiteral(oid, v) => v.kind = "bool" /\ v.n \in {0, 1}
        /\ oid \notin Integral /\ oid \notin Floating /\ DefaultTypeSize(oid) = 1 /\ Decode(oid, e) = e.v
    BY <1>3 DEF IsLiteral, Integral, Floating, DefaultTypeSize, Decode
  <2>5. IsLiteral(oid, v) => v = Value("bool", n)
    BY <1>1, <2>1, <2>4
  <2> QED
    BY <2>3, <2>4, <2>5 DEF EncodedGood, IsNoNumber
<1>4. ASSUME NEW size \in {2, 4, 8}, <<oid, size>> \in {<<OIDInt2, 2>>, <<OIDInt4, 4>>, <<OIDInt8, 8>>}
      PROVE  EncodedGood(oid, v, e)
  <2>1. oid \in Integral /\ oid \notin Floating /\ DefaultTypeSize(oid) = size
    BY <1>4 DEF Integral, Floating, DefaultTypeSize
  <2>2. e = EncodeInt(size, v)
    BY <1>4 DEF EncodeBinaryValue
  <2>3. IsLiteral(oid, v) <=> v.kind = "int" /\ v.n \in -Half[size] .. (Half[size] - 1)
    BY <1>4, <2>1 DEF IsLiteral
  <2> QED
    BY <2>1, <2>2, <2>3, IntDecodes
<1>5. ASSUME NEW size \in {4, 8}, <<oid, size>> \in {<<OIDFloat4, 4>>, <<OIDFloat8, 8>>}
      PROVE  EncodedGood(oid, v, e)
  <2>1. oid \in Floating /\ oid \notin Integral /\ DefaultTypeSize(oid) = size
    BY <1>5 DEF Integral, Floating, DefaultTypeSize
  <2>2. e = EncodeFloat(size, v)
    BY <1>5 DEF EncodeBinaryValue
  <2>3. IsLiteral(oid, v) <=> IsNumber(v) /\ Halves(v) \in (1 - Exact[size]) .. (Exact[size] - 1)
    BY <1>5, <2>1 DEF IsLiteral
  <2> QED
    BY <2>1, <2>2, <2>3, FloatDecodes
<1>8. CASE oid = OIDDate
  <2>1. e = IF v.kind = "date" THEN Bytes(4, Value("date", Clamp(v.n))) ELSE Bytes(-1, v)
    BY <1>8 DEF EncodeBinaryValue
  <2>2. IsLiteral(oid, v) => v.kind = "date" /\ v.n \in -MaxDays .. MaxDays
    BY <1>8 DEF IsLiteral
  <2>3. DefaultTypeSize(oid) = -1 /\ oid \notin Integral /\ oid \notin Floating
    BY <1>8 DEF DefaultTypeSize, Integral, Floating
  <2>4. "date" \in Strings
    BY StringsAssumption
  <2> QED
    BY <2>1, <2>2, <2>3, <2>4, AsDays
<1>9. CASE oid \in OIDStamps
  <2>1. e = IF v.kind = "stamp" THEN Bytes(8, Value("stamp", Clamp(v.n))) ELSE Bytes(-1, v)
    BY <1>9 DEF EncodeBinaryValue
  <2>2. IsLiteral(oid, v) => v.kind = "stamp" /\ v.n \in -MaxDays .. MaxDays
    BY <1>9 DEF IsLiteral
  <2>3. DefaultTypeSize(oid) = 8 /\ oid \notin Integral /\ oid \notin Floating
    BY <1>9 DEF DefaultTypeSize, Integral, Floating
  <2>4. "stamp" \in Strings
    BY StringsAssumption
  <2> QED
    BY <2>1, <2>2, <2>3, <2>4, AsDays
<1>10. CASE oid \notin {OIDBool, OIDInt2, OIDInt4, OIDInt8, OIDFloat4, OIDFloat8, OIDDate} \cup OIDStamps
  <2>1. e = Bytes(-1, v)
    BY <1>10 DEF EncodeBinaryValue
  <2>2. (oid = OIDUUID \/ DefaultTypeSize(oid) = -1) /\ oid \notin Integral /\ oid \notin Floating
    BY <1>10 DEF DefaultTypeSize, Integral, Floating
  <2>3. e # Nil /\ e.v = v /\ e.size = -1
    BY <1>1, <2>1, BytesAreBytes
  <2>4. Decode(oid, e) = e.v
    BY <2>2 DEF Decode
  <2> QED
    BY <2>2, <2>3, <2>4 DEF EncodedGood, IsNoNumber
<1>11. <<oid, 2>> = <<OIDInt2, 2>> \/ <<oid, 4>> = <<OIDInt4, 4>> \/ <<oid, 8>> = <<OIDInt8, 8>>
       => EncodedGood(oid, v, e)
  BY <1>4
<1>12. <<oid, 4>> = <<OIDFloat4, 4>> \/ <<oid, 8>> = <<OIDFloat8, 8>> => EncodedGood(oid, v, e)
  BY <1>5
<1> QED
  BY <1>3, <1>8, <1>9, <1>10, <1>11, <1>12

(* A cell in the format that is announced.                                 *)
LEMMA CellDecodes ==
  ASSUME NEW f, NEW v \in ValueType, f.format \in {0, 1}, f.size = DefaultTypeSize(f.oid)
  PROVE  CellGood(f, Cell(f.oid, f.format, v), v)
<1>1. CASE v = Nil
  BY <1>1 DEF Cell, CellGood
<1>2. CASE v # Nil
  <2>1. v \in [kind : Strings, n : Int]
    BY <1>2 DEF ValueType
  <2>2. Bytes(-1, v) # Nil
    BY <2>1, NoBytesAssumption DEF Bytes
  <2>3. CASE f.format = 0
    BY <1>2, <2>2, <2>3 DEF Cell, CellGood
  <2>4. CASE f.format = 1
    <3>1. EncodedGood(f.oid, v, EncodeBinaryValue(f.oid, v))
      BY <2>1, EncodedDecodes
    <3>2. Cell(f.oid, f.format, v) = EncodeBinaryValue(f.oid, v)
      BY <1>2, <2>4 DEF Cell
    <3> QED
      BY <1>2, <2>4, <3>1, <3>2 DEF CellGood, EncodedGood
  <2> QED
    BY <2>3, <2>4
<1> QED
  BY <1>1, <1>2

-----------------------------------------------------------------------------
(* Whatever answers can be sent.                                           *)

(* The tag an answer is sent with, unless the author of a rule wrote it,   *)
(* counts its rows.                                                        *)
TagRight(rule) ==
  /\ SentTag(rule) # NoTag
  /\ rule.columns # <<>> /\ SentTag(rule) \notin OwnTags /\ SentTag(rule).n # NoCount =>
       SentTag(rule).n = Len(rule.rows)

Ready(rule) == Shown(rule) /\ TagRight(rule)

(* An answer that is good can be sent: its cells show in its columns' types*)
(* and its tag counts its rows.                                            *)
LEMMA GoodReady ==
  ASSUME NEW rule, Good(rule)
  PROVE  Ready(rule)
BY DEF Good, Tagged, Ready, TagRight, SentTag

(* A tag that is filled in counts (rules.go:93-100, conn_handler.go:496).  *)
LEMMA DefaultCounts ==
  ASSUME NEW rule
  PROVE  /\ DefaultTag(rule) # NoTag
         /\ rule.columns # <<>> => DefaultTag(rule).n = Len(rule.rows)
<1>1. /\ <<"SELECT">> # <<>> /\ <<"OK">> # <<>>
  OBVIOUS
<1> QED
  BY <1>1, TagSet, Zenon DEF DefaultTag

(* A registered rule, with the tag of its author or one that is filled in. *)
LEMMA OwnReady ==
  ASSUME Typed, Origin, NEW i \in DOMAIN rules
  PROVE  Ready(rules[i])
<1>1. PICK a, w : a = rules[i] /\ w = written[i]
  OBVIOUS
<1>2. a \in RuleType /\ w \in Authors /\ SameAnswer(a, w)
  BY <1>1, LenProperties, ElementOfSeq DEF Typed, Origin
<1>3. Shown(a)
  BY <1>2 DEF RuleType, Shown, IsSequence
<1>4. a.columns = w.columns /\ a.rows = w.rows /\ SentTag(a) = SentTag(w)
  BY <1>2 DEF SameAnswer
<1>5. CASE w.tag # NoTag
  <2>1. SentTag(w) = w.tag /\ w.tag \in OwnTags
    BY <1>2, <1>5, Zenon DEF SentTag, OwnTags, Authors
  <2>2. TagRight(a)
    BY <1>4, <1>5, <2>1, Zenon DEF TagRight
  <2> QED
    BY <1>1, <1>3, <2>2 DEF Ready
<1>6. CASE w.tag = NoTag
  <2>1. SentTag(w) = DefaultTag(w)
    BY <1>6, Zenon DEF SentTag
  <2>2. TagRight(a)
    BY <1>4, <2>1, DefaultCounts DEF TagRight
  <2> QED
    BY <1>1, <1>3, <2>2 DEF Ready
<1> QED
  BY <1>5, <1>6

(* The rows the store answers with are those of a table, or of the INSERT  *)
(* itself (state_store.go:179-191, 276-313, 371-420).                      *)
LEMMA StoreReady ==
  ASSUME DbTyped, NEW st, Executable(st)
  PROVE  Ready(StoreRule(st))
<1>1. ASSUME NEW name, NEW words, NEW n, words # <<>>
      PROVE  /\ Good(Done(name, words, n)) /\ Done(name, words, n).tag = Tag(words, n)
             /\ {"columns", "types", "rows"} \subseteq DOMAIN Done(name, words, n)
  <2>1. PICK d : d = Done(name, words, n)
    OBVIOUS
  <2>2. d.columns = <<>> /\ d.rows = <<>> /\ d.tag = Tag(words, n) /\ {"columns", "types", "rows"} \subseteq DOMAIN d
    BY <2>1 DEF Done, Rule
  <2>3. <<>> \in Seq(Seq(ValueType)) /\ IsSequence(<<>>)
    BY EmptySeq, EmptyLog
  <2>4. Tag(words, n) # NoTag
    BY <1>1, TagSet
  <2> QED
    BY <2>1, <2>2, <2>3, <2>4 DEF Good, Shown, Tagged
<1>2. ASSUME NEW rule, {"columns", "types", "rows"} \subseteq DOMAIN rule, rule.tag # NoTag,
             NEW cols \in Seq(Columns), NEW rows \in Seq(Seq(ValueType)), rule.tag.n \in {NoCount, Len(rows)}
      PROVE  Good(Shows(rule, cols, rows))
  <2>1. PICK s : s = Shows(rule, cols, rows)
    OBVIOUS
  <2>2. s.columns = cols /\ s.rows = rows /\ s.tag = rule.tag
    BY <1>2, <2>1 DEF Shows
  <2>3. IsSequence(cols)
    BY DEF IsSequence
  <2> QED
    BY <1>2, <2>1, <2>2, <2>3 DEF Good, Shown, Tagged
<1>3. \A n \in DOMAIN db : db[n].cols \in Seq(Columns) /\ db[n].rows \in Seq(Seq(ValueType))
  BY DEF DbTyped, TableTyped
<1>4. /\ <<"SELECT">> # <<>> /\ <<"INSERT", "0">> # <<>> /\ <<"CREATE", "TABLE">> # <<>> /\ <<"DROP", "TABLE">> # <<>>
      /\ <<"TRUNCATE", "TABLE">> # <<>> /\ <<"UPDATE">> # <<>> /\ <<"DELETE">> # <<>>
  OBVIOUS
<1>5. Good(InsertRule(st))
  <2>1. PICK done : done = Done("stateful-insert", <<"INSERT", "0">>, Len(st.rows))
    OBVIOUS
  <2>2. /\ Good(done) /\ done.tag # NoTag /\ done.tag.n = Len(st.rows)
        /\ {"columns", "types", "rows"} \subseteq DOMAIN done
    BY <1>1, <1>4, <2>1, TagSet
  <2>3. PICK cols : cols = IF st.table \in DOMAIN db THEN db[st.table].cols ELSE T!InsertColumns(st)
    OBVIOUS
  <2>4. cols \in Seq(Columns)
    <3>1. SP!InsertColumns(st) \in Seq(Columns)
      BY SP!InsertColumnsType, NullIsValue, GeneratedAssumption, Zenon DEF Executable
    <3>2. T!InsertColumns(st) = SP!InsertColumns(st)
      BY SameOperators
    <3> QED
      BY <1>3, <2>3, <3>1, <3>2, Zenon
  <2>5. st.rows \in Seq(Seq(ValueType))
    BY DEF Executable
  <2>6. Good(Shows(done, cols, st.rows))
    BY <1>2, <2>2, <2>4, <2>5
  <2>7. InsertRule(st) = IF st.form = "returning" THEN Shows(done, cols, st.rows) ELSE done
    BY <2>1, <2>3, Zenon DEF InsertRule
  <2> QED
    BY <2>2, <2>6, <2>7, Zenon
<1>6. ASSUME st.table \in DOMAIN db
      PROVE  Good(SelectRule(st))
  <2>1. PICK found : found = Found(st)
    OBVIOUS
  <2>2. found \in Seq(Seq(ValueType))
    <3>1. PICK t, I : t = db[st.table] /\ I = T!Hits(st.where, t.cols, t.rows)
      OBVIOUS
    <3>2. I \subseteq DOMAIN t.rows /\ t.rows \in Seq(Seq(ValueType))
      BY <1>3, <1>6, <3>1, SameOperators
    <3>3. T!Those(t.rows, I) \in Seq(Seq(ValueType))
      BY <3>2, SomeRows
    <3> QED
      BY <2>1, <3>1, <3>3, Zenon DEF Found
  <2>3. Good(CountsRows(Len(found)))
    <3>1. PICK c : c = CountsRows(Len(found))
      OBVIOUS
    <3>2. PICK d : d = Done("stateful-select-count", <<"SELECT">>, 1)
      OBVIOUS
    <3>3. d.tag = Tag(<<"SELECT">>, 1) /\ {"columns", "types", "rows"} \subseteq DOMAIN d
      BY <1>1, <1>4, <3>2
    <3>4. c.columns = <<"count">> /\ c.rows = <<<<Value("int", Len(found))>>>> /\ c.tag = Tag(<<"SELECT">>, 1)
      BY <3>1, <3>2, <3>3 DEF CountsRows
    <3>5. Value("int", Len(found)) \in ValueType
      <4>1. Len(found) \in Int
        BY <2>2, LenProperties
      <4>2. "int" \in Strings
        BY StringsAssumption
      <4> QED
        BY <4>1, <4>2 DEF Value, ValueType
    <3>6. c.rows \in Seq(Seq(ValueType)) /\ Len(c.rows) = 1
      <4>1. \A v \in ValueType : <<<<v>>>> \in Seq(Seq(ValueType)) /\ Len(<<<<v>>>>) = 1
        OBVIOUS
      <4> QED
        BY <3>4, <3>5, <4>1, Zenon
    <3>7. IsSequence(c.columns)
      <4>1. <<"count">> \in Seq({"count"})
        OBVIOUS
      <4> QED
        BY <3>4, <4>1 DEF IsSequence
    <3>8. c.tag # NoTag /\ c.tag.n = 1
      BY <1>4, <3>4, TagSet
    <3> QED
      BY <3>1, <3>6, <3>7, <3>8 DEF Good, Shown, Tagged
  <2>4. PICK cols : cols = IF st.cols = <<>> THEN db[st.table].cols ELSE st.cols
    OBVIOUS
  <2>5. PICK rows : rows = IF st.cols = <<>> THEN found
                           ELSE [i \in DOMAIN found |-> T!Projected(db[st.table].cols, st.cols, found[i])]
    OBVIOUS
  <2>6. cols \in Seq(Columns)
    BY <1>3, <1>6, <2>4, Zenon DEF Executable
  <2>7. rows \in Seq(Seq(ValueType))
    <3>1. ASSUME NEW row \in Seq(ValueType), NEW old
          PROVE  T!Projected(old, st.cols, row) \in Seq(ValueType)
      <4>1. \A j \in DOMAIN row : row[j] \in ValueType
        BY LenProperties, ElementOfSeq
      <4>2. st.cols \in Seq(Columns) /\ Len(st.cols) \in Nat
        BY LenProperties DEF Executable
      <4>3. T!Projected(old, st.cols, row) \in [1 .. Len(st.cols) -> ValueType]
        BY <4>1, NullIsValue, Zenon DEF T!Projected
      <4>4. \A n \in Nat : \A f : f \in [1 .. n -> ValueType] => f \in Seq(ValueType)
        BY SeqDef
      <4> QED
        BY <4>2, <4>3, <4>4, Zenon
    <3>2. \A i \in DOMAIN found : found[i] \in Seq(ValueType)
      BY <2>2, LenProperties, ElementOfSeq
    <3>3. [i \in DOMAIN found |-> T!Projected(db[st.table].cols, st.cols, found[i])] \in [DOMAIN found -> Seq(ValueType)]
      BY <3>1, <3>2
    <3>4. [i \in DOMAIN found |-> T!Projected(db[st.table].cols, st.cols, found[i])] \in Seq(Seq(ValueType))
      BY <2>2, <3>3, EachOf
    <3> QED
      BY <2>2, <2>5, <3>4, Zenon
  <2>8. Good(Shows(Done("stateful-select", <<"SELECT">>, Len(rows)), cols, rows))
    <3>1. PICK d : d = Done("stateful-select", <<"SELECT">>, Len(rows))
      OBVIOUS
    <3>2. d.tag # NoTag /\ d.tag.n = Len(rows) /\ {"columns", "types", "rows"} \subseteq DOMAIN d
      BY <1>1, <1>4, <3>1, TagSet
    <3>3. Good(Shows(d, cols, rows))
      BY <1>2, <2>6, <2>7, <3>2
    <3> QED
      BY <3>1, <3>3
  <2> QED
    BY <2>1, <2>3, <2>4, <2>5, <2>8, Zenon DEF SelectRule
<1>7. Ready(Missing)
  <2>1. PICK m : m = Missing
    OBVIOUS
  <2>2. m.columns = <<>> /\ m.rows = <<>> /\ m.tag = NoTag
    BY <2>1 DEF Missing, Rule
  <2>3. <<>> \in Seq(Seq(ValueType)) /\ IsSequence(<<>>)
    BY EmptySeq, EmptyLog
  <2>4. SentTag(m) # NoTag
    BY <2>2, DefaultCounts DEF SentTag
  <2> QED
    BY <2>1, <2>2, <2>3, <2>4 DEF Ready, Shown, TagRight
<1>8. \/ StoreRule(st) = Missing \/ StoreRule(st) = InsertRule(st)
      \/ st.table \in DOMAIN db /\ StoreRule(st) = SelectRule(st)
      \/ \E name, words, n : words # <<>> /\ StoreRule(st) = Done(name, words, n)
  <2>1. CASE st.op = "create"
    BY <1>4, <2>1, Zenon DEF StoreRule
  <2>2. CASE st.op = "drop"
    BY <1>4, <2>2, Zenon DEF StoreRule
  <2>3. CASE st.op = "truncate"
    BY <1>4, <2>3, Zenon DEF StoreRule
  <2>4. CASE st.op = "insert"
    BY <2>4 DEF StoreRule
  <2>5. CASE st.op = "select"
    BY <2>5 DEF StoreRule
  <2>6. CASE st.op = "update"
    BY <1>4, <2>6, Zenon DEF StoreRule
  <2>7. CASE st.op = "delete"
    BY <1>4, <2>7, Zenon DEF StoreRule
  <2> QED
    BY <2>1, <2>2, <2>3, <2>4, <2>5, <2>6, <2>7 DEF Executable, StoreOps
<1> QED
  BY <1>1, <1>5, <1>6, <1>7, <1>8, GoodReady

(* A copy of an answer, for the query it answers, can be sent as well.     *)
LEMMA CopyReady ==
  ASSUME NEW rule, Plain(rule), Ready(rule), NEW q
  PROVE  Ready([rule EXCEPT !.query = q])
<1>1. PICK new : new = [rule EXCEPT !.query = q]
  OBVIOUS
<1>2. new.columns = rule.columns /\ new.rows = rule.rows /\ new.tag = rule.tag
  BY <1>1, CopyPlain
<1>3. SentTag(new) = SentTag(rule)
  BY <1>2, Zenon DEF SentTag, DefaultTag
<1>4. Ready(new)
  BY <1>2, <1>3, Zenon DEF Ready, Shown, TagRight
<1> QED
  BY <1>1, <1>4

(* Whoever answers (Match, engine.go:155-202).                             *)
LEMMA AnswerReady ==
  ASSUME Typed, Origin, DbTyped, NEW q \in TextType, NEW params \in ParamsType
  PROVE  Ready(Answer(q, params))
<1>1. CASE RuleHits(q, params) # {}
  <2>1. RuleHits(q, params) \subseteq DOMAIN rules /\ DOMAIN rules \subseteq Nat
    BY LenProperties DEF RuleHits, Typed
  <2>2. First(RuleHits(q, params)) \in DOMAIN rules
    BY <1>1, <2>1, FirstOne
  <2>3. Answer(q, params) = rules[First(RuleHits(q, params))]
    BY <1>1 DEF Answer, Source
  <2> QED
    BY <2>2, <2>3, OwnReady
<1>2. CASE RuleHits(q, params) = {}
  <2>1. BuiltinHits(q) # {} => Ready(BuiltinRule(q))
    BY BuiltinGood, GoodReady
  <2>2. CatalogHits(q) # {} => Ready(CatalogRule(q))
    BY CatalogGood, GoodReady
  <2>3. q.words \in DOMAIN StatementOf => Ready(StoreAnswer(q, params))
    <3>1. q.words \in DOMAIN StatementOf => Ready(StoreRule(Statement(q, params)))
      BY StatementType, StoreReady
    <3> QED
      BY <3>1, StorePlain, CopyReady DEF StoreAnswer
  <2>4. Ready(DefaultRule(q))
    BY DefaultGood, GoodReady
  <2> QED
    BY <1>2, <2>1, <2>2, <2>3, <2>4 DEF Answer, Source
<1> QED
  BY <1>1, <1>2

-----------------------------------------------------------------------------
(* The reply: its cells decode and its tag counts.                         *)

TagCounts(r) ==
  r.kind = "done" => /\ r.tag # NoTag
                     /\ (r.fields # <<>> /\ r.tag \notin OwnTags /\ r.tag.n # NoCount => r.tag.n = Len(r.rows))

(* A message without rows.                                                 *)
LEMMA NoRows ==
  ASSUME NEW r, r.rows = <<>>, r.kind # "done"
  PROVE  Decodes(r) /\ TagCounts(r)
<1>1. DOMAIN r.rows = {}
  BY EmptyLog
<1> QED
  BY <1>1 DEF Decodes, TagCounts

(* An answer draws finitely many numbers of the sequence.                  *)
LEMMA CellsDrawn ==
  ASSUME NEW rule, Shown(rule), NEW D, D \subseteq SequenceCells(rule)
  PROVE  Cardinality(D) \in Nat
<1>1. PICK A : rule.columns \in Seq(A)
  BY DEF Shown, IsSequence
<1>2. PICK m \in Nat, n \in Nat : DOMAIN rule.rows = 1 .. m /\ DOMAIN rule.columns = 1 .. n
  BY <1>1, LenProperties DEF Shown
<1>3. IsFiniteSet((1 .. m) \X (1 .. n))
  <2>1. IsFiniteSet(1 .. m) /\ IsFiniteSet(1 .. n)
    BY FS_Interval
  <2> QED
    BY <2>1, FS_Product
<1>4. D \subseteq (1 .. m) \X (1 .. n)
  BY <1>2 DEF SequenceCells
<1> QED
  BY <1>3, <1>4, FS_Subset, FS_CardinalityType

(* A cell of the reply before it is encoded (RenderTemplate, template.go). *)
LEMMA TextsType ==
  ASSUME NEW rule, Shown(rule), NEW params \in ParamsType, NEW drawn \in Nat,
         NEW i \in DOMAIN rule.rows, NEW j \in DOMAIN rule.columns
  PROVE  Texts(rule, params, drawn)[i][j] \in ValueType
<1>1. Nil \in ValueType
  BY DEF ValueType
<1>2. ASSUME j \in DOMAIN rule.rows[i]
      PROVE  RenderTemplate(rule, i, j, params, drawn) \in ValueType
  <2>1. PICK v \in ValueType : v = rule.rows[i][j]
    <3>1. rule.rows[i] \in Seq(ValueType)
      BY LenProperties, ElementOfSeq DEF Shown
    <3> QED
      BY <1>2, <3>1, LenProperties, ElementOfSeq
  <2>2. PICK D : D = {c \in SequenceCells(rule) : c[1] < i \/ (c[1] = i /\ c[2] <= j)}
    OBVIOUS
  <2>3. Value("int", drawn + Cardinality(D)) \in ValueType
    <3>1. Cardinality(D) \in Nat
      BY <2>2, CellsDrawn
    <3>2. drawn + Cardinality(D) \in Int
      BY <3>1
    <3>3. "int" \in Strings
      BY StringsAssumption
    <3> QED
      BY <3>2, <3>3 DEF Value, ValueType
  <2>4. \A k \in DOMAIN params : params[k] \in ValueType
    BY LenProperties, ElementOfSeq DEF ParamsType
  <2>5. CASE v.kind = "param"
    <3>1. RenderTemplate(rule, i, j, params, drawn) = IF v.n \in DOMAIN params /\ params[v.n] # Nil THEN params[v.n] ELSE Null
      BY <2>1, <2>5 DEF RenderTemplate
    <3> QED
      BY <2>4, <3>1, NullIsValue, Zenon
  <2>6. CASE v.kind = "sequence"
    <3>1. RenderTemplate(rule, i, j, params, drawn) = Value("int", drawn + Cardinality(D))
      BY <2>1, <2>2, <2>6 DEF RenderTemplate
    <3> QED
      BY <2>3, <3>1
  <2>7. CASE v.kind \notin {"param", "sequence"}
    <3>1. RenderTemplate(rule, i, j, params, drawn) = v
      BY <2>1, <2>7 DEF RenderTemplate
    <3> QED
      BY <3>1
  <2> QED
    BY <2>5, <2>6, <2>7
<1>3. Texts(rule, params, drawn)[i][j] = IF j \notin DOMAIN rule.rows[i] \/ rule.rows[i][j] = Null THEN Nil
                                         ELSE RenderTemplate(rule, i, j, params, drawn)
  BY Zenon DEF Texts
<1> QED
  BY <1>1, <1>2, <1>3

(* executeRuleResponse (conn_handler.go:414-538).                          *)
LEMMA ReplyRight ==
  ASSUME NEW rule, Ready(rule), NEW params \in ParamsType, NEW formats, NEW drawn \in Nat
  PROVE  Decodes(Reply(rule, params, formats, drawn)) /\ TagCounts(Reply(rule, params, formats, drawn))
<1>1. Shown(rule) /\ TagRight(rule)
  BY DEF Ready
<1>2. PICK r : r = Reply(rule, params, formats, drawn)
  OBVIOUS
<1>3. CASE rule.error # ""
  <2>1. r.rows = <<>> /\ r.kind = "error"
    BY <1>2, <1>3 DEF Reply, Answered, Nothing
  <2> QED
    BY <1>2, <2>1, NoRows
<1>4. CASE rule.error = ""
  <2>1. PICK texts : texts = IF rule.columns = <<>> THEN <<>> ELSE Texts(rule, params, drawn)
    OBVIOUS
  <2>2. PICK fields : fields = SentFields(rule, formats)
    OBVIOUS
  <2>3. /\ r.kind = "done" /\ r.fields = fields /\ r.texts = texts /\ r.tag = SentTag(rule)
        /\ r.rows = [i \in DOMAIN texts |-> [j \in DOMAIN fields |->
                       Cell(fields[j].oid, FormatAt(formats, j), texts[i][j])]]
    BY <1>2, <1>4, <2>1, <2>2 DEF Reply
  <2>4. /\ DOMAIN fields = DOMAIN rule.columns
        /\ \A j \in DOMAIN fields : /\ fields[j].format = FormatAt(formats, j)
                                    /\ fields[j].size = DefaultTypeSize(fields[j].oid)
    BY <2>2 DEF SentFields, Field
  <2>5. \A j : FormatAt(formats, j) \in {0, 1}
    BY DEF FormatAt
  <2>6. \A i \in DOMAIN texts : \A j \in DOMAIN rule.columns : texts[i][j] \in ValueType
    <3>1. CASE rule.columns = <<>>
      BY <2>1, <3>1, EmptyLog
    <3>2. CASE rule.columns # <<>>
      <4>1. texts = Texts(rule, params, drawn) /\ DOMAIN texts = DOMAIN rule.rows
        BY <2>1, <3>2 DEF Texts
      <4> QED
        BY <1>1, <4>1, TextsType
    <3> QED
      BY <3>1, <3>2
  <2>7. Decodes(r)
    <3>1. ASSUME NEW i \in DOMAIN r.rows
          PROVE  DOMAIN r.rows[i] = DOMAIN r.fields
      BY <2>3
    <3>2. ASSUME NEW i \in DOMAIN r.rows, NEW j \in DOMAIN r.fields
          PROVE  CellGood(r.fields[j], r.rows[i][j], r.texts[i][j])
      <4>1. PICK f, v : f = fields[j] /\ v = texts[i][j]
        OBVIOUS
      <4>2. i \in DOMAIN texts /\ j \in DOMAIN fields
        BY <2>3, <3>2
      <4>3. /\ r.fields[j] = f /\ r.texts[i][j] = v /\ r.rows[i][j] = Cell(f.oid, f.format, v)
            /\ f.format \in {0, 1} /\ f.size = DefaultTypeSize(f.oid)
        BY <2>3, <2>4, <2>5, <4>1, <4>2
      <4>4. v \in ValueType
        BY <2>4, <2>6, <4>1, <4>2
      <4> QED
        BY <4>3, <4>4, CellDecodes, Zenon
    <3> QED
      BY <3>1, <3>2, Zenon DEF Decodes
  <2>8. fields # <<>> => rule.columns # <<>>
    <3> SUFFICES ASSUME rule.columns = <<>>
                 PROVE  fields = <<>>
      OBVIOUS
    <3>1. fields = [i \in {} |-> Field(rule, i, FormatAt(formats, i))]
      BY <2>2, EmptyLog DEF SentFields
    <3> QED
      BY <3>1
  <2>9. rule.columns # <<>> => Len(r.rows) = Len(rule.rows)
    <3> SUFFICES ASSUME rule.columns # <<>>
                 PROVE  Len(r.rows) = Len(rule.rows)
      OBVIOUS
    <3>1. DOMAIN texts = DOMAIN rule.rows
      BY <2>1 DEF Texts
    <3>2. PICK U : U = {[j \in DOMAIN fields |-> Cell(fields[j].oid, FormatAt(formats, j), texts[i][j])] : i \in DOMAIN texts}
      OBVIOUS
    <3>3. r.rows \in [DOMAIN rule.rows -> U]
      BY <2>3, <3>1, <3>2
    <3>4. rule.rows \in Seq(Seq(ValueType))
      BY <1>1 DEF Shown
    <3> QED
      BY <3>3, <3>4, EachLength
  <2>10. TagCounts(r)
    BY <1>1, <2>3, <2>8, <2>9 DEF TagCounts, TagRight
  <2> QED
    BY <1>2, <2>7, <2>10
<1> QED
  BY <1>3, <1>4

(* What the last message was, and the numbers drawn.                       *)
Replying == Decodes(reply) /\ TagCounts(reply) /\ sequence \in Nat

(* A query that is run, simple or through a portal, leaves a reply whose   *)
(* cells decode and whose tag counts its rows (conn_handler.go:433-543).   *)
LEMMA RunReplies ==
  ASSUME Typed, Origin, DbTyped, Replying, NEW q \in TextType, NEW params \in ParamsType, NEW formats,
         Run(q, params, formats)
  PROVE  Replying'
<1>1. PICK rule : rule = Answer(q, params)
  OBVIOUS
<1>2. /\ reply' = Reply(rule, params, formats, sequence) /\ world' = world
      /\ sequence' = sequence + Cardinality(SequenceCells(rule)) /\ sequence \in Nat
  BY <1>1 DEF Run, Match, Replying
<1>3. Ready(rule)
  BY <1>1, AnswerReady
<1>4. Decodes(reply') /\ TagCounts(reply')
  BY <1>2, <1>3, ReplyRight
<1>5. Cardinality(SequenceCells(rule)) \in Nat
  BY <1>3, CellsDrawn DEF Ready
<1>6. Decodes(reply)' /\ TagCounts(reply)'
  <2>1. OwnTags' = OwnTags
    BY <1>2 DEF OwnTags
  <2> QED
    BY <1>4, <2>1, Zenon DEF Decodes, TagCounts
<1> QED
  BY <1>2, <1>5, <1>6 DEF Replying

(* No step, of the session or of the admin API, leaves a reply of which    *)
(* this is not true.                                                       *)
LEMMA NextReplying == IInv /\ Origin /\ DbTyped /\ Replying /\ [Next]_vars => Replying'
<1> SUFFICES ASSUME IInv, Origin, DbTyped, Replying, [Next]_vars
             PROVE  Replying'
  OBVIOUS
<1>1. /\ world.texts \subseteq TextType /\ portal.params \in ParamsType /\ <<>> \in ParamsType
      /\ portal.text \in TextType /\ Typed
  BY PortalTyped DEF IInv, Started, World
<1>2. ASSUME UNCHANGED <<reply, sequence, world>>
      PROVE  Replying'
  BY <1>2, Zenon DEF Replying, Decodes, TagCounts, OwnTags
<1>3. ASSUME reply'.rows = <<>>, reply'.kind # "done", UNCHANGED sequence
      PROVE  Replying'
  <2>1. DOMAIN reply'.rows = {}
    BY <1>3, EmptyLog
  <2>2. Decodes(reply)'
    BY <2>1 DEF Decodes
  <2>3. TagCounts(reply)'
    BY <1>3 DEF TagCounts
  <2> QED
    BY <1>3, <2>2, <2>3 DEF Replying
<1>4. \A kind : Answered(kind).rows = <<>> /\ Answered(kind).kind = kind
  BY DEF Answered, Nothing
<1>5. ASSUME NEW q \in world.texts, SimpleQuery(q)
      PROVE  Replying'
  <2>1. CASE reply' = Answered("empty") /\ UNCHANGED sequence
    <3>1. reply'.rows = <<>> /\ reply'.kind # "done"
      BY <1>4, <2>1
    <3> QED
      BY <1>3, <2>1, <3>1
  <2>2. CASE Run(q, <<>>, <<>>)
    BY <1>1, <2>2, RunReplies
  <2> QED
    BY <1>5, <2>1, <2>2 DEF SimpleQuery
<1>6. ASSUME NEW p, Bind(p)
      PROVE  Replying'
  <2>1. reply' = Answered("bound") /\ UNCHANGED sequence
    BY <1>6 DEF Bind
  <2>2. reply'.rows = <<>> /\ reply'.kind # "done"
    BY <1>4, <2>1
  <2> QED
    BY <1>3, <2>1, <2>2
<1>7. ASSUME NEW target, Describe(target)
      PROVE  Replying'
  <2>1. /\ UNCHANGED sequence
        /\ reply' = Answered("nodata") \/ \E fields : reply' = [Answered("fields") EXCEPT !.fields = fields]
    BY <1>7, Zenon DEF Describe
  <2>2. \A fields : /\ [Answered("fields") EXCEPT !.fields = fields].rows = <<>>
                    /\ [Answered("fields") EXCEPT !.fields = fields].kind = "fields"
    BY DEF Answered, Nothing
  <2>3. reply'.rows = <<>> /\ reply'.kind # "done"
    BY <1>4, <2>1, <2>2
  <2> QED
    BY <1>3, <2>1, <2>3
<1>8. CASE Execute
  BY <1>1, <1>8, RunReplies DEF Execute
<1>9. ASSUME NEW rule, PostRule(rule)
      PROVE  Replying'
  BY <1>2, <1>9 DEF PostRule, Operation
<1>10. ASSUME NEW id, DeleteRule(id)
      PROVE  Replying'
  BY <1>2, <1>10 DEF DeleteRule, Operation
<1>11. CASE Reset
  BY <1>2, <1>11 DEF Reset, Operation
<1>12. CASE UNCHANGED vars
  BY <1>2, <1>12 DEF vars
<1> QED
  BY <1>5, <1>6, <1>7, <1>8, <1>9, <1>10, <1>11, <1>12 DEF Next, Rest

-----------------------------------------------------------------------------
(* The bounds, and the whole invariant.                                    *)

Bounded == world \in Worlds /\ calls \in 0 .. MaxCalls /\ ops \in 0 .. MaxOps /\ Len(heard) <= calls

AInv == IInv /\ Origin /\ DbTyped /\ Replying /\ Bounded

(* The whole invariant holds at the start.                                 *)
LEMMA InitAInv == Init => AInv
<1> SUFFICES ASSUME Init
             PROVE  AInv
  OBVIOUS
<1>1. DbTyped
  BY DEF Init, DbTyped
<1>2. Replying
  <2>1. reply.rows = <<>> /\ reply.kind # "done" /\ sequence = 0
    BY DEF Init, Nothing
  <2> QED
    BY <2>1, NoRows DEF Replying
<1>3. Bounded
  BY BoundsAssumption, EmptyLog DEF Init, Bounded
<1> QED
  BY <1>1, <1>2, <1>3, InitIInv, InitOrigin DEF AInv

(* No more calls are logged than there were.                               *)
LEMMA NextBounded == IInv /\ Bounded /\ [Next]_vars => Bounded'
<1> SUFFICES ASSUME IInv, Bounded, [Next]_vars
             PROVE  Bounded'
  OBVIOUS
<1>1. /\ world.calls \in 0 .. MaxCalls /\ world.ops \in 0 .. MaxOps /\ MaxCalls \in Nat /\ MaxOps \in Nat
      /\ IsSequence(heard) /\ Len(heard) \in Nat /\ Len(heard) <= calls /\ world \in Worlds
      /\ calls \in 0 .. MaxCalls /\ ops \in 0 .. MaxOps
  BY BoundsAssumption, Longer DEF IInv, Started, Logging, World, Bounded
<1>2. ASSUME UNCHANGED <<world, calls, ops, heard>>
      PROVE  Bounded'
  BY <1>2 DEF Bounded
<1>3. ASSUME NEW q, NEW params, Match(q, params)
      PROVE  Bounded'
  <2>1. PICK call : heard' = Append(heard, call)
    BY <1>3 DEF Match
  <2>2. world' = world /\ ops' = ops /\ calls' = calls + 1 /\ calls < world.calls
    BY <1>3 DEF Match
  <2>3. Len(heard') = Len(heard) + 1
    BY <1>1, <2>1, Longer
  <2> QED
    BY <1>1, <2>2, <2>3 DEF Bounded
<1>4. ASSUME UNCHANGED <<world, calls, heard>>, ops < world.ops, ops' = ops + 1
      PROVE  Bounded'
  BY <1>1, <1>4 DEF Bounded
<1>5. ASSUME NEW q, SimpleQuery(q)
      PROVE  Bounded'
  BY <1>2, <1>3, <1>5 DEF SimpleQuery, Run
<1>6. ASSUME NEW p, Bind(p)
      PROVE  Bounded'
  BY <1>4, <1>6 DEF Bind
<1>7. ASSUME NEW target, Describe(target)
      PROVE  Bounded'
  BY <1>2, <1>3, <1>7 DEF Describe
<1>8. CASE Execute
  BY <1>3, <1>8 DEF Execute, Run
<1>9. ASSUME NEW rule, PostRule(rule)
      PROVE  Bounded'
  BY <1>4, <1>9 DEF PostRule, Operation
<1>10. ASSUME NEW id, DeleteRule(id)
      PROVE  Bounded'
  BY <1>4, <1>10 DEF DeleteRule, Operation
<1>11. CASE Reset
  <2>1. /\ world' = world /\ calls' = calls /\ ops' = ops + 1 /\ ops < world.ops
        /\ Len(heard') = 0
    BY <1>11, EmptyLog DEF Reset, Operation
  <2> QED
    BY <1>1, <2>1 DEF Bounded
<1>12. CASE UNCHANGED vars
  BY <1>2, <1>12 DEF vars
<1> QED
  BY <1>5, <1>6, <1>7, <1>8, <1>9, <1>10, <1>11, <1>12 DEF Next, Rest

(* NULL is written out in the log (engine.go:88-95).                       *)
LEMMA LoggedNoNil ==
  ASSUME NEW params \in ParamsType
  PROVE  Nil \notin ToSet(Logged(params))
<1>1. Null # Nil
  <2>1. "NULL" \in Strings
    BY StringsAssumption
  <2>2. \A kind \in Strings : Value(kind, 0) # Nil
    BY NilAssumption DEF Value
  <2> QED
    BY <2>1, <2>2, Zenon DEF Null
<1> QED
  BY <1>1 DEF Logged, ToSet

(* The invariant gives the types of all variables.                         *)
LEMMA AInvTypes == AInv => TypeOK
<1> SUFFICES ASSUME AInv
             PROVE  TypeOK
  OBVIOUS
<1>1. /\ world \in Worlds /\ calls \in 0 .. MaxCalls /\ ops \in 0 .. MaxOps /\ sequence \in Nat
      /\ Len(written) = Len(rules) /\ Len(logs) = Len(heard) /\ Len(heard) <= calls
      /\ rules \in Seq(RuleType) /\ \A i \in DOMAIN rules : rules[i].id # NoId
  BY DEF AInv, IInv, Bounded, Replying, Origin, Logging, Typed
<1>2. ASSUME NEW i \in DOMAIN logs
      PROVE  logs[i].query = heard[i].query /\ Nil \notin ToSet(logs[i].params)
  <2>1. DOMAIN logs = DOMAIN heard
    BY Longer DEF AInv, IInv, Logging
  <2>2. Faithful(logs[i], heard[i])
    BY <2>1 DEF AInv, IInv, Logging
  <2> QED
    BY <2>2, LoggedNoNil DEF Faithful
<1>3. \A n \in DOMAIN db : \A i \in DOMAIN db[n].rows : Len(db[n].rows[i]) = Len(db[n].cols)
  BY DEF AInv, DbTyped, TableTyped
<1> QED
  BY <1>1, <1>2, <1>3 DEF TypeOK

(* The invariant holds in every run.                                       *)
LEMMA AlwaysAInv == Spec => []AInv
<1>1. AInv /\ [Next]_vars => AInv'
  BY NextIInv, NextOrigin, NextDbTyped, NextReplying, NextBounded DEF AInv
<1> QED
  BY InitAInv, <1>1, PTL DEF Spec

-----------------------------------------------------------------------------
(* The theorems.                                                           *)

(* A log like this has what an assertion about a rule's answer asks for.   *)
LEMMA LoggedIsFound == IInv => AnsweredIsAssertable
<1> SUFFICES ASSUME IInv, NEW i \in DOMAIN heard, Same(heard[i].rule.query, heard[i].query)
             PROVE  LET rule == heard[i].rule
                    IN  Passes(logs, [query |-> rule.query, count |-> {}, min |-> {1},
                                      exact |-> IF AnyText \in ToSet(rule.params) THEN <<>> ELSE rule.params])
  BY DEF AnsweredIsAssertable
<1> DEFINE rule == heard[i].rule
           exact == IF AnyText \in ToSet(rule.params) THEN <<>> ELSE rule.params
           found == Counted(logs, rule.query)
<1>1. /\ Faithful(logs[i], heard[i])
      /\ DOMAIN logs = 1 .. Len(logs) /\ Len(logs) \in Nat /\ i \in DOMAIN logs
  BY Longer DEF IInv, Logging
<1>2. i \in found
  <2>1. NormalizeSQL(rule.query) = NormalizeSQL(logs[i].query)
    BY <1>1 DEF Faithful, Same
  <2>2. Within(NormalizeSQL(logs[i].query), NormalizeSQL(logs[i].query))
    BY <1>1, NormalizeType, WithinItself DEF Faithful
  <2> QED
    BY <1>1, <2>1, <2>2 DEF Counted
<1>3. Cardinality(found) >= 1
  <2>1. IsFiniteSet(found)
    <3>1. found \subseteq 1 .. Len(logs)
      BY <1>1 DEF Counted
    <3>2. IsFiniteSet(1 .. Len(logs))
      BY <1>1, FS_Interval
    <3> HIDE DEF found
    <3> QED
      BY <3>1, <3>2, FS_Subset
  <2> QED
    BY <1>2, <2>1, FS_EmptySet, FS_CardinalityType
<1>4. ASSUME exact # <<>>
      PROVE  logs[i].params = exact
  <2>1. AnyText \notin ToSet(rule.params) /\ exact = rule.params
    BY <1>4
  <2>2. /\ rule.params \in ParamsType /\ heard[i].params \in ParamsType
        /\ ParamsFit(rule.params, heard[i].params) /\ logs[i].params = Logged(heard[i].params)
    BY <1>1 DEF Faithful
  <2> QED
    BY <1>4, <2>1, <2>2, FitIsLogged
<1> HIDE DEF exact
<1>5. Passes(logs, [query |-> rule.query, count |-> {}, min |-> {1}, exact |-> exact])
  BY <1>2, <1>3, <1>4 DEF Passes
<1> QED
  BY <1>5 DEF exact

-----------------------------------------------------------------------------
(* Which answers an admin request changes.                                 *)

(* The first is the one no other comes before.                             *)
LEMMA FirstIs ==
  ASSUME NEW S, S \subseteq Nat, NEW i \in S, \A j \in S : i <= j
  PROVE  First(S) = i
<1>1. First(S) \in S /\ First(S) <= i /\ i <= First(S)
  BY FirstOne
<1>2. First(S) \in Nat /\ i \in Nat
  BY <1>1
<1> QED
  BY <1>1, <1>2

(* The store's answer depends on the tables alone.                         *)
LEMMA StoreRuleKept ==
  ASSUME NEW st, db' = db
  PROVE  StoreRule(st)' = StoreRule(st)
<1>1. Found(st)' = Found(st)
  BY DEF Found
<1>2. InsertRule(st)' = InsertRule(st)
  BY DEF InsertRule
<1>3. SelectRule(st)' = SelectRule(st)
  BY <1>1 DEF SelectRule
<1> QED
  BY <1>1, <1>2, <1>3 DEF StoreRule

(* A call is answered as before if the first rule that matches, if one     *)
(* does, is the one that was (engine.go:160-202).                          *)
LEMMA AnswerKept ==
  ASSUME NEW q, NEW params, UNCHANGED <<db, world>>,
         RuleHits(q, params)' = {} <=> RuleHits(q, params) = {},
         RuleHits(q, params) # {} => rules'[First(RuleHits(q, params)')] = rules[First(RuleHits(q, params))]
  PROVE  Answer(q, params)' = Answer(q, params)
<1>1. Source(q, params)' = Source(q, params)
  BY DEF Source
<1>2. StoreAnswer(q, params)' = StoreAnswer(q, params)
  BY StoreRuleKept DEF StoreAnswer
<1>3. Source(q, params) = "rule" <=> RuleHits(q, params) # {}
  BY DEF Source
<1>4. Source(q, params) \in {"rule", "builtin", "store", "catalog", "nobody"}
  BY DEF Source
<1>5. CASE Source(q, params) = "rule"
  <2>1. Answer(q, params) = rules[First(RuleHits(q, params))]
    BY <1>5 DEF Answer
  <2>2. Answer(q, params)' = rules'[First(RuleHits(q, params)')]
    BY <1>1, <1>5 DEF Answer
  <2> QED
    BY <1>3, <1>5, <2>1, <2>2
<1>6. CASE Source(q, params) = "store"
  <2>1. Answer(q, params) = StoreAnswer(q, params)
    BY <1>6 DEF Answer
  <2>2. Answer(q, params)' = StoreAnswer(q, params)'
    BY <1>1, <1>6 DEF Answer
  <2> QED
    BY <1>2, <2>1, <2>2
<1>7. CASE Source(q, params) \in {"builtin", "catalog", "nobody"}
  BY <1>1, <1>7 DEF Answer
<1> QED
  BY <1>4, <1>5, <1>6, <1>7

(* A posted rule goes before all others (api.go:180, engine.go:71).        *)
LEMMA PostedAnswers ==
  ASSUME rules \in Seq(RuleType), NEW new \in RuleType, rules' = <<new>> \o rules, UNCHANGED <<db, world>>,
         NEW q, NEW params
  PROVE  /\ rules'[1] = new
         /\ Answer(q, params)' = IF Matches(new, q, params) THEN new ELSE Answer(q, params)
<1>1. /\ Len(rules) \in Nat /\ DOMAIN rules = 1 .. Len(rules) /\ DOMAIN rules' = 1 .. Len(rules) + 1
      /\ rules'[1] = new /\ \A i \in 2 .. Len(rules) + 1 : rules'[i] = rules[i - 1]
  OBVIOUS
<1>2. PICK old, now : old = RuleHits(q, params) /\ now = RuleHits(q, params)'
  OBVIOUS
<1>3. /\ old = {i \in DOMAIN rules : Matches(rules[i], q, params)}
      /\ now = {i \in DOMAIN rules' : Matches(rules'[i], q, params)}
  BY <1>2 DEF RuleHits
<1>4. old \subseteq 1 .. Len(rules) /\ now \subseteq 1 .. Len(rules) + 1
  BY <1>1, <1>3
<1>5. \A i \in 1 .. Len(rules) : i + 1 \in now <=> i \in old
  BY <1>1, <1>3
<1>6. 1 \in now <=> Matches(new, q, params)
  BY <1>1, <1>3
<1>7. CASE Matches(new, q, params)
  <2>1. First(now) = 1
    <3>1. now \subseteq Nat /\ 1 \in now /\ \A j \in now : 1 <= j
      BY <1>1, <1>4, <1>6, <1>7
    <3> QED
      BY <3>1, FirstIs
  <2>2. Source(q, params)' = "rule"
    BY <1>2, <1>6, <1>7 DEF Source
  <2>3. Answer(q, params)' = rules'[First(now)]
    BY <1>2, <2>2 DEF Answer
  <2> QED
    BY <1>1, <1>7, <2>1, <2>3
<1>8. CASE ~Matches(new, q, params)
  <2>1. now = {} <=> old = {}
    <3>1. \A i \in now : i - 1 \in 1 .. Len(rules) /\ i - 1 + 1 = i
      BY <1>1, <1>4, <1>6, <1>8
    <3>2. \A i \in old : i \in 1 .. Len(rules)
      BY <1>4
    <3> QED
      BY <1>5, <3>1, <3>2
  <2>2. ASSUME old # {}
        PROVE  rules'[First(now)] = rules[First(old)]
    <3>1. First(old) \in old /\ \A j \in old : First(old) <= j
      <4>1. old \subseteq Nat
        BY <1>1, <1>4
      <4> QED
        BY <2>2, <4>1, FirstOne
    <3>2. First(old) \in 1 .. Len(rules) /\ First(old) + 1 \in now
      BY <1>4, <1>5, <3>1
    <3>3. \A j \in now : First(old) + 1 <= j
      <4> SUFFICES ASSUME NEW j \in now
                   PROVE  First(old) + 1 <= j
        OBVIOUS
      <4>1. j - 1 \in 1 .. Len(rules) /\ j - 1 + 1 = j
        BY <1>1, <1>4, <1>6, <1>8
      <4>2. First(old) <= j - 1
        BY <1>5, <3>1, <4>1
      <4> QED
        BY <3>2, <4>1, <4>2
    <3>4. First(now) = First(old) + 1
      <4>1. now \subseteq Nat
        BY <1>1, <1>4
      <4> QED
        BY <3>2, <3>3, <4>1, FirstIs
    <3> QED
      BY <1>1, <3>2, <3>4
  <2>3. Answer(q, params)' = Answer(q, params)
    BY <1>2, <2>1, <2>2, AnswerKept
  <2> QED
    BY <1>1, <1>8, <2>3
<1> QED
  BY <1>7, <1>8

(* A deleted rule uncovers what it hid, and nothing else (engine.go:80).   *)
LEMMA DeletedAnswers ==
  ASSUME rules \in Seq(RuleType), NEW k \in DOMAIN rules, rules' = RemoveAt(rules, k), UNCHANGED <<db, world>>,
         NEW q, NEW params
  PROVE  \/ Answer(q, params)' = Answer(q, params)
         \/ Source(q, params) = "rule" /\ First(RuleHits(q, params)) = k
<1> SUFFICES ASSUME ~(RuleHits(q, params) # {} /\ First(RuleHits(q, params)) = k)
             PROVE  Answer(q, params)' = Answer(q, params)
  BY DEF Source
<1> DEFINE At(i) == IF i < k THEN i ELSE i + 1
<1>1. /\ Len(rules) \in Nat /\ DOMAIN rules = 1 .. Len(rules) /\ k \in 1 .. Len(rules)
      /\ DOMAIN rules' = 1 .. Len(rules) - 1
      /\ \A i \in 1 .. Len(rules) - 1 : rules'[i] = rules[At(i)]
  <2>1. Len(rules) \in Nat /\ DOMAIN rules = 1 .. Len(rules) /\ k \in 1 .. Len(rules)
    BY LenProperties
  <2> QED
    BY <2>1, RemovedOne
<1>2. PICK old, now : old = RuleHits(q, params) /\ now = RuleHits(q, params)'
  OBVIOUS
<1>3. /\ old = {i \in DOMAIN rules : Matches(rules[i], q, params)}
      /\ now = {i \in DOMAIN rules' : Matches(rules'[i], q, params)}
  BY <1>2 DEF RuleHits
<1>4. old \subseteq 1 .. Len(rules) /\ now \subseteq 1 .. Len(rules) - 1
  BY <1>1, <1>3
<1>5. \A i \in 1 .. Len(rules) - 1 : At(i) \in 1 .. Len(rules) /\ (i \in now <=> At(i) \in old)
  <2>1. \A i \in 1 .. Len(rules) - 1 : At(i) \in 1 .. Len(rules)
    BY <1>1
  <2> HIDE DEF At
  <2> QED
    BY <1>1, <1>3, <2>1, Zenon
<1>6. \A i \in now : i \in 1 .. Len(rules) - 1 /\ At(i) \in old
  BY <1>4, <1>5
<1>7. CASE old = {}
  <2>1. now = {}
    BY <1>6, <1>7
  <2> QED
    BY <1>2, <1>7, <2>1, AnswerKept
<1>8. CASE old # {}
  <2>1. PICK f : f = First(old)
    OBVIOUS
  <2>2. f \in old /\ f \in 1 .. Len(rules) /\ f # k /\ \A j \in old : f <= j
    <3>1. old \subseteq Nat
      BY <1>1, <1>4
    <3> QED
      BY <1>2, <1>4, <1>8, <2>1, <3>1, FirstOne
  <2>3. PICK g : g = IF f < k THEN f ELSE f - 1
    OBVIOUS
  <2>4. g \in 1 .. Len(rules) - 1 /\ At(g) = f
    BY <1>1, <2>2, <2>3
  <2>5. g \in now
    BY <1>5, <2>2, <2>4
  <2>6. \A j \in now : g <= j
    <3> SUFFICES ASSUME NEW j \in now
                 PROVE  g <= j
      OBVIOUS
    <3>1. j \in 1 .. Len(rules) - 1 /\ f <= At(j)
      BY <1>6, <2>2
    <3> QED
      BY <1>1, <2>2, <2>3, <3>1
  <2>7. First(now) = g
    <3>1. now \subseteq Nat
      BY <1>1, <1>4
    <3> QED
      BY <2>5, <2>6, <3>1, FirstIs
  <2>8. rules'[First(now)] = rules[First(old)]
    <3>1. rules'[g] = rules[At(g)]
      BY <1>1, <2>4
    <3> HIDE DEF At
    <3> QED
      BY <2>1, <2>4, <2>7, <3>1
  <2> QED
    BY <1>2, <1>8, <2>5, <2>8, AnswerKept
<1> QED
  BY <1>7, <1>8

-----------------------------------------------------------------------------
(* What a Describe announces, and what the Execute after it sends.         *)

(* The columns of an answer and their types; those of a statement of the   *)
(* store and of a call without parameters, from rules and tables alone.    *)
HeadOf(rule)   == [columns |-> rule.columns, types |-> rule.types]
TextHead(cols) == [columns |-> cols, types |-> TextTypes(cols)]

StoreHead(d, st) ==
  IF st.op = "select" /\ st.table \in DOMAIN d
  THEN IF st.form = "count" THEN [columns |-> <<"count">>, types |-> <<OIDInt8>>]
       ELSE TextHead(IF st.cols = <<>> THEN d[st.table].cols ELSE st.cols)
  ELSE IF st.op = "insert" /\ st.form = "returning"
  THEN TextHead(IF st.table \in DOMAIN d THEN d[st.table].cols ELSE T!InsertColumns(st))
  ELSE [columns |-> <<>>, types |-> <<>>]

HitsIn(list, q) == {i \in DOMAIN list : Matches(list[i], q, <<>>)}
HeadFrom(list, d, q) ==
  IF HitsIn(list, q) # {} THEN HeadOf(list[First(HitsIn(list, q))])
  ELSE IF BuiltinHits(q) # {} THEN HeadOf(BuiltinRule(q))
  ELSE IF world.stateful /\ q.words \in DOMAIN StatementOf THEN StoreHead(d, Statement(q, <<>>))
  ELSE IF CatalogHits(q) # {} THEN HeadOf(CatalogRule(q)) ELSE HeadOf(DefaultRule(q))

(* The fields of an answer depend on no more than that.                    *)
LEMMA HeadFields ==
  ASSUME NEW rule, NEW formats, NEW head, head = HeadOf(rule)
  PROVE  /\ DescribedFields(rule, formats) = DescribedFields(head, formats)
         /\ SentFields(rule, formats) = DescribedFields(head, formats)
<1>1. head.columns = rule.columns /\ head.types = rule.types
  BY DEF HeadOf
<1>2. \A i \in DOMAIN rule.columns : Field(rule, i, FormatAt(formats, i)) = Field(head, i, FormatAt(formats, i))
  BY <1>1, Zenon DEF Field, OidAt
<1> QED
  BY <1>1, <1>2, Zenon DEF DescribedFields, SentFields

(* The store's answer has the columns that statement and tables give it    *)
(* (state_store.go:179-191, 272-283).                                      *)
LEMMA StoreAnswerHead ==
  ASSUME NEW st, st.op \in StoreOps
  PROVE  HeadOf(StoreRule(st)) = StoreHead(db, st)
<1>1. \A name, words, n : HeadOf(Done(name, words, n)) = [columns |-> <<>>, types |-> <<>>]
  BY DEF HeadOf, Done, Rule
<1>2. \A name, words, n, cols, rows : HeadOf(Shows(Done(name, words, n), cols, rows)) = TextHead(cols)
  BY DEF HeadOf, TextHead, Shows, Done, Rule
<1>3. HeadOf(Missing) = [columns |-> <<>>, types |-> <<>>]
  BY DEF HeadOf, Missing, Rule
<1>4. \A n : HeadOf(CountsRows(n)) = [columns |-> <<"count">>, types |-> <<OIDInt8>>]
  BY DEF HeadOf, CountsRows, Done, Rule
<1>5. CASE st.op \in {"select", "update", "delete"} /\ st.table \notin DOMAIN db
  <2>1. StoreRule(st) = Missing
    BY <1>5 DEF StoreRule
  <2> QED
    BY <1>3, <1>5, <2>1 DEF StoreHead
<1>6. CASE st.op = "select" /\ st.table \in DOMAIN db
  <2>1. StoreRule(st) = SelectRule(st)
    BY <1>6 DEF StoreRule
  <2>2. CASE st.form = "count"
    BY <1>4, <1>6, <2>1, <2>2, Zenon DEF SelectRule, StoreHead
  <2>3. CASE st.form # "count"
    <3>1. PICK cols : cols = IF st.cols = <<>> THEN db[st.table].cols ELSE st.cols
      OBVIOUS
    <3>2. \E n, rows : SelectRule(st) = Shows(Done("stateful-select", <<"SELECT">>, n), cols, rows)
      BY <2>3, <3>1, Zenon DEF SelectRule
    <3>3. StoreHead(db, st) = TextHead(cols)
      BY <1>6, <2>3, <3>1 DEF StoreHead
    <3> QED
      BY <1>2, <2>1, <3>2, <3>3, Zenon
  <2> QED
    BY <2>2, <2>3
<1>7. CASE st.op = "insert"
  <2>1. StoreRule(st) = InsertRule(st)
    BY <1>7 DEF StoreRule
  <2>2. CASE st.form = "returning"
    <3>1. PICK cols : cols = IF st.table \in DOMAIN db THEN db[st.table].cols ELSE T!InsertColumns(st)
      OBVIOUS
    <3>2. \E n : InsertRule(st) = Shows(Done("stateful-insert", <<"INSERT", "0">>, n), cols, st.rows)
      BY <2>2, <3>1, Zenon DEF InsertRule
    <3>3. StoreHead(db, st) = TextHead(cols)
      BY <1>7, <2>2, <3>1 DEF StoreHead
    <3> QED
      BY <1>2, <2>1, <3>2, <3>3, Zenon
  <2>3. CASE st.form # "returning"
    <3>1. StoreHead(db, st) = [columns |-> <<>>, types |-> <<>>]
      BY <1>7, <2>3 DEF StoreHead
    <3> QED
      BY <1>1, <2>1, <2>3, <3>1, Zenon DEF InsertRule
  <2> QED
    BY <2>2, <2>3
<1>8. CASE st.op \in {"create", "drop", "truncate"} \/ (st.op \in {"update", "delete"} /\ st.table \in DOMAIN db)
  <2>1. \E name, words, n : StoreRule(st) = Done(name, words, n)
    BY <1>8 DEF StoreRule
  <2>2. StoreHead(db, st) = [columns |-> <<>>, types |-> <<>>]
    BY <1>8 DEF StoreHead
  <2> QED
    BY <1>1, <2>1, <2>2
<1> QED
  BY <1>5, <1>6, <1>7, <1>8 DEF StoreOps

(* Parameters do not change it.                                            *)
LEMMA ParamsNoHead ==
  ASSUME NEW q, q.words \in DOMAIN StatementOf, NEW params \in ParamsType, NEW d
  PROVE  StoreHead(d, Statement(q, params)) = StoreHead(d, Statement(q, <<>>))
<1> SUFFICES ASSUME NEW a, a = Statement(q, params), NEW b, b = Statement(q, <<>>),
                    NEW old, old = StatementOf[q.words]
             PROVE  StoreHead(d, a) = StoreHead(d, b)
  OBVIOUS
<1>1. /\ a.op = old.op /\ a.table = old.table /\ a.cols = old.cols /\ a.form = old.form
      /\ a.rows = <<>> <=> old.rows = <<>>
      /\ old.rows # <<>> => Len(Head(a.rows)) = Len(Head(old.rows))
  BY StatementParts
<1>2. /\ b.op = old.op /\ b.table = old.table /\ b.cols = old.cols /\ b.form = old.form
      /\ b.rows = <<>> <=> old.rows = <<>>
      /\ old.rows # <<>> => Len(Head(b.rows)) = Len(Head(old.rows))
  BY PortalTyped, StatementParts
<1>3. T!InsertColumns(a) = T!InsertColumns(b)
  BY <1>1, <1>2, Zenon DEF T!InsertColumns
<1> QED
  BY <1>1, <1>2, <1>3, Zenon DEF StoreHead

(* The columns of an answer are those of the rules and tables there are,   *)
(* the parameters notwithstanding if they do not decide which rule it is   *)
(* (Match, engine.go:155-202).                                             *)
LEMMA AnswerHead ==
  ASSUME NEW q, NEW params \in ParamsType, RuleHits(q, params) = RuleHits(q, <<>>)
  PROVE  HeadOf(Answer(q, params)) = HeadFrom(rules, db, q)
<1>1. HitsIn(rules, q) = RuleHits(q, params)
  BY DEF HitsIn, RuleHits
<1>2. CASE Source(q, params) = "rule"
  <2>1. RuleHits(q, params) # {}
    BY <1>2 DEF Source
  <2>2. Answer(q, params) = rules[First(RuleHits(q, params))]
    BY <1>2 DEF Answer
  <2> QED
    BY <1>1, <2>1, <2>2, Zenon DEF HeadFrom
<1>3. CASE Source(q, params) = "builtin"
  <2>1. RuleHits(q, params) = {} /\ BuiltinHits(q) # {}
    BY <1>3 DEF Source
  <2>2. Answer(q, params) = BuiltinRule(q)
    BY <1>3 DEF Answer
  <2> QED
    BY <1>1, <2>1, <2>2, Zenon DEF HeadFrom
<1>4. CASE Source(q, params) = "store"
  <2>1. /\ RuleHits(q, params) = {} /\ BuiltinHits(q) = {}
        /\ world.stateful /\ q.words \in DOMAIN StatementOf
    BY <1>4 DEF Source
  <2>2. HeadOf(Answer(q, params)) = HeadOf(StoreRule(Statement(q, params)))
    <3>1. Answer(q, params) = StoreAnswer(q, params)
      BY <1>4 DEF Answer
    <3>2. Plain(StoreRule(Statement(q, params)))
      BY <2>1, StorePlain
    <3>3. PICK rule : rule = StoreRule(Statement(q, params))
      OBVIOUS
    <3>4. Answer(q, params) = [rule EXCEPT !.query = q]
      BY <3>1, <3>3 DEF StoreAnswer
    <3>5. Answer(q, params).columns = rule.columns /\ Answer(q, params).types = rule.types
      BY <3>2, <3>3, <3>4, CopyPlain
    <3> QED
      BY <3>3, <3>5 DEF HeadOf
  <2>3. HeadFrom(rules, db, q) = StoreHead(db, Statement(q, <<>>))
    BY <1>1, <2>1, Zenon DEF HeadFrom
  <2>4. Statement(q, params).op \in StoreOps
    BY <2>1, StatementsAssumption DEF Statement
  <2> QED
    BY <2>1, <2>2, <2>3, <2>4, ParamsNoHead, StoreAnswerHead, Zenon
<1>5. CASE Source(q, params) = "catalog"
  <2>1. /\ RuleHits(q, params) = {} /\ BuiltinHits(q) = {} /\ CatalogHits(q) # {}
        /\ ~(world.stateful /\ q.words \in DOMAIN StatementOf)
    BY <1>5 DEF Source
  <2>2. Answer(q, params) = CatalogRule(q)
    BY <1>5 DEF Answer
  <2> QED
    BY <1>1, <2>1, <2>2, Zenon DEF HeadFrom
<1>6. CASE Source(q, params) = "nobody"
  <2>1. /\ RuleHits(q, params) = {} /\ BuiltinHits(q) = {} /\ CatalogHits(q) = {}
        /\ ~(world.stateful /\ q.words \in DOMAIN StatementOf)
    BY <1>6 DEF Source
  <2>2. Answer(q, params) = DefaultRule(q)
    BY <1>6 DEF Answer
  <2> QED
    BY <1>1, <2>1, <2>2, Zenon DEF HeadFrom
<1>7. Source(q, params) \in {"rule", "builtin", "store", "catalog", "nobody"}
  BY DEF Source
<1> QED
  BY <1>2, <1>3, <1>4, <1>5, <1>6, <1>7

(* A Describe runs its statement, but its answer would have the same       *)
(* columns again: an INSERT into an unknown table creates it with the      *)
(* columns it showed, one into a known table leaves its columns            *)
(* (state_store.go:232-283).                                               *)
LEMMA HeadStays ==
  ASSUME DbTyped, NEW st, Executable(st), MatchAndExecute(st)
  PROVE  StoreHead(db', st) = StoreHead(db, st)
<1>1. CASE st.op = "insert"
  <2>1. T!Insert(st)
    BY <1>1 DEF MatchAndExecute, Changes, T!Create, T!Drop, T!Truncate, T!Update, T!Delete
  <2>2. PICK old : old = IF st.table \in DOMAIN db THEN db[st.table] ELSE [cols |-> T!InsertColumns(st), rows |-> <<>>]
    OBVIOUS
  <2>3. PICK rows : T!Put(st.table, [old EXCEPT !.rows = rows])
    BY <2>1, <2>2, Zenon DEF T!Insert
  <2>4. db' = [m \in DOMAIN db \cup {st.table} |-> IF m = st.table THEN [old EXCEPT !.rows = rows] ELSE db[m]]
    BY <2>3 DEF T!Put
  <2>5. "cols" \in DOMAIN old
    BY <2>2 DEF DbTyped, TableTyped
  <2>6. [old EXCEPT !.rows = rows].cols = old.cols
    BY <2>5
  <2>7. st.table \in DOMAIN db' /\ db'[st.table].cols = old.cols
    BY <2>4, <2>6
  <2>8. old.cols = IF st.table \in DOMAIN db THEN db[st.table].cols ELSE T!InsertColumns(st)
    BY <2>2
  <2> QED
    BY <1>1, <2>7, <2>8 DEF StoreHead
<1>2. CASE st.op = "select"
  <2>1. db' = db
    BY <1>2 DEF MatchAndExecute, T!Create, T!Drop, T!Truncate, T!Insert, T!Update, T!Delete
  <2> QED
    BY <2>1
<1>3. CASE st.op \notin {"insert", "select"}
  BY <1>3 DEF StoreHead
<1> QED
  BY <1>1, <1>2, <1>3

(* What was announced is what rules and tables as they were then say.      *)
Announced ==
  described.on /\ portal.text # Text(<<>>) =>
    described.fields = DescribedFields(HeadFrom(described.rules, described.db, portal.text), portal.formats)

(* A Describe makes it so, a Bind has nothing announced, and no other step *)
(* touches portal or announcement.                                         *)
LEMMA NextAnnounced == IInv /\ DbTyped /\ Announced /\ [Next]_vars => Announced'
<1> SUFFICES ASSUME IInv, DbTyped, Announced, [Next]_vars
             PROVE  Announced'
  OBVIOUS
<1>1. ASSUME UNCHANGED <<described, portal, world>>
      PROVE  Announced'
  BY <1>1, Zenon DEF Announced, HeadFrom, HitsIn
<1>2. ASSUME ~described'.on
      PROVE  Announced'
  BY <1>2 DEF Announced
<1>3. ASSUME NEW target, Describe(target)
      PROVE  Announced'
  <2> SUFFICES ASSUME target = "P", portal.text # Text(<<>>)
               PROVE  Announced'
    <3>1. portal' = portal
      BY <1>3 DEF Describe
    <3>2. CASE portal.text = Text(<<>>)
      BY <3>1, <3>2 DEF Announced
    <3>3. CASE target # "P"
      <4>1. described' = described
        BY <1>3, <3>3 DEF Describe
      <4>2. world' = world
        BY <1>3 DEF Describe, Match
      <4> QED
        BY <1>1, <3>1, <4>1, <4>2
    <3> QED
      BY <3>2, <3>3
  <2>1. PICK q, formats : q = portal.text /\ formats = portal.formats
    OBVIOUS
  <2>2. /\ Match(q, <<>>) /\ portal' = portal
        /\ described' = [on |-> TRUE, fields |-> DescribedFields(Answer(q, <<>>), formats), rules |-> rules, db |-> db']
    BY <1>3, <2>1 DEF Describe
  <2>3. described'.fields = DescribedFields(Answer(q, <<>>), formats) /\ described'.rules = rules /\ described'.db = db'
    BY <2>2
  <2>4. <<>> \in ParamsType
    BY PortalTyped
  <2>5. DescribedFields(Answer(q, <<>>), formats) = DescribedFields(HeadFrom(rules, db, q), formats)
    BY <2>4, AnswerHead, HeadFields
  <2>6. HeadFrom(rules, db', q) = HeadFrom(rules, db, q)
    <3>1. CASE Source(q, <<>>) = "store"
      <4>1. q.words \in DOMAIN StatementOf /\ MatchAndExecute(Statement(q, <<>>))
        BY <2>2, <3>1 DEF Match, Source
      <4>2. StoreHead(db', Statement(q, <<>>)) = StoreHead(db, Statement(q, <<>>))
        BY <2>4, <4>1, StatementType, HeadStays
      <4> QED
        BY <4>2, Zenon DEF HeadFrom
    <3>2. CASE Source(q, <<>>) # "store"
      BY <2>2, <3>2 DEF Match
    <3> QED
      BY <3>1, <3>2
  <2>7. HeadFrom(described.rules, described.db, portal.text)' = HeadFrom(rules, db', q)
    <3>1. world' = world
      BY <2>2 DEF Match
    <3> QED
      BY <2>1, <2>2, <2>3, <3>1 DEF HeadFrom
  <2> QED
    BY <2>1, <2>2, <2>3, <2>5, <2>6, <2>7 DEF Announced
<1>4. ASSUME NEW q, NEW params, Match(q, params)
      PROVE  world' = world
  BY <1>4 DEF Match
<1>5. ASSUME NEW q, SimpleQuery(q)
      PROVE  Announced'
  BY <1>1, <1>4, <1>5 DEF SimpleQuery, Run
<1>6. ASSUME NEW p, Bind(p)
      PROVE  Announced'
  BY <1>2, <1>6 DEF Bind, NotDescribed
<1>7. CASE Execute
  BY <1>1, <1>4, <1>7 DEF Execute, Run
<1>8. ASSUME NEW rule, PostRule(rule)
      PROVE  Announced'
  BY <1>1, <1>8 DEF PostRule, Operation
<1>9. ASSUME NEW id, DeleteRule(id)
      PROVE  Announced'
  BY <1>1, <1>9 DEF DeleteRule, Operation
<1>10. CASE Reset
  BY <1>1, <1>10 DEF Reset, Operation
<1>11. CASE UNCHANGED vars
  BY <1>1, <1>11 DEF vars
<1> QED
  BY <1>3, <1>5, <1>6, <1>7, <1>8, <1>9, <1>10, <1>11 DEF Next, Rest

(* Whatever the rules, texts and statements are, and however often rules   *)
(* change: a call that a rule answered because its text is the rule's is   *)
(* found by an assertion on the rule's text and parameters (matcher.go:    *)
(* 15-76, engine.go:104-112, api.go:223-253).                              *)
THEOREM Assertable == Spec => []AnsweredIsAssertable
<1>1. Init => IInv
  BY InitIInv
<1>2. IInv /\ [Next]_vars => IInv'
  BY NextIInv
<1>3. IInv => AnsweredIsAssertable
  BY LoggedIsFound
<1> QED
  BY <1>1, <1>2, <1>3, PTL DEF Spec

(* Whatever the rules, texts, statements and bounds are: the rules in use  *)
(* have the type of a rule and an id, the log has an entry for each call   *)
(* since it was cleared, without NULLs, tables' rows are as wide as the    *)
(* tables, and the sequence counts (engine.go:155-202, rules.go:77-101,    *)
(* state_store.go:232-420).                                                *)
THEOREM AnswersTypes == Spec => []TypeOK
BY AlwaysAInv, AInvTypes, PTL

(* Whichever way a rule came in, by the rules file, POST /api/rules or a   *)
(* tape, it is answered with what its author wrote and the handler's       *)
(* defaults (rules.go:77-101, api.go:158-178, recorder.go:120-130,         *)
(* conn_handler.go:470-537).                                               *)
THEOREM SourceIsNoMatter == Spec => []SameWhateverSource
<1>1. AInv => SameWhateverSource
  BY SameReply DEF AInv, Origin, SameWhateverSource
<1> QED
  BY AlwaysAInv, <1>1, PTL

(* Every cell, whoever made the answer, is NULL, its text, or in the binary*)
(* form announced for its column the bytes a driver reads the text back    *)
(* from; what is not a number of a number's type is sent as its text       *)
(* (conn_handler.go:473-526, binary.go:17-124, messages.go:76-91).         *)
THEOREM ValuesArrive == Spec => []ValuesDecode
<1>1. AInv => ValuesDecode
  BY Zenon DEF AInv, Replying, Decodes, CellGood, ValuesDecode
<1> QED
  BY AlwaysAInv, <1>1, PTL

(* A command tag counts the rows that were sent, unless a rule's author    *)
(* wrote it (conn_handler.go:496-538, engine.go:204-316, catalog.go,       *)
(* state_store.go:179-191, 276-283).                                       *)
THEOREM TagsCount == Spec => []TagCountsRows
<1>1. AInv => TagCountsRows
  BY DEF AInv, Replying, TagCounts, TagCountsRows
<1> QED
  BY AlwaysAInv, <1>1, PTL

(* A posted rule answers all it matches and changes no other answer; a     *)
(* deletion removes one rule and changes the answers that rule gave alone, *)
(* for any rules, equal ones included (api.go:151-198, engine.go:67-85).   *)
THEOREM OthersStay == Spec => OnlyOwnAnswersChange
<1>1. IInv /\ [Next]_vars => [PostedOnly /\ DeletedOnly]_vars
  <2> SUFFICES ASSUME IInv, Next
               PROVE  PostedOnly /\ DeletedOnly
    OBVIOUS
  <2>1. /\ rules \in Seq(RuleType) /\ Len(rules) \in Nat /\ world.posts \subseteq RuleType /\ ops \in Nat
    BY DEF IInv, Started, Typed, World
  <2>2. CASE rules' = rules
    BY <2>1, <2>2 DEF PostedOnly, DeletedOnly
  <2>3. ASSUME NEW rule \in world.posts, PostRule(rule)
        PROVE  PostedOnly /\ DeletedOnly
    <3>1. PICK new : new = Dynamic(rule, ops)
      OBVIOUS
    <3>2. rules' = <<new>> \o rules /\ UNCHANGED <<db, world>>
      BY <2>3, <3>1 DEF PostRule, Operation
    <3>3. new \in RuleType
      <4>1. Id("rule-dyn", ops) \in [name : Strings, n : Nat]
        BY <2>1, StringsAssumption DEF Id
      <4> QED
        BY <2>1, <3>1, <4>1, DefaultsType DEF Dynamic
    <3>4. Len(rules') = Len(rules) + 1
      BY <2>1, <3>2, <3>3
    <3>5. PostedOnly
      BY <2>1, <3>2, <3>3, PostedAnswers DEF PostedOnly
    <3>6. DeletedOnly
      BY <2>1, <3>4 DEF DeletedOnly
    <3> QED
      BY <3>5, <3>6
  <2>4. ASSUME NEW id, DeleteRule(id)
        PROVE  PostedOnly /\ DeletedOnly
    <3>1. PICK k \in DOMAIN rules : rules' = RemoveAt(rules, k)
      BY <2>4 DEF DeleteRule
    <3>2. UNCHANGED <<db, world>>
      BY <2>4 DEF DeleteRule, Operation
    <3>3. Len(rules') = Len(rules) - 1
      <4>1. k \in 1 .. Len(rules)
        BY <2>1, LenProperties
      <4> QED
        BY <2>1, <3>1, <4>1, RemovedOne
    <3>4. PostedOnly
      BY <2>1, <3>3 DEF PostedOnly
    <3>5. \A a \in Asked : \/ Answer(a.text, a.params)' = Answer(a.text, a.params)
                           \/ /\ Source(a.text, a.params) = "rule"
                              /\ First(RuleHits(a.text, a.params)) = k
      BY <2>1, <3>1, <3>2, DeletedAnswers
    <3> QED
      BY <3>1, <3>4, <3>5 DEF DeletedOnly
  <2>5. ASSUME NEW q, NEW params, Match(q, params)
        PROVE  rules' = rules
    BY <2>5 DEF Match
  <2>6. ASSUME NEW q, SimpleQuery(q)
        PROVE  rules' = rules
    BY <2>5, <2>6 DEF SimpleQuery, Run
  <2>7. ASSUME NEW target, Describe(target)
        PROVE  rules' = rules
    BY <2>5, <2>7 DEF Describe
  <2>8. CASE Execute
    BY <2>2, <2>5, <2>8 DEF Execute, Run
  <2>9. ASSUME NEW p, Bind(p)
        PROVE  rules' = rules
    BY <2>9 DEF Bind
  <2>10. Reset \/ Rest => rules' = rules
    BY DEF Reset, Rest, vars
  <2> QED
    BY <2>2, <2>3, <2>4, <2>6, <2>7, <2>8, <2>9, <2>10 DEF Next
<1>2. Init => IInv
  BY InitIInv
<1>3. IInv /\ [Next]_vars => IInv'
  BY NextIInv
<1> QED
  BY <1>1, <1>2, <1>3, PTL DEF Spec, OnlyOwnAnswersChange

(* An Execute sends the fields the Describe of its portal announced, if the*)
(* rules and tables are the same, no rule is about the parameters and the  *)
(* text is not empty, for any rules, statements, columns, types and formats*)
(* (conn_handler.go:341-377, 414-494).                                     *)
THEOREM DescribedIsTrue == Spec => DescribedIsSent
<1>1. AInv /\ Announced /\ [Next]_vars => [SendsDescribed]_vars
  <2> SUFFICES ASSUME IInv, Announced, reply'.kind = "done", Execute,
                      described.on, described.rules = rules, described.db = db, portal.text # Text(<<>>),
                      RuleHits(portal.text, portal.params) = RuleHits(portal.text, <<>>)
               PROVE  reply'.fields = described.fields
    BY DEF AInv, SendsDescribed
  <2>1. PICK q, params, formats : q = portal.text /\ params = portal.params /\ formats = portal.formats
    OBVIOUS
  <2>2. params \in ParamsType
    BY <2>1, PortalTyped DEF IInv, Started
  <2>3. PICK rule : rule = Answer(q, params)
    OBVIOUS
  <2>4. reply' = Reply(rule, params, formats, sequence)
    BY <2>1, <2>3, Zenon DEF Execute, Run
  <2>5. reply'.fields = SentFields(rule, formats)
    <3>1. rule.error = ""
      BY <2>4 DEF Reply, Answered, Nothing
    <3> QED
      BY <2>4, <3>1 DEF Reply
  <2>6. HeadOf(rule) = HeadFrom(rules, db, q)
    BY <2>1, <2>2, <2>3, AnswerHead
  <2>7. SentFields(rule, formats) = DescribedFields(HeadFrom(rules, db, q), formats)
    BY <2>6, HeadFields
  <2>8. described.fields = DescribedFields(HeadFrom(rules, db, q), formats)
    BY <2>1 DEF Announced
  <2> QED
    BY <2>5, <2>7, <2>8
<1>2. Init => Announced
  BY DEF Init, NotDescribed, Announced
<1>3. AInv /\ Announced /\ [Next]_vars => Announced'
  BY NextAnnounced DEF AInv
<1> QED
  BY <1>1, <1>2, <1>3, AlwaysAInv, PTL DEF Spec, DescribedIsSent
=============================================================================
