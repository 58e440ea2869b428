------------------------------ MODULE Answers ------------------------------
(***************************************************************************)
(* What a query is answered with, from the text to the bytes: the engine's *)
(* dispatch (Match, mock/engine.go) among the registered rules, the        *)
(* built-in answers, the stateful store, the catalog and the fallback;     *)
(* Describe and Execute of conn_handler.go, which go through it separately;*)
(* and the admin API (admin/api.go), which changes the rules and counts    *)
(* what the log says of the calls.                                         *)
(*                                                                         *)
(* One session, whose steps are not interrupted: Engine, Faults, Session   *)
(* and Store have the interleavings.  The store is Tables.                 *)
(***************************************************************************)
EXTENDS Canned

CONSTANTS
  Worlds,       \* the ways to start and use the server, see World
  StatementOf,  \* the words of a text that is a statement of the store -> the statement
  Columns, Generated, NoWhere,  \* see Statement
  MaxCalls,     \* bound: calls of Match
  MaxOps        \* bound: rules posted and deleted, portals bound, resets

ASSUME BoundsAssumption == MaxCalls \in Nat /\ MaxOps \in Nat

(* stateful, source: how the server is started ("file" or "tape"), with the*)
(* rules as written there; a tape has no errors.  posts: the rules that may*)
(* be posted.  texts: the simple queries, portals: what is bound.  calls,  *)
(* ops: bounds.                                                            *)
PortalType == [text : TextType, params : ParamsType, formats : Seq({0, 1})]
World == [stateful : BOOLEAN, source : {"file", "tape"}, rules : Seq(RuleType), posts : SUBSET RuleType,
          texts : SUBSET TextType, portals : SUBSET PortalType, calls : 0 .. MaxCalls, ops : 0 .. MaxOps]
ASSUME WorldsAssumption ==
  /\ Worlds \subseteq World
  /\ \A w \in Worlds : w.source = "tape" => \A i \in DOMAIN w.rules : w.rules[i].error = ""

StoreOps == {"create", "drop", "truncate", "insert", "select", "update", "delete"}
ASSUME StatementsAssumption ==
  \A w \in DOMAIN StatementOf :
    /\ DOMAIN StatementOf[w] = {"op", "table", "cols", "rows", "where", "set", "form"}
    /\ StatementOf[w].op \in StoreOps
    /\ StatementOf[w].cols \in Seq(Columns) /\ StatementOf[w].rows \in Seq(Seq(ValueType))
    /\ DOMAIN StatementOf[w].set \subseteq Columns /\ ToSet(StatementOf[w].set) \subseteq ValueType
    /\ StatementOf[w].cols = <<>> /\ StatementOf[w].rows # <<>> => Len(Head(StatementOf[w].rows)) <= Len(Generated)
ASSUME GeneratedAssumption == Generated \in Seq(Columns)

VARIABLES
  world,      \* which of Worlds
  rules,      \* Engine.rules
  written,    \* history: written[i]: rules[i] as its author wrote it
  db,         \* the tables of Engine.stateStore
  logs,       \* Engine.logs
  heard,      \* history: the calls of Match behind logs
  sequence,   \* globalSequence
  portal,     \* the portal: its text, parameters and result formats
  described,  \* history: what the last Describe of the portal announced
  reply,      \* what the last message was answered with
  calls, ops

vars == <<world, rules, written, db, logs, heard, sequence, portal, described, reply, calls, ops>>

T == INSTANCE Tables WITH NullText <- Null, Values <- ValueType, Statements <- {}

Portal(q, params, formats) == [text |-> q, params |-> params, formats |-> formats]
NoPortal     == Portal(Text(<<>>), <<>>, <<>>)  \* the unnamed portal, never bound
NotDescribed == [on |-> FALSE, fields |-> <<>>, rules |-> <<>>, db |-> <<>>]

Init ==
  /\ world \in Worlds
  /\ written = world.rules
  /\ rules = IF world.source = "tape" THEN ConvertTapeToRules(written) ELSE LoadRulesFile(written)
  /\ db = [n \in {} |-> <<>>]
  /\ logs = <<>> /\ heard = <<>> /\ sequence = 0
  /\ portal = NoPortal /\ described = NotDescribed /\ reply = Nothing
  /\ calls = 0 /\ ops = 0

-----------------------------------------------------------------------------
(* The store's answer to a statement.                                      *)

(* $n is the parameter, or stands for itself if there is none.             *)
Bound(v, params) ==
  IF v.kind = "dollar" /\ v.n \in DOMAIN params THEN (IF params[v.n] = Nil THEN Null ELSE params[v.n]) ELSE v

Statement(q, params) ==
  LET st == StatementOf[q.words]
  IN  [st EXCEPT !.rows = [i \in DOMAIN @ |-> [j \in DOMAIN @[i] |-> Bound(@[i][j], params)]],
                 !.set = [c \in DOMAIN @ |-> Bound(@[c], params)],
                 !.where = IF @ = NoWhere THEN NoWhere ELSE [@ EXCEPT !.val = Bound(@, params)]]

Found(st) == LET t == db[st.table] IN T!Those(t.rows, T!Hits(st.where, t.cols, t.rows))

TextTypes(cols) == [i \in DOMAIN cols |-> OIDText]

(* The rules MatchAndExecute builds.                                       *)
Done(name, words, n)  == [Rule EXCEPT !.id = Id(name, 0), !.tag = Tag(words, n)]
Shows(rule, cols, rows) == [rule EXCEPT !.columns = cols, !.types = TextTypes(cols), !.rows = rows]
Missing               == [Rule EXCEPT !.id = Id("stateful-table-missing", 0), !.error = "42P01"]
CountsRows(n)         == [Done("stateful-select-count", <<"SELECT">>, 1) EXCEPT
                            !.columns = <<"count">>, !.types = <<OIDInt8>>, !.rows = <<<<Value("int", n)>>>>]

InsertRule(st) ==
  LET cols == IF st.table \in DOMAIN db THEN db[st.table].cols ELSE T!InsertColumns(st)
      done == Done("stateful-insert", <<"INSERT", "0">>, Len(st.rows))
  IN  IF st.form = "returning" THEN Shows(done, cols, st.rows) ELSE done

(* A SELECT of all columns, of some, or of their count.                    *)
SelectRule(st) ==
  LET cols == IF st.cols = <<>> THEN db[st.table].cols ELSE st.cols
      rows == IF st.cols = <<>> THEN Found(st)
              ELSE [i \in DOMAIN Found(st) |-> T!Projected(db[st.table].cols, st.cols, Found(st)[i])]
  IN  IF st.form = "count" THEN CountsRows(Len(Found(st)))
      ELSE Shows(Done("stateful-select", <<"SELECT">>, Len(rows)), cols, rows)

StoreRule(st) ==
  IF st.op \in {"select", "update", "delete"} /\ st.table \notin DOMAIN db THEN Missing
  ELSE CASE st.op = "create"   -> Done("stateful-create-table", <<"CREATE", "TABLE">>, NoCount)
         [] st.op = "drop"     -> Done("stateful-drop-table", <<"DROP", "TABLE">>, NoCount)
         [] st.op = "truncate" -> Done("stateful-truncate-table", <<"TRUNCATE", "TABLE">>, NoCount)
         [] st.op = "insert"   -> InsertRule(st)
         [] st.op = "select"   -> SelectRule(st)
         [] st.op = "update"   -> Done("stateful-update", <<"UPDATE">>, Len(Found(st)))
         [] st.op = "delete"   -> Done("stateful-delete", <<"DELETE">>, Len(Found(st)))

StoreAnswer(q, params) == [StoreRule(Statement(q, params)) EXCEPT !.query = q]

(* A SELECT, and a statement about a table that is not there, change none. *)
Changes(st) ==
  \/ st.op \in {"create", "drop", "insert"}
  \/ st.op \in {"truncate", "update", "delete"} /\ st.table \in DOMAIN db

MatchAndExecute(st) ==
  \/ T!Create(st) \/ T!Drop(st) \/ T!Truncate(st) \/ T!Insert(st) \/ T!Update(st) \/ T!Delete(st)
  \/ ~Changes(st) /\ UNCHANGED db

-----------------------------------------------------------------------------
(* Match.                                                                  *)

RuleHits(q, params) == {i \in DOMAIN rules : Matches(rules[i], q, params)}

(* Who answers: a rule, a built-in answer, the store, the catalog, nobody. *)
Source(q, params) ==
  IF RuleHits(q, params) # {} THEN "rule"
  ELSE IF BuiltinHits(q) # {} THEN "builtin"
  ELSE IF world.stateful /\ q.words \in DOMAIN StatementOf THEN "store"
  ELSE IF CatalogHits(q) # {} THEN "catalog" ELSE "nobody"

Answer(q, params) ==
  CASE Source(q, params) = "rule"    -> rules[First(RuleHits(q, params))]
    [] Source(q, params) = "builtin" -> BuiltinRule(q)
    [] Source(q, params) = "store"   -> StoreAnswer(q, params)
    [] Source(q, params) = "catalog" -> CatalogRule(q)
    [] Source(q, params) = "nobody"  -> DefaultRule(q)

LoggedId(q, params) == IF Source(q, params) = "builtin" THEN Id("builtin-system", 0) ELSE Answer(q, params).id

(* The call is logged, and the store runs the statement it answers.        *)
Match(q, params) ==
  /\ calls < world.calls
  /\ calls' = calls + 1
  /\ logs' = Append(logs, [query |-> q, params |-> Logged(params), rule |-> LoggedId(q, params)])
  /\ heard' = Append(heard, [query |-> q, params |-> params, rule |-> Answer(q, params)])
  /\ IF Source(q, params) = "store" THEN MatchAndExecute(Statement(q, params)) ELSE UNCHANGED db
  /\ UNCHANGED <<world, rules, written, ops>>

(* The answer is rendered, encoded and sent.                               *)
Run(q, params, formats) ==
  /\ Match(q, params)
  /\ reply' = Reply(Answer(q, params), params, formats, sequence)
  /\ sequence' = sequence + Cardinality(SequenceCells(Answer(q, params)))
  /\ UNCHANGED <<portal, described>>

-----------------------------------------------------------------------------
(* The session.                                                            *)

IsEmpty(q) == q.words = <<>> /\ ~q.wild

SimpleQuery(q) ==
  \/ /\ IsEmpty(q) /\ q.semis <= 1
     /\ reply' = Answered("empty")
     /\ UNCHANGED <<world, rules, written, db, logs, heard, sequence, portal, described, calls, ops>>
  \/ ~(IsEmpty(q) /\ q.semis <= 1) /\ Run(q, <<>>, <<>>)

(* A Parse of the unnamed statement, and a Bind of it.                     *)
Bind(p) ==
  /\ ops < world.ops
  /\ ops' = ops + 1
  /\ portal' = p
  /\ described' = NotDescribed
  /\ reply' = Answered("bound")
  /\ UNCHANGED <<world, rules, written, db, logs, heard, sequence, calls>>

(* Of the portal, or of its statement, whose formats are not known yet.    *)
(* Match is called without the parameters.                                 *)
Describe(target) ==
  LET q      == portal.text
      fields == IF q = Text(<<>>) THEN <<>>
                ELSE DescribedFields(Answer(q, <<>>), IF target = "P" THEN portal.formats ELSE <<>>)
  IN  /\ \/ q = Text(<<>>) /\ UNCHANGED <<world, rules, written, db, logs, heard, calls, ops>>
         \/ q # Text(<<>>) /\ Match(q, <<>>)
      /\ reply' = IF fields = <<>> THEN Answered("nodata") ELSE [Answered("fields") EXCEPT !.fields = fields]
      /\ described' = IF target = "P" THEN [on |-> TRUE, fields |-> fields, rules |-> rules, db |-> db']
                      ELSE described
      /\ UNCHANGED <<sequence, portal>>

Execute == Run(portal.text, portal.params, portal.formats)

-----------------------------------------------------------------------------
(* The admin API.                                                          *)

Operation ==
  /\ ops < world.ops
  /\ ops' = ops + 1
  /\ UNCHANGED <<world, db, sequence, portal, described, reply, calls>>

AppendRule(rule) ==  \* mutant: AddRule instead of PrependRule
  /\ Operation
  /\ rules' = Append(rules, Dynamic(rule, ops)) /\ written' = Append(written, rule)
  /\ UNCHANGED <<logs, heard>>

PostRule(rule) ==
  /\ Operation
  /\ rules' = <<Dynamic(rule, ops)>> \o rules /\ written' = <<rule>> \o written
  /\ UNCHANGED <<logs, heard>>

DeleteRule(id) ==
  /\ Operation
  /\ \E i \in DOMAIN rules :
       /\ rules[i].id = id /\ \A j \in 1 .. (i - 1) : rules[j].id # id
       /\ rules' = RemoveAt(rules, i) /\ written' = RemoveAt(written, i)
  /\ UNCHANGED <<logs, heard>>

Reset ==
  /\ Operation
  /\ logs' = <<>> /\ heard' = <<>>
  /\ UNCHANGED <<rules, written>>

-----------------------------------------------------------------------------
(* The bounds are reached.                                                 *)
Rest == calls = world.calls /\ ops = world.ops /\ UNCHANGED vars

Next ==
  \/ \E q \in world.texts : SimpleQuery(q)
  \/ \E p \in world.portals : Bind(p)
  \/ \E target \in {"S", "P"} : Describe(target)
  \/ Execute
  \/ \E rule \in world.posts : PostRule(rule)
  \/ \E i \in DOMAIN rules : DeleteRule(rules[i].id)
  \/ Reset
  \/ Rest

Spec == Init /\ [][Next]_vars

-----------------------------------------------------------------------------
(* Properties.                                                             *)

(* Invariant: rules and log entries are what they should be; the log has an*)
(* entry for each call since it was cleared and no more, under the id of   *)
(* what answered (engine.go:155-202).                                      *)
TypeOK ==
  /\ world \in Worlds /\ calls \in 0 .. MaxCalls /\ ops \in 0 .. MaxOps /\ sequence \in Nat
  /\ Len(written) = Len(rules) /\ Len(logs) = Len(heard) /\ Len(heard) <= calls
  /\ rules \in Seq(RuleType) /\ \A i \in DOMAIN rules : rules[i].id # NoId
  /\ \A i \in DOMAIN logs : logs[i].query = heard[i].query /\ Nil \notin ToSet(logs[i].params)
  /\ \A n \in DOMAIN db : \A i \in DOMAIN db[n].rows : Len(db[n].rows[i]) = Len(db[n].cols)

(* Invariant: whichever way a rule came in, by the rules file, POST        *)
(* /api/rules or a tape, it is answered with what its author wrote and the *)
(* defaults of the handler (rules.go:77-101, api.go:158-178,               *)
(* recorder.go:120-130, conn_handler.go:470-537).                          *)
SameWhateverSource ==
  \A i \in DOMAIN rules :
    Reply(rules[i], portal.params, portal.formats, sequence)
      = Reply(written[i], portal.params, portal.formats, sequence)

Integral == {OIDInt2, OIDInt4, OIDInt8}
Floating == {OIDFloat4, OIDFloat8}

(* What a driver reads from the bytes of a type it asked for in binary.    *)
Signed(size, n) == IF n < Half[size] THEN n ELSE n - 2 * Half[size]
Halved(n)       == IF n % 2 = 0 THEN Value("int", n \div 2) ELSE Value("half", n)
Decode(oid, cell) ==
  CASE oid \in Integral /\ cell.size = DefaultTypeSize(oid) -> Value("int", Signed(cell.size, cell.v.n))
    [] oid \in Floating /\ cell.size = DefaultTypeSize(oid) -> Halved(cell.v.n)
    [] OTHER -> cell.v

(* The texts that are a value of the type, for floats one so small that    *)
(* they have it exactly; of every other type, all are.                     *)
IsLiteral(oid, v) ==
  LET size == DefaultTypeSize(oid)
  IN  CASE oid = OIDBool -> v.kind = "bool" /\ v.n \in {0, 1}
        [] oid \in Integral -> v.kind = "int" /\ v.n \in -Half[size] .. (Half[size] - 1)
        [] oid \in Floating -> IsNumber(v) /\ Halves(v) \in (1 - Exact[size]) .. (Exact[size] - 1)
        [] oid = OIDDate -> v.kind = "date" /\ v.n \in -MaxDays .. MaxDays
        [] oid \in OIDStamps -> v.kind = "stamp" /\ v.n \in -MaxDays .. MaxDays
        [] OTHER -> TRUE

(* A float that has not the number is near it; all else stays a text.      *)
IsNoNumber(oid, v) == (oid \in Integral /\ ~IsLiteral(oid, v)) \/ (oid \in Floating /\ ~IsNumber(v))

(* Invariant: every row has a cell for every announced field, NULL where   *)
(* the text is missing; any other cell, read in the format and of the type *)
(* that was announced for its column, is the text that was rendered, and   *)
(* has the announced size if its type has a binary form of that size; what *)
(* is no number, or an integer its column has no room for, is sent as its  *)
(* text and never as another number.  Of numbers too large for a float     *)
(* column to have them all, which it rounds, nothing is said               *)
(* (conn_handler.go:473-526, binary.go:17-124, messages.go:76-91).         *)
ValuesDecode ==
  \A i \in DOMAIN reply.rows :
    /\ DOMAIN reply.rows[i] = DOMAIN reply.fields
    /\ \A j \in DOMAIN reply.fields :
         LET f == reply.fields[j]
             c == reply.rows[i][j]
             v == reply.texts[i][j]
         IN  /\ (c = Nil <=> v = Nil)
             /\ (c # Nil /\ f.format = 0 => c = Bytes(-1, v))
             /\ (c # Nil /\ f.format = 1 /\ IsLiteral(f.oid, v) =>
                  Decode(f.oid, c) = v /\ (f.oid = OIDUUID \/ f.size \in {-1, c.size}))
             /\ (c # Nil /\ f.format = 1 /\ IsNoNumber(f.oid, v) => c = Bytes(-1, v))

(* The tags the authors of rules chose themselves.                         *)
OwnTags == {rule.tag : rule \in ToSet(world.rules) \cup world.posts}

(* Invariant: a command tag, unless a rule's author wrote it, that counts  *)
(* the rows of a reply with rows counts those that were sent, whoever made *)
(* the answer (conn_handler.go:496-538, engine.go:204-316, catalog.go,     *)
(* state_store.go:179-191, 276-283).                                       *)
TagCountsRows ==
  reply.kind = "done" => /\ reply.tag # NoTag
                         /\ (reply.fields # <<>> /\ reply.tag \notin OwnTags /\ reply.tag.n # NoCount =>
                               reply.tag.n = Len(reply.rows))

(* Invariant: a call that a rule answered because its text is the rule's,  *)
(* whatever the spelling, is found by an assertion on the rule's text, and,*)
(* if the rule names every parameter, by one on the rule's parameters      *)
(* (matcher.go:15-76, engine.go:104-112, api.go:223-253).                  *)
AnsweredIsAssertable ==
  \A i \in DOMAIN heard :
    LET rule == heard[i].rule
    IN  Same(rule.query, heard[i].query) =>
          Passes(logs, [query |-> rule.query, count |-> {}, min |-> {1},
                        exact |-> IF AnyText \in ToSet(rule.params) THEN <<>> ELSE rule.params])

SendsDescribed ==
  /\ reply'.kind = "done" /\ portal' = portal /\ Execute
  /\ described.on /\ described.rules = rules /\ described.db = db
  /\ portal.text # Text(<<>>)
  /\ RuleHits(portal.text, portal.params) = RuleHits(portal.text, <<>>)
  => reply'.fields = described.fields

(* Action property: an Execute sends the fields the Describe of its portal *)
(* announced, although they are worked out twice, if in the meantime       *)
(* neither rules nor tables have changed, no rule is about the parameters, *)
(* which Describe leaves out, and the statement is not empty, as Describe  *)
(* does not ask about that (conn_handler.go:341-377, 414-494).             *)
DescribedIsSent == [][SendsDescribed]_vars

Asked == world.portals \cup {Portal(q, <<>>, <<>>) : q \in world.texts}

PostedOnly ==
  Len(rules') > Len(rules) =>
    \A a \in Asked : Answer(a.text, a.params)' =
                      IF Matches(rules'[1], a.text, a.params) THEN rules'[1] ELSE Answer(a.text, a.params)
DeletedOnly ==
  Len(rules') < Len(rules) =>
    \E i \in DOMAIN rules :
      /\ rules' = RemoveAt(rules, i)
      /\ \A a \in Asked : \/ Answer(a.text, a.params)' = Answer(a.text, a.params)
                          \/ Source(a.text, a.params) = "rule" /\ First(RuleHits(a.text, a.params)) = i

(* Action property: a posted rule answers every query it matches, and no   *)
(* other query's answer changes; a deletion removes one rule, and changes  *)
(* the answers that rule gave and no others, however many rules have its id*)
(* or are its equals (api.go:151-198, engine.go:67-85, 160-166).           *)
OnlyOwnAnswersChange == [][PostedOnly /\ DeletedOnly]_vars
=============================================================================
