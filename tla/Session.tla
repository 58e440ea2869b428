------------------------------- MODULE Session -------------------------------
(***************************************************************************)
(* One client connection as ConnHandler serves it                          *)
(* (internal/server/conn_handler.go): the handshake, the simple and the    *)
(* extended query protocol with its prepared statements and portals, and   *)
(* the ways a connection ends.                                             *)
(*                                                                         *)
(* The client may pipeline.  What it has sent is `sent`; the first         *)
(* `fetched` messages are in the bufio.Reader and the first `taken` have   *)
(* been processed, so closing the socket loses the others but not those in *)
(* the buffer.  A message is processed in one step that leaves its replies *)
(* in `todo`; each is then written by a step of its own, and is lost once  *)
(* the socket is closed, because the handlers ignore write errors.         *)
(*                                                                         *)
(* What the engine and the fault injection make of a query is Faults; here *)
(* it is any of Outcomes[text].                                            *)
(***************************************************************************)
EXTENDS Integers, FiniteSets, Sequences, SequencesExt

CONSTANTS
  Names,        \* names of statements and portals
  Unnamed,      \* the empty name
  Texts,        \* query texts
  NoText,       \* the empty query
  Begins, Ends, \* the texts that are BEGIN or START TRANSACTION; COMMIT or ROLLBACK
  Outcomes,     \* Outcomes[t] \subseteq Outcome: what may come of executing t
  Drivers,      \* the kinds of client, see Driver
  MaxMessages   \* bound: messages a client sends

Outcome == {"rows", "tag", "fail", "drop"}
Ops     == {"Query", "Parse", "Bind", "Describe", "Execute", "Close", "Sync", "Flush",
            "Terminate", "Unknown", "ssl", "hello", "startup", "garbage"}
Targets == {"S", "P", "other"}

(* ok: the payload parses.  name: the statement or portal the message is   *)
(* about; from: the statement a Bind names.  "hello" is the client's half  *)
(* of the TLS handshake: what it sends after it is encrypted.              *)
Message == [op : Ops, ok : BOOLEAN, on : Targets, name : Names, from : Names, text : Texts]

(* tls: whether the server it talks to has TLS.  opening, messages: what it*)
(* may send before and after its startup message.  limit, pipeline: bounds *)
(* of the messages it sends and of those not yet processed.                *)
Driver == [tls : BOOLEAN, opening : SUBSET {"ssl", "startup", "garbage"},
           messages : SUBSET {m \in Message : m.op # "hello"},
           limit : 0 .. MaxMessages, pipeline : Nat]

ASSUME NamesAssumption    == Unnamed \in Names
ASSUME TextsAssumption    == NoText \in Texts /\ Begins \subseteq Texts \ {NoText}
                             /\ Ends \subseteq Texts \ {NoText} /\ Begins \cap Ends = {}
ASSUME OutcomesAssumption == Outcomes \in [Texts -> SUBSET Outcome \ {{}}]
ASSUME DriversAssumption  == MaxMessages \in Nat /\ Drivers \subseteq Driver

VARIABLES
  phase,      \* where Handle is: see Phase
  tls,        \* ConnHandler.tlsConfig # nil
  sent, fetched, taken,
  sock,       \* the server's end of the socket: "open", "closed"
  gone,       \* the client has closed its end
  driver,     \* the kind of client
  txStatus,   \* ConnHandler.txStatus
  parsed,     \* every ParseMessage allocated: its text
  stmts,      \* ConnHandler.stmts: name -> index in parsed
  portals,    \* ConnHandler.portals: name -> index in parsed, 0 for a nil stmt
  queryCount, \* Server.totalQueries
  todo,       \* replies of the current message still to be written
  out,        \* the replies the client can read
  bound,      \* history: portal name -> what its statement said when it was bound
  ran         \* history: the last Execute: the text it ran and the text that was bound

client   == <<sent, gone, driver>>
reading  == <<fetched, taken>>
prepared == <<parsed, stmts, portals, bound>>
vars     == <<phase, tls, client, reading, sock, txStatus, prepared, queryCount, todo, out, ran>>

Phase == {"first", "second", "tls", "greet", "ready", "ended"}
Empty == [n \in {} |-> 0]
NoRun == [text |-> NoText, bound |-> NoText]

Init ==
  /\ phase = "first"
  /\ driver \in Drivers /\ tls = driver.tls
  /\ sent = <<>> /\ fetched = 0 /\ taken = 0
  /\ sock = "open" /\ gone = FALSE
  /\ txStatus = "I"
  /\ parsed = <<>> /\ stmts = Empty /\ portals = Empty /\ bound = Empty
  /\ queryCount = 0
  /\ todo = <<>> /\ out = <<>>
  /\ ran = NoRun

-----------------------------------------------------------------------------
(* The client and the network.                                             *)

Plain(op) == [op |-> op, ok |-> TRUE, on |-> "other", name |-> Unnamed, from |-> Unnamed, text |-> NoText]

(* What was sent before the TLS handshake, in the clear.                   *)
InClear(i) == \E j \in DOMAIN sent : i < j /\ sent[j].op = "hello"
Started    == \E i \in DOMAIN sent : sent[i].op = "startup" /\ ~InClear(i)

Send ==
  /\ ~gone /\ sock = "open"
  /\ Len(sent) < driver.limit /\ Len(sent) - taken < driver.pipeline
  /\ \E m \in (IF Started THEN driver.messages ELSE {Plain(op) : op \in driver.opening}) :
       sent' = Append(sent, m)
  /\ UNCHANGED <<phase, tls, gone, driver, reading, sock, txStatus, prepared, queryCount, todo, out, ran>>

(* Told 'S', the client starts the TLS handshake, whatever it has sent in  *)
(* the clear without waiting for the answer.                               *)
Told == out # <<>> /\ out[1] = "S"

Hello ==
  /\ ~gone /\ sock = "open" /\ Len(sent) < driver.limit
  /\ Told /\ \A i \in DOMAIN sent : sent[i].op # "hello"
  /\ sent' = Append(sent, Plain("hello"))
  /\ UNCHANGED <<phase, tls, gone, driver, reading, sock, txStatus, prepared, queryCount, todo, out, ran>>

Leave ==
  /\ ~gone
  /\ gone' = TRUE
  /\ UNCHANGED <<phase, tls, sent, driver, reading, sock, txStatus, prepared, queryCount, todo, out, ran>>

(* Server.Stop closes the connection under the handler.                    *)
Swept ==
  /\ phase # "ended" /\ sock = "open"
  /\ sock' = "closed"
  /\ UNCHANGED <<phase, tls, client, reading, txStatus, prepared, queryCount, todo, out, ran>>

(* An empty bufio.Reader reads what has arrived.                           *)
Fetch ==
  /\ phase \notin {"tls", "ended"} /\ todo = <<>> /\ sock = "open"
  /\ fetched = taken
  /\ \E n \in (fetched + 1) .. Len(sent) : fetched' = n
  /\ UNCHANGED <<phase, tls, client, taken, sock, txStatus, prepared, queryCount, todo, out, ran>>

-----------------------------------------------------------------------------
(* Handle.                                                                 *)

HasArrived == todo = <<>> /\ taken < Len(sent)  \* mutant: a message still on the wire is processed
HasNext    == todo = <<>> /\ taken < fetched
Msg        == sent[taken + 1]

(* The deferred conn.Close().                                              *)
End == phase' = "ended" /\ sock' = "closed"

EndsAtEOF ==  \* mutant: only EOF ends the loop
  /\ phase \notin {"tls", "ended"} /\ todo = <<>>
  /\ taken = fetched /\ gone
  /\ End
  /\ UNCHANGED <<tls, client, reading, txStatus, prepared, queryCount, todo, out, ran>>

(* The read fails: the socket is closed, or the client has left.           *)
ReadFails ==
  /\ phase \notin {"tls", "ended"} /\ todo = <<>>
  /\ taken = fetched /\ (sock = "closed" \/ gone)
  /\ End
  /\ UNCHANGED <<tls, client, reading, txStatus, prepared, queryCount, todo, out, ran>>

(* A reply is written.  The handshake is over with the last of its replies.*)
Deliver ==
  /\ todo # <<>> /\ sock = "open" /\ ~gone
  /\ out' = Append(out, Head(todo))
  /\ todo' = Tail(todo)
  /\ phase' = IF phase = "greet" /\ Len(todo) = 1 THEN "ready" ELSE phase
  /\ UNCHANGED <<tls, client, reading, sock, txStatus, prepared, queryCount, ran>>

(* A write fails: in the handshake that ends the connection, afterwards the*)
(* reply is lost and nobody looks.                                         *)
Lose ==
  /\ todo # <<>> /\ (sock = "closed" \/ gone)
  /\ IF phase = "ready" THEN todo' = Tail(todo) /\ UNCHANGED <<phase, sock>>
                        ELSE todo' = <<>> /\ End
  /\ UNCHANGED <<tls, client, reading, txStatus, prepared, queryCount, out, ran>>

Opened(op) == phase \in {"first", "second"} /\ HasNext /\ Msg.op = op /\ taken' = taken + 1

Startup ==
  /\ Opened("startup")
  /\ phase' = "greet"
  /\ todo' = <<"AuthOK", "Params", "Key", "ReadyI">>
  /\ UNCHANGED <<tls, client, fetched, sock, txStatus, prepared, queryCount, out, ran>>

SSLAnyTime ==  \* mutant: a second SSLRequest is answered like the first
  /\ Opened("ssl")
  /\ IF tls THEN phase' = "tls" /\ todo' = <<"S">> ELSE phase' = "second" /\ todo' = <<"N">>
  /\ UNCHANGED <<tls, client, fetched, sock, txStatus, prepared, queryCount, out, ran>>

(* SSLRequest: the answer is 'S' and a TLS handshake, or 'N'.              *)
SSLRequest ==
  /\ phase = "first"
  /\ Opened("ssl")
  /\ IF tls THEN phase' = "tls" /\ todo' = <<"S">> ELSE phase' = "second" /\ todo' = <<"N">>
  /\ UNCHANGED <<tls, client, fetched, sock, txStatus, prepared, queryCount, out, ran>>

(* The TLS handshake reads the connection, not the bufio.Reader: what the  *)
(* reader has fetched in the clear is thrown away with it.                 *)
NextOnWire(op) == fetched < Len(sent) /\ sent[fetched + 1].op = op

UpgradeKeeps ==  \* mutant: the reader is not replaced, and what it has fetched is served
  /\ phase = "tls" /\ todo = <<>> /\ sock = "open" /\ ~gone
  /\ NextOnWire("hello")
  /\ fetched' = fetched + 1 /\ taken' = IF taken < fetched THEN taken ELSE fetched + 1
  /\ phase' = "second"
  /\ UNCHANGED <<tls, client, sock, txStatus, prepared, queryCount, todo, out, ran>>

Upgrade ==
  /\ phase = "tls" /\ todo = <<>> /\ sock = "open" /\ ~gone
  /\ NextOnWire("hello")
  /\ fetched' = fetched + 1 /\ taken' = fetched + 1
  /\ phase' = "second"
  /\ UNCHANGED <<tls, client, sock, txStatus, prepared, queryCount, todo, out, ran>>

(* What arrives is not a handshake the server accepts, or nothing will.    *)
(* Until something does, Handshake waits: it has no deadline.              *)
UpgradeFails ==
  /\ phase = "tls" /\ todo = <<>>
  /\ fetched < Len(sent) \/ sock = "closed" \/ gone
  /\ End
  /\ UNCHANGED <<tls, client, reading, txStatus, prepared, queryCount, todo, out, ran>>

(* A packet ReadStartupOrSSL rejects, or SSL requested twice.              *)
Reject ==
  /\ Opened("garbage") \/ (phase = "second" /\ Opened("ssl"))
  /\ End
  /\ UNCHANGED <<tls, client, fetched, txStatus, prepared, queryCount, todo, out, ran>>

-----------------------------------------------------------------------------
(* processMessage.                                                         *)

Take(op) == phase = "ready" /\ HasNext /\ Msg.op = op /\ taken' = taken + 1

Ready(tx) == IF tx = "T" THEN "ReadyT" ELSE "ReadyI"

(* executeRuleResponse: the replies to an outcome; a drop closes the socket*)
(* under the replies that follow.                                          *)
Replies(o) == CASE o = "rows" -> <<"RowDesc", "Data", "Complete">>
                [] o = "tag"  -> <<"Complete">>
                [] o = "fail" -> <<"Error">>
                [] o = "drop" -> <<>>

Respond(t, last) ==
  \E o \in Outcomes[t] : /\ todo' = Replies(o) \o last
                         /\ sock' = IF o = "drop" THEN "closed" ELSE sock

Say(replies) == todo' = replies /\ sock' = sock

TxAfter(t) == IF t \in Begins THEN "T" ELSE IF t \in Ends THEN "I" ELSE txStatus

(* ReadQuery takes any payload.                                            *)
EmptyQueryUnready ==  \* mutant: an empty query is not followed by ReadyForQuery
  /\ Msg.text = NoText /\ Say(<<"Empty">>) /\ UNCHANGED txStatus
EmptyQuery == Msg.text = NoText /\ Say(<<"Empty", Ready(txStatus)>>) /\ UNCHANGED txStatus
RunQuery   == /\ Msg.text # NoText
              /\ txStatus' = TxAfter(Msg.text)
              /\ Respond(Msg.text, <<Ready(txStatus')>>)

SimpleQuery ==
  /\ Take("Query")
  /\ queryCount' = queryCount + 1
  /\ EmptyQuery \/ RunQuery
  /\ UNCHANGED <<phase, tls, client, fetched, prepared, out, ran>>

(* A Go map with an entry set, and with one deleted.                       *)
With(map, n, v) == [m \in DOMAIN map \cup {n} |-> IF m = n THEN v ELSE map[m]]
Without(map, n) == [m \in DOMAIN map \ {n} |-> map[m]]

(* Where Parse puts its ParseMessage.  The map keeps a pointer to a new one.*)
Overwritten(n) ==  \* mutant: the ParseMessage of the statement is overwritten
  IF n \in DOMAIN stmts THEN stmts[n] ELSE Len(parsed) + 1
Allocated(n) == Len(parsed) + 1

Parse ==
  /\ Take("Parse")
  /\ \/ ~Msg.ok /\ Say(<<"Error">>) /\ UNCHANGED <<parsed, stmts>>
     \/ /\ Msg.ok
        /\ LET at == Allocated(Msg.name)
           IN  /\ parsed' = [i \in 1 .. Len(parsed) \cup {at} |-> IF i = at THEN Msg.text ELSE parsed[i]]
               /\ stmts' = With(stmts, Msg.name, at)
        /\ Say(<<"ParseComplete">>)
  /\ UNCHANGED <<phase, tls, client, fetched, txStatus, portals, bound, queryCount, out, ran>>

(* The text a portal or a statement stands for; none for a nil stmt.       *)
TextAt(ptr) == IF ptr = 0 THEN NoText ELSE parsed[ptr]

(* Bind captures the pointer.  A missing unnamed statement gives a nil one.*)
Bind ==
  /\ Take("Bind")
  /\ \/ ~Msg.ok /\ Say(<<"Error">>) /\ UNCHANGED <<portals, bound>>
     \/ /\ Msg.ok /\ Msg.from \notin DOMAIN stmts /\ Msg.from # Unnamed
        /\ Say(<<"Error">>) /\ UNCHANGED <<portals, bound>>
     \/ /\ Msg.ok /\ (Msg.from \in DOMAIN stmts \/ Msg.from = Unnamed)
        /\ LET ptr == IF Msg.from \in DOMAIN stmts THEN stmts[Msg.from] ELSE 0
           IN  /\ portals' = With(portals, Msg.name, ptr)
               /\ bound' = With(bound, Msg.name, TextAt(ptr))
        /\ Say(<<"BindComplete">>)
  /\ UNCHANGED <<phase, tls, client, fetched, txStatus, parsed, stmts, queryCount, out, ran>>

(* ReadBind panics on a negative count of formats or parameters: nobody    *)
(* recovers, and the process ends with all its connections.                *)
BindPanics ==
  /\ Take("Bind") /\ ~Msg.ok
  /\ End
  /\ UNCHANGED <<tls, client, fetched, txStatus, prepared, queryCount, todo, out, ran>>

Lookup(map, n) == IF n \in DOMAIN map THEN TextAt(map[n]) ELSE NoText

(* A Describe of no query finds no columns; otherwise it is up to the rule *)
(* Match returns.                                                          *)
Columns(t) == IF t = NoText THEN {"NoData"} ELSE {"RowDesc", "NoData"}

Describe ==
  /\ Take("Describe")
  /\ \/ ~Msg.ok /\ Say(<<"Error">>)
     \/ /\ Msg.ok /\ Msg.name # Unnamed
        /\ \/ Msg.on = "S" /\ Msg.name \notin DOMAIN stmts
           \/ Msg.on = "P" /\ Msg.name \notin DOMAIN portals
        /\ Say(<<"Error">>)
     \/ /\ Msg.ok /\ Msg.on = "S" /\ Msg.name \in DOMAIN stmts \cup {Unnamed}
        /\ \E c \in Columns(Lookup(stmts, Msg.name)) : Say(<<"ParamDesc", c>>)
     \/ /\ Msg.ok /\ Msg.on = "P" /\ Msg.name \in DOMAIN portals \cup {Unnamed}
        /\ \E c \in Columns(Lookup(portals, Msg.name)) : Say(<<c>>)
     \/ Msg.ok /\ Msg.on = "other" /\ Say(<<"NoData">>)
  /\ UNCHANGED <<phase, tls, client, fetched, txStatus, prepared, queryCount, out, ran>>

(* Execute runs what the portal's pointer refers to, and leaves txStatus.  *)
Execute ==
  /\ Take("Execute")
  /\ queryCount' = queryCount + 1
  /\ \/ ~Msg.ok /\ Say(<<"Error">>) /\ UNCHANGED ran
     \/ /\ Msg.ok /\ Msg.name \notin DOMAIN portals /\ Msg.name # Unnamed
        /\ Say(<<"Error">>) /\ UNCHANGED ran
     \/ /\ Msg.ok /\ Msg.name \in DOMAIN portals \cup {Unnamed}
        /\ Respond(Lookup(portals, Msg.name), <<>>)
        /\ ran' = [text  |-> Lookup(portals, Msg.name),
                   bound |-> IF Msg.name \in DOMAIN bound THEN bound[Msg.name] ELSE NoText]
  /\ UNCHANGED <<phase, tls, client, fetched, txStatus, prepared, out>>

(* Close; a portal outlives the statement it was bound to.                 *)
Close ==
  /\ Take("Close")
  /\ stmts' = IF Msg.ok /\ Msg.on = "S" THEN Without(stmts, Msg.name) ELSE stmts
  /\ portals' = IF Msg.ok /\ Msg.on = "P" THEN Without(portals, Msg.name) ELSE portals
  /\ bound' = IF Msg.ok /\ Msg.on = "P" THEN Without(bound, Msg.name) ELSE bound
  /\ Say(<<"CloseComplete">>)
  /\ UNCHANGED <<phase, tls, client, fetched, txStatus, parsed, queryCount, out, ran>>

FlushAsSync ==  \* mutant: Flush falls through to the default
  /\ Take("Flush")
  /\ Say(<<Ready(txStatus)>>)
  /\ UNCHANGED <<phase, tls, client, fetched, txStatus, prepared, queryCount, out, ran>>

Flush ==
  /\ Take("Flush")
  /\ Say(<<>>)
  /\ UNCHANGED <<phase, tls, client, fetched, txStatus, prepared, queryCount, out, ran>>

(* Sync, and any message type nobody handles.                              *)
Sync ==
  /\ Take("Sync") \/ Take("Unknown")
  /\ Say(<<Ready(txStatus)>>)
  /\ UNCHANGED <<phase, tls, client, fetched, txStatus, prepared, queryCount, out, ran>>

(* A length field below 4 ends the connection without a reply, as does the *)
(* panic on one so large that the payload's length is negative.            *)
BadHeader ==
  /\ Take("garbage")
  /\ End
  /\ UNCHANGED <<tls, client, fetched, txStatus, prepared, queryCount, todo, out, ran>>

Terminate ==
  /\ Take("Terminate")
  /\ End
  /\ UNCHANGED <<tls, client, fetched, txStatus, prepared, queryCount, todo, out, ran>>

-----------------------------------------------------------------------------
Opens    == Startup \/ SSLRequest \/ Upgrade \/ UpgradeFails \/ Reject
Serves   == SimpleQuery \/ Parse \/ Bind \/ BindPanics \/ Describe \/ Execute \/ Close \/ Flush \/ Sync
            \/ Terminate \/ BadHeader
Handle   == Fetch \/ ReadFails \/ Deliver \/ Lose \/ Opens \/ Serves

(* The handler has returned, or waits for a client that has nothing to say.*)
Quiet == phase = "ended" \/ (todo = <<>> /\ (IF phase = "tls" THEN fetched ELSE taken) = Len(sent))
Rest  == Quiet /\ UNCHANGED vars

Next == Send \/ Hello \/ Leave \/ Swept \/ Handle \/ Rest

(* The handler runs when it can, and a client that stays reads its replies.*)
Spec == Init /\ [][Next]_vars /\ WF_vars(Handle)

-----------------------------------------------------------------------------
(* Properties.                                                             *)

ReplyKinds == {"S", "N", "AuthOK", "Params", "Key", "ReadyI", "ReadyT", "RowDesc", "Data", "Complete",
               "Error", "Empty", "ParseComplete", "BindComplete", "ParamDesc", "NoData", "CloseComplete"}
IsReady(r) == r \in {"ReadyI", "ReadyT", "ReadyE"}
Prompting  == {"Query", "Sync", "Unknown"}

(* Invariant: ranges; every statement and portal refers to a ParseMessage  *)
(* that exists, and a portal without one has the empty text                *)
(* (conn_handler.go:27-40).                                                *)
TypeOK ==
  /\ phase \in Phase /\ driver \in Drivers /\ tls \in BOOLEAN /\ gone \in BOOLEAN /\ sock \in {"open", "closed"}
  /\ taken \in 0 .. fetched /\ fetched \in 0 .. Len(sent)
  /\ txStatus \in {"I", "T"} /\ queryCount \in Nat
  /\ parsed \in Seq(Texts)
  /\ DOMAIN stmts \subseteq Names /\ \A n \in DOMAIN stmts : stmts[n] \in DOMAIN parsed
  /\ DOMAIN portals \subseteq Names /\ \A n \in DOMAIN portals : portals[n] \in DOMAIN parsed \cup {0}
  /\ todo \in Seq(ReplyKinds) /\ out \in Seq(ReplyKinds)

Readies(replies) == Cardinality({i \in DOMAIN replies : IsReady(replies[i])})
Counted(n)       == {i \in 1 .. n : sent[i].op \in Prompting /\ ~InClear(i)}
Prompts(n)       == Cardinality(Counted(n))

(* Invariant: between two messages a client that lost nothing has one      *)
(* ReadyForQuery for its startup and one for each Query, Sync or unknown   *)
(* message processed, whatever failed in them, and none for what it sent   *)
(* before a TLS handshake: a driver that counts them to pair replies with  *)
(* requests stays in step (conn_handler.go:115-120, 171-254).              *)
SyncPoints ==
  phase = "ready" /\ todo = <<>> /\ sock = "open" /\ ~gone => Readies(out) = 1 + Prompts(taken)

(* Invariant: the client sees at most one answer to SSLRequest and then the*)
(* greeting, complete and in order, before any other reply                 *)
(* (conn_handler.go:103-169).                                              *)
Greeting == <<"AuthOK", "Params", "Key", "ReadyI">>
HandshakeOrder ==
  \E ssl \in {<<>>, <<"S">>, <<"N">>} :
    IsPrefix(out, ssl \o Greeting) \/ IsPrefix(ssl \o Greeting, out)

(* Invariant: Execute runs the text its portal had when it was bound, even *)
(* if the statement has been parsed again or closed in between             *)
(* (conn_handler.go:266, 289-293, 401-409).                                *)
PortalKeepsStatement == ran.text = ran.bound

(* Invariant: once the server has agreed to TLS it acts on nothing sent in *)
(* the clear: the startup message it greets, and all that it serves, come  *)
(* after the client's handshake (conn_handler.go:110-120).                 *)
ServedEncrypted ==
  phase \in {"greet", "ready"} /\ Told => \E i \in 1 .. (taken - 1) : sent[i].op = "hello"

(* What went away with the reader: fetched before the TLS handshake.       *)
Discarded(i) == IF phase = "tls" THEN i <= fetched ELSE InClear(i)

(* Liveness: every Query, Sync or unknown message gets its ReadyForQuery,  *)
(* unless the connection ends or the message was sent along with           *)
(* SSLRequest and thrown away: otherwise no message order, error or drop   *)
(* leaves a client waiting on an open connection (conn_handler.go:77-100,  *)
(* 115-120).                                                               *)
Answered ==
  \A i \in 1 .. MaxMessages :
    (Len(sent) >= i /\ Started /\ sent[i].op \in Prompting)
      ~> (phase = "ended" \/ (Len(sent) >= i /\ (Discarded(i) \/ Readies(out) >= 1 + Prompts(i))))

(* Liveness: once the socket is closed, by a drop_connection rule or by    *)
(* Stop, or the client has left, the handler comes to an end whatever is   *)
(* still in its buffer (conn_handler.go:77-100, 435-441).                  *)
EndsWhenClosed == (sock = "closed" \/ gone) ~> phase = "ended"

(* What docs/PROTOCOL_GUIDE.md:23 says of ReadyForQuery: it reports 'E' in *)
(* a failed transaction.  So after an error in a block it does not report  *)
(* an intact one.                                                          *)
FailedBlockReported ==
  \A i, k \in DOMAIN out :
    /\ i < k /\ out[i] = "ReadyT" /\ IsReady(out[k])
    /\ \A j \in (i + 1) .. (k - 1) : ~IsReady(out[j])
    /\ \E j \in (i + 1) .. (k - 1) : out[j] = "Error"
    => out[k] # "ReadyT"
=============================================================================
