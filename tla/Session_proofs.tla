---------------------------- MODULE Session_proofs ----------------------------
(***************************************************************************)
(* Proofs about Session, for any names, texts, messages and bounds: the    *)
(* statement and portal maps only hold pointers to messages that exist; a  *)
(* portal stands for the text it was bound with for as long as it exists;  *)
(* a client that counts ReadyForQuery stays in step with the server, and   *)
(* sees the handshake in order; and after a TLS handshake nothing sent in  *)
(* the clear is served.                                                    *)
(***************************************************************************)
EXTENDS Session, FiniteSetTheorems, SequenceTheorems, TLAPS

(* The maps hold pointers into parsed.                                     *)
Pointers ==
  /\ parsed \in Seq(Texts)
  /\ DOMAIN stmts \subseteq Names
  /\ DOMAIN portals \subseteq Names
  /\ \A n \in DOMAIN stmts : stmts[n] \in 1 .. Len(parsed)
  /\ \A n \in DOMAIN portals : portals[n] \in 0 .. Len(parsed)

(* A portal's pointer still leads to the text it led to when it was bound. *)
Faithful ==
  /\ DOMAIN bound = DOMAIN portals
  /\ \A n \in DOMAIN portals : bound[n] = TextAt(portals[n])
  /\ ran.text = ran.bound

(* What the client sends and the handler reads and replies.                *)
Traffic ==
  /\ sent \in Seq(Message)
  /\ taken \in Nat /\ fetched \in Nat /\ taken <= fetched /\ fetched <= Len(sent)
  /\ phase \in Phase /\ driver \in Drivers /\ tls \in BOOLEAN /\ gone \in BOOLEAN /\ sock \in {"open", "closed"}
  /\ txStatus \in {"I", "T"} /\ queryCount \in Nat
  /\ todo \in Seq(ReplyKinds) /\ out \in Seq(ReplyKinds)

IInv == Pointers /\ Faithful /\ Traffic

-----------------------------------------------------------------------------
(* A fresh connection satisfies the invariant (NewConnHandler).            *)
LEMMA InitIInv == Init => IInv
<1> SUFFICES ASSUME Init PROVE IInv
  OBVIOUS
<1>1. DOMAIN Empty = {} /\ NoRun.text = NoRun.bound
  BY DEF Empty, NoRun
<1>2. Pointers
  BY <1>1 DEF Init, Pointers
<1>3. Faithful
  BY <1>1 DEF Init, Faithful
<1>4. Traffic
  <2>1. sent \in Seq(Message) /\ Len(sent) = 0
    BY DEF Init
  <2>2. todo \in Seq(ReplyKinds) /\ out \in Seq(ReplyKinds)
    BY DEF Init
  <2>3. phase \in Phase /\ taken = 0 /\ fetched = 0
    BY DEF Init, Phase
  <2>4. /\ taken \in Nat /\ fetched \in Nat /\ taken <= fetched /\ fetched <= Len(sent)
        /\ queryCount \in Nat
    BY <2>1, <2>3 DEF Init
  <2>0. driver \in Drivers /\ tls \in BOOLEAN
    BY DriversAssumption DEF Init, Driver
  <2>5. /\ gone \in BOOLEAN /\ sock \in {"open", "closed"}
        /\ txStatus \in {"I", "T"}
    BY Zenon DEF Init
  <2> QED
    BY <2>1, <2>2, <2>3, <2>4, <2>5, <2>0, Zenon DEF Traffic
<1> QED
  BY <1>2, <1>3, <1>4 DEF IInv

(* Whatever leaves the maps alone keeps them right.                        *)
LEMMA Untouched ==
  ASSUME Pointers, Faithful, UNCHANGED <<prepared, ran>>
  PROVE  Pointers' /\ Faithful'
BY DEF Pointers, Faithful, prepared, TextAt

(* Any message the handler takes is one the client sent.                   *)
LEMMA TakenMessage ==
  ASSUME Traffic, HasNext
  PROVE  Msg \in Message /\ taken + 1 <= fetched
BY DEF Traffic, HasNext, Msg

(* Parse allocates: the pointers there are keep their texts.               *)
LEMMA ParseStep == IInv /\ Parse => Pointers' /\ Faithful'
<1> SUFFICES ASSUME IInv, Parse PROVE Pointers' /\ Faithful'
  OBVIOUS
<1>1. Pointers /\ Faithful /\ Traffic
  BY DEF IInv
<1>2. UNCHANGED <<portals, bound, ran>>
  BY DEF Parse
<1>3. Msg \in Message
  BY <1>1, TakenMessage DEF Parse, Take
<1>4. CASE UNCHANGED <<parsed, stmts>>
  BY <1>1, <1>2, <1>4 DEF Pointers, Faithful, TextAt
<1>5. CASE /\ parsed' = [i \in 1 .. Len(parsed) \cup {Len(parsed) + 1} |->
                           IF i = Len(parsed) + 1 THEN Msg.text ELSE parsed[i]]
           /\ stmts' = With(stmts, Msg.name, Len(parsed) + 1)
  <2>1. Msg.text \in Texts /\ Msg.name \in Names
    BY <1>3 DEF Message
  <2>2. Len(parsed) \in Nat /\ \A i \in 1 .. Len(parsed) : parsed[i] \in Texts
    BY <1>1 DEF Pointers
  <2>3. 1 .. Len(parsed) \cup {Len(parsed) + 1} = 1 .. (Len(parsed) + 1)
    BY <2>2
  <2>4. parsed' \in [1 .. (Len(parsed) + 1) -> Texts]
    BY <1>5, <2>1, <2>2, <2>3
  <2>5. parsed' \in Seq(Texts) /\ Len(parsed') = Len(parsed) + 1
    BY <2>2, <2>4
  <2>6. \A i \in 1 .. Len(parsed) : parsed'[i] = parsed[i]
    BY <1>5, <2>2
  <2>7. /\ DOMAIN stmts' = {Msg.name} \cup DOMAIN stmts
        /\ \A n \in DOMAIN stmts' : stmts'[n] = Len(parsed) + 1 \/ (n \in DOMAIN stmts /\ stmts'[n] = stmts[n])
    BY <1>5 DEF With
  <2>8. Pointers'
    BY <1>1, <1>2, <2>1, <2>2, <2>5, <2>7 DEF Pointers
  <2>9. Faithful'
    BY <1>1, <1>2, <2>2, <2>6 DEF Pointers, Faithful, TextAt
  <2> QED
    BY <2>8, <2>9
<1> QED
  BY <1>4, <1>5 DEF Parse, Allocated

(* Bind captures a pointer that exists, or none, and its text.             *)
LEMMA BindStep == IInv /\ Bind => Pointers' /\ Faithful'
<1> SUFFICES ASSUME IInv, Bind PROVE Pointers' /\ Faithful'
  OBVIOUS
<1>1. Pointers /\ Faithful /\ Traffic
  BY DEF IInv
<1>2. UNCHANGED <<parsed, stmts, ran>>
  BY DEF Bind
<1>3. Msg \in Message
  BY <1>1, TakenMessage DEF Bind, Take
<1>4. CASE UNCHANGED <<portals, bound>>
  BY <1>1, <1>2, <1>4 DEF Pointers, Faithful, TextAt
<1>5. ASSUME NEW ptr, ptr = IF Msg.from \in DOMAIN stmts THEN stmts[Msg.from] ELSE 0,
             portals' = With(portals, Msg.name, ptr),
             bound' = With(bound, Msg.name, TextAt(ptr))
      PROVE  Pointers' /\ Faithful'
  <2>1. Msg.name \in Names
    BY <1>3 DEF Message
  <2>2. ptr \in 0 .. Len(parsed)
    BY <1>1, <1>5 DEF Pointers
  <2>3. /\ DOMAIN portals' = {Msg.name} \cup DOMAIN portals
        /\ portals'[Msg.name] = ptr
        /\ \A n \in DOMAIN portals \ {Msg.name} : portals'[n] = portals[n]
    BY <1>5 DEF With
  <2>4. /\ DOMAIN bound' = {Msg.name} \cup DOMAIN bound
        /\ bound'[Msg.name] = TextAt(ptr)
        /\ \A n \in DOMAIN bound \ {Msg.name} : bound'[n] = bound[n]
    BY <1>5 DEF With
  <2> DEFINE new == Msg.name
  <2> HIDE DEF new
  <2>5. Pointers'
    <3>1. \A n \in DOMAIN portals' : portals'[n] \in 0 .. Len(parsed)
      BY <1>1, <2>2, <2>3 DEF Pointers
    <3>2. DOMAIN portals' \subseteq Names
      BY <1>1, <2>1, <2>3 DEF Pointers
    <3> QED
      BY <1>1, <1>2, <3>1, <3>2 DEF Pointers
  <2>6. \A n \in DOMAIN portals' : bound'[n] = TextAt(portals'[n])
    BY <1>1, <2>3, <2>4 DEF Faithful
  <2>7. Faithful'
    BY <1>1, <1>2, <2>3, <2>4, <2>6 DEF Faithful, TextAt
  <2> QED
    BY <2>5, <2>7
<1> QED
  BY <1>4, <1>5 DEF Bind

(* Execute runs what the portal stands for.                                *)
LEMMA ExecuteStep == IInv /\ Execute => Pointers' /\ Faithful'
<1> SUFFICES ASSUME IInv, Execute PROVE Pointers' /\ Faithful'
  OBVIOUS
<1>1. Pointers /\ Faithful
  BY DEF IInv
<1>2. UNCHANGED <<parsed, stmts, portals, bound>>
  BY DEF Execute, prepared
<1>3. ran'.text = ran'.bound
  BY <1>1 DEF Execute, Faithful, Lookup
<1> QED
  BY <1>1, <1>2, <1>3 DEF Pointers, Faithful, TextAt

(* Close forgets a name, in both maps of a portal alike.                   *)
LEMMA CloseStep == IInv /\ Close => Pointers' /\ Faithful'
<1> SUFFICES ASSUME IInv, Close PROVE Pointers' /\ Faithful'
  OBVIOUS
<1>1. Pointers /\ Faithful
  BY DEF IInv
<1>2. UNCHANGED <<parsed, ran>>
  BY DEF Close
<1>3. /\ DOMAIN stmts' \subseteq DOMAIN stmts
      /\ \A n \in DOMAIN stmts' : stmts'[n] = stmts[n]
  BY DEF Close, Without
<1>4. /\ DOMAIN portals' \subseteq DOMAIN portals /\ DOMAIN bound' = DOMAIN portals'
      /\ \A n \in DOMAIN portals' : portals'[n] = portals[n] /\ bound'[n] = bound[n]
  BY <1>1 DEF Close, Without, Faithful
<1> QED
  BY <1>1, <1>2, <1>3, <1>4 DEF Pointers, Faithful, TextAt

-----------------------------------------------------------------------------
(* Every list of replies a handler leaves to be written is one.            *)
LEMMA ReplyLists ==
  /\ <<>> \in Seq(ReplyKinds)
  /\ \A a \in ReplyKinds : <<a>> \in Seq(ReplyKinds)
  /\ \A a, b \in ReplyKinds : <<a, b>> \in Seq(ReplyKinds)
  /\ \A o \in Outcome : Replies(o) \in Seq(ReplyKinds)
  /\ \A tx : Ready(tx) \in ReplyKinds
<1>1. \A a \in ReplyKinds : <<a>> \in Seq(ReplyKinds)
  OBVIOUS
<1>2. \A a, b \in ReplyKinds : <<a, b>> \in Seq(ReplyKinds)
  OBVIOUS
<1>3. \A o \in Outcome : Replies(o) \in Seq(ReplyKinds)
  <2>1. /\ Replies("rows") = <<"RowDesc", "Data", "Complete">> /\ Replies("tag") = <<"Complete">>
        /\ Replies("fail") = <<"Error">> /\ Replies("drop") = <<>>
    BY DEF Replies
  <2>2. \A a, b, c \in ReplyKinds : <<a, b, c>> \in Seq(ReplyKinds)
    OBVIOUS
  <2>3. {"RowDesc", "Data", "Complete", "Error"} \subseteq ReplyKinds
    BY DEF ReplyKinds
  <2>4. Replies("rows") \in Seq(ReplyKinds)
    BY <2>1, <2>2, <2>3
  <2>5. Replies("tag") \in Seq(ReplyKinds) /\ Replies("fail") \in Seq(ReplyKinds)
    BY <1>1, <2>1, <2>3
  <2>6. Replies("drop") \in Seq(ReplyKinds)
    <3>1. <<>> \in Seq(ReplyKinds)
      OBVIOUS
    <3> QED
      BY <2>1, <3>1, Zenon
  <2> QED
    BY <2>4, <2>5, <2>6 DEF Outcome
<1>4. \A tx : Ready(tx) \in ReplyKinds
  BY DEF Ready, ReplyKinds
<1> QED
  BY <1>1, <1>2, <1>3, <1>4

(* What the client and the network do.                                     *)
LEMMA ClientTraffic == Traffic /\ (Send \/ Hello \/ Leave \/ Swept \/ Fetch) => Traffic'
<1> SUFFICES ASSUME Traffic, Send \/ Hello \/ Leave \/ Swept \/ Fetch PROVE Traffic'
  OBVIOUS
<1>1. CASE Send
  <2>0. /\ driver.messages \in SUBSET Message
        /\ driver.opening \in SUBSET {"ssl", "startup", "garbage"}
    BY DriversAssumption DEF Traffic, Driver
  <2>1. \A op \in driver.opening : Plain(op) \in Message
    BY <2>0, NamesAssumption, TextsAssumption DEF Plain, Message, Ops, Targets
  <2>2. PICK m \in Message : sent' = Append(sent, m)
    BY <1>1, <2>0, <2>1, Zenon DEF Send
  <2>3. sent' \in Seq(Message) /\ Len(sent') = Len(sent) + 1 /\ Len(sent) \in Nat
    BY <2>2 DEF Traffic
  <2>4. /\ taken \in Nat /\ fetched \in Nat /\ taken <= fetched /\ fetched <= Len(sent')
    BY <2>3 DEF Traffic
  <2> QED
    BY <1>1, <2>3, <2>4 DEF Send, Traffic, reading
<1>5. CASE Hello
  <2>1. Plain("hello") \in Message
    BY NamesAssumption, TextsAssumption DEF Plain, Message, Ops, Targets
  <2>2. sent' \in Seq(Message) /\ Len(sent') = Len(sent) + 1 /\ Len(sent) \in Nat
    BY <1>5, <2>1 DEF Hello, Traffic
  <2>3. /\ taken \in Nat /\ fetched \in Nat /\ taken <= fetched /\ fetched <= Len(sent')
    BY <2>2 DEF Traffic
  <2> QED
    BY <1>5, <2>2, <2>3 DEF Hello, Traffic, reading
<1>2. CASE Leave
  BY <1>2 DEF Leave, Traffic, reading
<1>3. CASE Swept
  BY <1>3 DEF Swept, Traffic, reading, client
<1>4. CASE Fetch
  <2>1. fetched' \in Nat /\ taken <= fetched' /\ fetched' <= Len(sent)
    BY <1>4 DEF Fetch, Traffic
  <2> QED
    BY <1>4, <2>1 DEF Fetch, Traffic, client
<1> QED
  BY <1>1, <1>2, <1>3, <1>4, <1>5

(* Reading, writing and the handshake.                                     *)
LEMMA LoopTraffic == Traffic /\ (ReadFails \/ Deliver \/ Lose \/ Opens) => Traffic'
<1> SUFFICES ASSUME Traffic, ReadFails \/ Deliver \/ Lose \/ Opens PROVE Traffic'
  OBVIOUS
<1> USE DEF Traffic, Phase
<1>1. CASE ReadFails
  BY <1>1 DEF ReadFails, End, client, reading
<1>2. CASE Deliver
  <2>1. todo \in Seq(ReplyKinds) /\ out \in Seq(ReplyKinds) /\ todo # <<>>
    BY <1>2 DEF Deliver
  <2>2. Tail(todo) \in Seq(ReplyKinds) /\ Append(out, Head(todo)) \in Seq(ReplyKinds)
    BY <2>1
  <2>3. todo' \in Seq(ReplyKinds) /\ out' \in Seq(ReplyKinds)
    BY <1>2, <2>2 DEF Deliver
  <2> QED
    BY <1>2, <2>3 DEF Deliver, client, reading
<1>3. CASE Lose
  <2>1. Tail(todo) \in Seq(ReplyKinds) /\ <<>> \in Seq(ReplyKinds)
    <3>1. todo \in Seq(ReplyKinds) /\ todo # <<>>
      BY <1>3 DEF Lose
    <3> QED
      BY <3>1
  <2>2. todo' \in Seq(ReplyKinds)
    BY <1>3, <2>1 DEF Lose
  <2> QED
    BY <1>3, <2>2 DEF Lose, End, client, reading
<1>4. CASE Opens
  <2>1. CASE Startup
    <3>1. <<"AuthOK", "Params", "Key", "ReadyI">> \in Seq(ReplyKinds)
      BY DEF ReplyKinds
    <3>2. taken' \in Nat /\ taken' <= fetched
      BY <2>1 DEF Startup, Opened, HasNext
    <3> QED
      BY <2>1, <3>1, <3>2 DEF Startup, client
  <2>2. CASE SSLRequest
    <3>1. todo' \in Seq(ReplyKinds) /\ phase' \in Phase
      BY <2>2, ReplyLists, ZenonT(30) DEF SSLRequest, ReplyKinds
    <3>2. taken' \in Nat /\ taken' <= fetched
      BY <2>2 DEF SSLRequest, Opened, HasNext
    <3> QED
      BY <2>2, <3>1, <3>2 DEF SSLRequest, client
  <2>3. CASE UpgradeFails
    BY <2>3 DEF UpgradeFails, End, client, reading
  <2>5. CASE Upgrade
    <3>1. fetched' \in Nat /\ taken' \in Nat /\ taken' <= fetched' /\ fetched' <= Len(sent)
      BY <2>5 DEF Upgrade, NextOnWire
    <3> QED
      BY <2>5, <3>1 DEF Upgrade, client
  <2>4. CASE Reject
    BY <2>4 DEF Reject, Opened, HasNext, End, client
  <2> QED
    BY <1>4, <2>1, <2>2, <2>3, <2>4, <2>5 DEF Opens
<1> QED
  BY <1>1, <1>2, <1>3, <1>4

(* A handler consumes one message and leaves a list of replies.            *)
LEMMA TakeTraffic ==
  ASSUME Traffic, NEW op \in Ops, Take(op), todo' \in Seq(ReplyKinds),
         txStatus' \in {"I", "T"}, queryCount' \in Nat, sock' \in {"open", "closed"},
         UNCHANGED <<phase, tls, client, fetched, out>>
  PROVE  Traffic'
BY DEF Traffic, Take, HasNext, client

(* Responding to a query.                                                  *)
LEMMA Responding ==
  ASSUME Traffic, NEW t \in Texts, NEW last \in Seq(ReplyKinds), Respond(t, last)
  PROVE  todo' \in Seq(ReplyKinds) /\ sock' \in {"open", "closed"}
<1>1. PICK o \in Outcome : /\ todo' = Replies(o) \o last
                           /\ sock' = IF o = "drop" THEN "closed" ELSE sock
  BY OutcomesAssumption DEF Respond
<1>2. Replies(o) \in Seq(ReplyKinds)
  BY ReplyLists
<1> QED
  BY <1>1, <1>2 DEF Traffic

(* Looking a name up yields a text.                                        *)
LEMMA LookupText ==
  ASSUME Pointers, NEW n
  PROVE  Lookup(portals, n) \in Texts
BY TextsAssumption DEF Pointers, Lookup, TextAt

(* processMessage keeps the ranges.                                        *)
LEMMA ServeTraffic == IInv /\ Serves => Traffic'
<1> SUFFICES ASSUME IInv, Serves PROVE Traffic'
  OBVIOUS
<1>0. Traffic /\ Pointers /\ txStatus \in {"I", "T"} /\ queryCount \in Nat /\ sock \in {"open", "closed"}
  BY DEF IInv, Traffic
<1>1. CASE SimpleQuery
  <2>1. Msg.text \in Texts
    BY <1>0, <1>1, TakenMessage DEF SimpleQuery, Take, Message
  <2>2. /\ todo' \in Seq(ReplyKinds) /\ sock' \in {"open", "closed"} /\ txStatus' \in {"I", "T"}
    <3>2. CASE EmptyQuery
      BY <1>0, <3>2, ReplyLists DEF EmptyQuery, Say, ReplyKinds
    <3>3. CASE RunQuery
      <4>1. txStatus' \in {"I", "T"}
        BY <1>0, <3>3 DEF RunQuery, TxAfter
      <4>2. <<Ready(txStatus')>> \in Seq(ReplyKinds)
        BY ReplyLists
      <4> QED
        BY <1>0, <2>1, <3>3, <4>1, <4>2, Responding DEF RunQuery
    <3> QED
      BY <1>1, <3>2, <3>3 DEF SimpleQuery
  <2>3. Take("Query") /\ queryCount' = queryCount + 1 /\ UNCHANGED <<phase, tls, client, fetched, out>>
    BY <1>1 DEF SimpleQuery
  <2> QED
    BY <1>0, <2>2, <2>3, TakeTraffic DEF Ops
<1>2. CASE Parse
  BY <1>0, <1>2, ReplyLists, TakeTraffic, ZenonT(30) DEF Parse, Say, ReplyKinds, Ops
<1>3. CASE Bind
  BY <1>0, <1>3, ReplyLists, TakeTraffic, ZenonT(30) DEF Bind, Say, ReplyKinds, Ops
<1>4. CASE Describe
  <2>1. todo' \in Seq(ReplyKinds) /\ sock' = sock
    BY <1>4, ReplyLists, ZenonT(30) DEF Describe, Say, Columns, ReplyKinds
  <2>2. Take("Describe") /\ UNCHANGED <<phase, tls, client, fetched, txStatus, queryCount, out>>
    BY <1>4 DEF Describe
  <2> QED
    BY <1>0, <2>1, <2>2, TakeTraffic DEF Ops
<1>5. CASE Execute
  <2>1. todo' \in Seq(ReplyKinds) /\ sock' \in {"open", "closed"}
    <3>1. Lookup(portals, Msg.name) \in Texts
      BY <1>0, LookupText
    <3>2. Say(<<"Error">>) \/ Respond(Lookup(portals, Msg.name), <<>>)
      BY <1>5 DEF Execute
    <3> QED
      BY <1>0, <3>1, <3>2, ReplyLists, Responding, ZenonT(30) DEF Say, ReplyKinds
  <2>2. Take("Execute") /\ queryCount' = queryCount + 1
        /\ UNCHANGED <<phase, tls, client, fetched, txStatus, out>>
    BY <1>5 DEF Execute
  <2> QED
    BY <1>0, <2>1, <2>2, TakeTraffic DEF Ops
<1>6. CASE Close
  BY <1>0, <1>6, ReplyLists, TakeTraffic DEF Close, Say, ReplyKinds, Ops
<1>7. CASE Flush
  BY <1>0, <1>7, ReplyLists, TakeTraffic DEF Flush, Say, Ops
<1>8. CASE Sync
  BY <1>0, <1>8, ReplyLists, TakeTraffic DEF Sync, Say, Ops
<1>9. CASE Terminate \/ BadHeader \/ BindPanics
  BY <1>0, <1>9 DEF Terminate, BadHeader, BindPanics, Take, HasNext, End, Traffic, Phase, client
<1> QED
  BY <1>1, <1>2, <1>3, <1>4, <1>5, <1>6, <1>7, <1>8, <1>9 DEF Serves

-----------------------------------------------------------------------------
(* The invariant holds in every reachable state.                           *)
THEOREM SessionInvariance == Spec => []IInv
<1>1. IInv /\ [Next]_vars => IInv'
  <2> SUFFICES ASSUME IInv, [Next]_vars PROVE IInv'
    OBVIOUS
  <2>0. Pointers /\ Faithful /\ Traffic
    BY DEF IInv
  <2>1. CASE Send \/ Hello \/ Leave \/ Swept \/ Fetch
    BY <2>0, <2>1, ClientTraffic, Untouched DEF Send, Hello, Leave, Swept, Fetch, IInv
  <2>2. CASE ReadFails \/ Deliver \/ Lose \/ Opens
    BY <2>0, <2>2, LoopTraffic, Untouched DEF ReadFails, Deliver, Lose, Opens, Startup, SSLRequest,
       Upgrade, UpgradeFails, Reject, IInv
  <2>3. CASE SimpleQuery \/ Describe \/ Flush \/ Sync \/ Terminate \/ BadHeader \/ BindPanics
    <3>1. UNCHANGED <<prepared, ran>>
      BY <2>3 DEF SimpleQuery, Describe, Flush, Sync, Terminate, BadHeader, BindPanics
    <3> QED
      BY <2>0, <2>3, <3>1, ServeTraffic, Untouched DEF Serves, IInv
  <2>4. CASE Parse
    BY <2>4, ParseStep, ServeTraffic DEF Serves, IInv
  <2>5. CASE Bind
    BY <2>5, BindStep, ServeTraffic DEF Serves, IInv
  <2>6. CASE Execute
    BY <2>6, ExecuteStep, ServeTraffic DEF Serves, IInv
  <2>7. CASE Close
    BY <2>7, CloseStep, ServeTraffic DEF Serves, IInv
  <2>8. CASE UNCHANGED vars
    BY <2>0, <2>8, Untouched DEF vars, IInv, Traffic, client, reading
  <2> QED
    BY <2>1, <2>2, <2>3, <2>4, <2>5, <2>6, <2>7, <2>8 DEF Next, Handle, Serves, Rest
<1> QED
  BY InitIInv, <1>1, PTL DEF Spec

(* No statement or portal ever refers to a message that does not exist, and*)
(* the handler never processes more than it has read (conn_handler.go:27-40,*)
(* 77-100).                                                                *)
THEOREM SessionTypeCorrect == Spec => []TypeOK
<1>1. IInv => TypeOK
  BY DEF IInv, Pointers, Traffic, TypeOK
<1> QED
  BY SessionInvariance, <1>1, PTL

(* Execute runs the text the portal was bound with, however often its      *)
(* statement is parsed again or closed (conn_handler.go:266, 289-293).     *)
THEOREM PortalStability == Spec => []PortalKeepsStatement
<1>1. IInv => PortalKeepsStatement
  BY DEF IInv, Faithful, PortalKeepsStatement
<1> QED
  BY SessionInvariance, <1>1, PTL

-----------------------------------------------------------------------------
(* Synchronisation points and the order of the handshake.                  *)

(* What the client has been sent and what is still to be written.          *)
Shown == out \o todo

Whole == sock = "open" /\ ~gone

(* As long as nothing is lost, the replies, written or not, have as many   *)
(* ReadyForQuery as were asked for.                                        *)
InStep ==
  Whole => Readies(Shown) = Prompts(taken) + (IF phase \in {"greet", "ready"} THEN 1 ELSE 0)

SSLReplies == {<<>>, <<"S">>, <<"N">>}

(* How far the handshake has come in each phase.                           *)
Greeted ==
  \/ phase = "first" /\ Shown = <<>>
  \/ phase \in {"second", "tls"} /\ Shown \in SSLReplies
  \/ phase = "greet" /\ \E ssl \in SSLReplies : Shown = ssl \o Greeting
  \/ phase = "ready" /\ \E ssl \in SSLReplies : IsPrefix(ssl \o Greeting, out)
  \/ phase = "ended" /\ HandshakeOrder

(* The handler waits for a message with its replies written; a connection  *)
(* that has ended is closed.                                               *)
Turn == phase = "ended" => sock = "closed"

(* The answer to SSLRequest is 'S', written or not.                        *)
Sworn      == Shown # <<>> /\ Shown[1] = "S"
IsHello(i) == sent[i].op = "hello"

(* The client starts the TLS handshake once, and only in the tls phase is  *)
(* its half still to be read; nothing served before the greeting counts;   *)
(* a server that has agreed to TLS goes on after the handshake only.       *)
Secured ==
  /\ \A i, j \in DOMAIN sent : IsHello(i) /\ IsHello(j) => i = j
  /\ phase \notin {"tls", "ended"} => \A i \in DOMAIN sent : IsHello(i) => i <= taken
  /\ phase \in {"first", "second", "tls"} => Counted(taken) = {}
  /\ phase \in {"first", "second"} /\ Sworn => \E i \in 1 .. taken : IsHello(i)
  /\ phase \in {"greet", "ready"} /\ Sworn => \E i \in 1 .. (taken - 1) : IsHello(i)

Synced == InStep /\ Greeted /\ Turn /\ Secured

(* The positions of ReadyForQuery are finitely many.                       *)
LEMMA ReadiesFinite ==
  ASSUME NEW S, NEW s \in Seq(S)
  PROVE  /\ IsFiniteSet({i \in DOMAIN s : IsReady(s[i])})
         /\ Readies(s) \in Nat
<1>1. DOMAIN s = 1 .. Len(s) /\ Len(s) \in Nat
  BY LenProperties
<1>2. IsFiniteSet(1 .. Len(s))
  BY <1>1, FS_Interval
<1> DEFINE at == {i \in DOMAIN s : IsReady(s[i])}
<1>3. at \subseteq 1 .. Len(s) /\ Readies(s) = Cardinality(at)
  BY <1>1 DEF Readies
<1> HIDE DEF at
<1>4. IsFiniteSet(at) /\ Readies(s) \in Nat
  BY <1>2, <1>3, FS_Subset, FS_CardinalityType
<1> QED
  BY <1>4 DEF at

(* Replies without ReadyForQuery add none.                                 *)
LEMMA AddNone ==
  ASSUME NEW s \in Seq(ReplyKinds), NEW t \in Seq(ReplyKinds),
         \A i \in 1 .. Len(t) : ~IsReady(t[i])
  PROVE  Readies(s \o t) = Readies(s)
<1>1. /\ DOMAIN s = 1 .. Len(s) /\ Len(s) \in Nat /\ Len(t) \in Nat
      /\ s \o t \in Seq(ReplyKinds) /\ Len(s \o t) = Len(s) + Len(t)
      /\ DOMAIN (s \o t) = 1 .. Len(s \o t)
      /\ \A i \in 1 .. (Len(s) + Len(t)) : (s \o t)[i] = IF i <= Len(s) THEN s[i] ELSE t[i - Len(s)]
  BY ConcatProperties, LenProperties
<1> DEFINE u == s \o t
<1> HIDE DEF u
<1>2. {i \in DOMAIN u : IsReady(u[i])} = {i \in DOMAIN s : IsReady(s[i])}
  <2>1. ASSUME NEW i \in DOMAIN u, IsReady(u[i])
        PROVE  i \in DOMAIN s /\ IsReady(s[i])
    <3>1. i \in 1 .. (Len(s) + Len(t)) /\ u[i] = IF i <= Len(s) THEN s[i] ELSE t[i - Len(s)]
      BY <1>1 DEF u
    <3>2. i > Len(s) => i - Len(s) \in 1 .. Len(t)
      BY <1>1, <3>1
    <3>3. i <= Len(s)
      BY <1>1, <2>1, <3>1, <3>2
    <3> QED
      BY <1>1, <2>1, <3>1, <3>3
  <2>2. ASSUME NEW i \in DOMAIN s, IsReady(s[i])
        PROVE  i \in DOMAIN u /\ IsReady(u[i])
    <3>1. i \in 1 .. (Len(s) + Len(t)) /\ i <= Len(s)
      BY <1>1
    <3> QED
      BY <1>1, <2>2, <3>1 DEF u
  <2> QED
    BY <2>1, <2>2
<1> QED
  BY <1>2 DEF Readies, u

(* A list of replies that ends with ReadyForQuery adds one.                *)
LEMMA AddOne ==
  ASSUME NEW s \in Seq(ReplyKinds), NEW r \in ReplyKinds, IsReady(r)
  PROVE  Readies(Append(s, r)) = Readies(s) + 1
<1>1. /\ DOMAIN s = 1 .. Len(s) /\ Len(s) \in Nat
      /\ DOMAIN Append(s, r) = 1 .. (Len(s) + 1)
      /\ Append(s, r)[Len(s) + 1] = r
      /\ \A i \in 1 .. Len(s) : Append(s, r)[i] = s[i]
  BY AppendProperties, LenProperties
<1> DEFINE u == Append(s, r)
           at == {i \in DOMAIN s : IsReady(s[i])}
<1> HIDE DEF u
<1>2. {i \in DOMAIN u : IsReady(u[i])} = at \cup {Len(s) + 1} /\ Len(s) + 1 \notin at
  BY <1>1 DEF u
<1>3. IsFiniteSet(at) /\ Cardinality(at) = Readies(s)
  BY ReadiesFinite DEF Readies
<1>4. Readies(u) = Cardinality(at \cup {Len(s) + 1})
  BY <1>2 DEF Readies
<1> HIDE DEF at
<1>5. Cardinality(at \cup {Len(s) + 1}) = Cardinality(at) + 1
  BY <1>2, <1>3, FS_AddElement
<1> QED
  BY <1>3, <1>4, <1>5 DEF u

(* Taking a message counts it if it asks for ReadyForQuery.                *)
LEMMA TakeCounts ==
  ASSUME NEW n \in Nat
  PROVE  /\ Prompts(n) \in Nat
         /\ Prompts(n + 1) = Prompts(n) + IF sent[n + 1].op \in Prompting /\ ~InClear(n + 1) THEN 1 ELSE 0
         /\ Counted(0) = {}
         /\ Prompts(0) = 0
<1> DEFINE yes == sent[n + 1].op \in Prompting /\ ~InClear(n + 1)
<1>1. \A m : Prompts(m) = Cardinality(Counted(m))
  BY DEF Prompts
<1>2. Counted(n) \subseteq 1 .. n /\ n + 1 \notin Counted(n) /\ Counted(0) = {}
  BY DEF Counted
<1>3. Counted(n + 1) = IF yes THEN Counted(n) \cup {n + 1} ELSE Counted(n)
  BY DEF Counted
<1> HIDE DEF yes
<1>4. IsFiniteSet(Counted(n)) /\ Cardinality(Counted(n)) \in Nat
  <2>1. IsFiniteSet(1 .. n)
    BY FS_Interval
  <2>2. IsFiniteSet(Counted(n))
    BY <1>2, <2>1, FS_Subset
  <2> QED
    BY <2>2, FS_CardinalityType
<1>5. Cardinality(Counted(n + 1)) = Cardinality(Counted(n)) + IF yes THEN 1 ELSE 0
  <2>1. CASE yes
    <3>1. Cardinality(Counted(n) \cup {n + 1}) = Cardinality(Counted(n)) + 1
      BY <1>2, <1>4, FS_AddElement
    <3> QED
      BY <1>3, <2>1, <3>1
  <2>2. CASE ~yes
    BY <1>3, <1>4, <2>2
  <2> QED
    BY <2>1, <2>2
<1>6. Cardinality(Counted(0)) = 0
  BY <1>2, FS_EmptySet
<1> QED
  BY <1>1, <1>2, <1>4, <1>5, <1>6 DEF yes

(* What was sent stays where it is.                                        *)
LEMMA SentGrows ==
  ASSUME Traffic, NEW m, sent' = Append(sent, m)
  PROVE  /\ DOMAIN sent = 1 .. Len(sent) /\ Len(sent) \in Nat
         /\ DOMAIN sent' = 1 .. (Len(sent) + 1)
         /\ sent'[Len(sent) + 1] = m
         /\ \A i \in DOMAIN sent : sent'[i] = sent[i]
BY AppendProperties, LenProperties DEF Traffic

(* The front of a list is made of its first members.                       *)
LEMMA StartOfSeq ==
  ASSUME NEW S, NEW s \in Seq(S), NEW n \in Nat, n <= Len(s)
  PROVE  SubSeq(s, 1, n) = [i \in 1 .. n |-> s[i]]
<1>1. \A i \in 1 .. n : s[i] \in S
  BY ElementOfSeq
<1>2. SubSeq(s, 1, n) \in Seq(S) /\ Len(SubSeq(s, 1, n)) = n
      /\ \A i \in 1 .. n : SubSeq(s, 1, n)[i] = s[i]
  <2>1. /\ SubSeq(s, 1, n) \in Seq(S)
        /\ Len(SubSeq(s, 1, n)) = IF 1 <= n THEN n - 1 + 1 ELSE 0
        /\ \A i \in 1 .. n - 1 + 1 : SubSeq(s, 1, n)[i] = s[1 + i - 1]
    BY <1>1, SubSeqProperties
  <2> QED
    BY <2>1
<1> DEFINE f == SubSeq(s, 1, n)
<1> HIDE DEF f
<1>3. f = [i \in 1 .. n |-> s[i]]
  BY <1>2 DEF f
<1> QED
  BY <1>3 DEF f

(* A list of replies has itself in front of what is added to it.           *)
LEMMA PrefixGrows ==
  ASSUME NEW S, NEW p \in Seq(S), NEW s \in Seq(S), NEW t \in Seq(S), IsPrefix(p, s)
  PROVE  IsPrefix(p, s \o t)
<1>1. /\ Len(p) \in Nat /\ Len(s) \in Nat /\ Len(t) \in Nat
      /\ s \o t \in Seq(S) /\ Len(s \o t) = Len(s) + Len(t)
      /\ \A i \in 1 .. (Len(s) + Len(t)) : (s \o t)[i] = IF i <= Len(s) THEN s[i] ELSE t[i - Len(s)]
  BY ConcatProperties, LenProperties
<1>2. Len(p) <= Len(s) /\ SubSeq(p, 1, Len(p)) = SubSeq(s, 1, Len(p))
  BY DEF IsPrefix
<1> DEFINE u == s \o t
<1> HIDE DEF u
<1>3. SubSeq(s, 1, Len(p)) = SubSeq(u, 1, Len(p))
  <2>1. \A i \in 1 .. Len(p) : u[i] = s[i]
    BY <1>1, <1>2 DEF u
  <2>2. Len(p) <= Len(u) /\ u \in Seq(S)
    BY <1>1, <1>2 DEF u
  <2> QED
    BY <1>1, <1>2, <2>1, <2>2, StartOfSeq
<1> QED
  BY <1>1, <1>2, <1>3 DEF IsPrefix, u

(* It has itself in front.                                                 *)
LEMMA PrefixSelf ==
  ASSUME NEW S, NEW s \in Seq(S)
  PROVE  IsPrefix(s, s)
BY LenProperties DEF IsPrefix

(* The answers to SSLRequest, and the greeting, are replies.               *)
LEMMA Greetings ==
  /\ Greeting \in Seq(ReplyKinds)
  /\ \A ssl \in SSLReplies : ssl \in Seq(ReplyKinds) /\ ssl \o Greeting \in Seq(ReplyKinds)
<1>1. Greeting \in Seq(ReplyKinds)
  BY DEF Greeting, ReplyKinds
<1>2. \A ssl \in SSLReplies : ssl \in Seq(ReplyKinds)
  BY ReplyLists, ZenonT(30) DEF SSLReplies, ReplyKinds
<1> QED
  BY <1>1, <1>2, ConcatProperties

(* What is written is in front of what is shown.                           *)
LEMMA OutIsShown == Traffic => IsPrefix(out, Shown) /\ Shown \in Seq(ReplyKinds)
BY PrefixSelf, PrefixGrows, ConcatProperties DEF Traffic, Shown

(* In every phase of the handshake the client has seen a start of it.      *)
LEMMA GreetedInOrder == Traffic /\ Greeted => HandshakeOrder
<1> SUFFICES ASSUME Traffic, Greeted PROVE HandshakeOrder
  OBVIOUS
<1>1. IsPrefix(out, Shown) /\ Shown \in Seq(ReplyKinds) /\ out \in Seq(ReplyKinds)
  BY OutIsShown DEF Traffic
<1>2. SSLReplies = {<<>>, <<"S">>, <<"N">>} /\ <<>> \in SSLReplies
  BY DEF SSLReplies
<1>3. CASE Shown \in SSLReplies
  <2>1. IsPrefix(out, Shown \o Greeting)
    BY <1>1, <1>3, Greetings, PrefixGrows
  <2> QED
    BY <1>2, <1>3, <2>1 DEF HandshakeOrder
<1>4. ASSUME NEW ssl \in SSLReplies, Shown = ssl \o Greeting \/ IsPrefix(ssl \o Greeting, out)
      PROVE  HandshakeOrder
  BY <1>1, <1>2, <1>4 DEF HandshakeOrder
<1> QED
  BY <1>2, <1>3, <1>4 DEF Greeted

(* Writing a reply shows nothing new.                                      *)
LEMMA DeliverShows == Traffic /\ Deliver => Shown' = Shown /\ (Len(todo) = 1 => out' = Shown)
<1> SUFFICES ASSUME Traffic, Deliver PROVE Shown' = Shown /\ (Len(todo) = 1 => out' = Shown)
  OBVIOUS
<1>1. /\ todo \in Seq(ReplyKinds) /\ todo # <<>> /\ out \in Seq(ReplyKinds)
      /\ out' = Append(out, Head(todo)) /\ todo' = Tail(todo)
  BY DEF Traffic, Deliver
<1>2. Append(out, Head(todo)) \o Tail(todo) = out \o todo
  BY <1>1
<1>3. Len(todo) = 1 => Append(out, Head(todo)) = out \o todo
  BY <1>1
<1> QED
  BY <1>1, <1>2, <1>3 DEF Shown

(* A fresh connection has nothing to show and nothing to answer.           *)
LEMMA InitSynced == Init => Synced
<1> SUFFICES ASSUME Init PROVE Synced
  OBVIOUS
<1>1. out = <<>> /\ todo = <<>> /\ taken = 0 /\ phase = "first"
  BY DEF Init
<1>2. Shown = <<>>
  BY <1>1 DEF Shown
<1>3. Readies(<<>>) = 0
  <2>1. {i \in DOMAIN <<>> : IsReady((<<>>)[i])} = {}
    OBVIOUS
  <2> QED
    BY <2>1, FS_EmptySet DEF Readies
<1>4. Prompts(taken) = 0
  BY <1>1, TakeCounts
<1>5. Secured
  <2>1. sent = <<>> /\ DOMAIN sent = {}
    BY DEF Init
  <2>2. Counted(taken) = {} /\ ~Sworn
    BY <1>1, <1>2, TakeCounts DEF Sworn
  <2> QED
    BY <1>1, <2>1, <2>2 DEF Secured
<1> QED
  BY <1>1, <1>2, <1>3, <1>4, <1>5 DEF Synced, InStep, Greeted, Turn

(* A connection that ends keeps what the client has seen.                  *)
LEMMA EndSynced == Traffic /\ Synced /\ End /\ out' = out /\ sent' = sent => Synced'
<1> SUFFICES ASSUME Traffic, Synced, End, out' = out, sent' = sent PROVE Synced'
  OBVIOUS
<1>1. HandshakeOrder
  BY GreetedInOrder DEF Synced
<1>2. HandshakeOrder'
  BY <1>1 DEF HandshakeOrder
<1>3. Secured'
  BY DEF Synced, Secured, End, IsHello
<1> QED
  BY <1>2, <1>3 DEF Synced, InStep, Greeted, Turn, Whole, End

(* What the client and the network do asks for nothing yet.                *)
LEMMA ClientSynced == Traffic /\ Synced /\ (Send \/ Hello \/ Leave \/ Swept \/ Fetch) => Synced'
<1> SUFFICES ASSUME Traffic, Synced, Send \/ Hello \/ Leave \/ Swept \/ Fetch PROVE Synced'
  OBVIOUS
<1>1. UNCHANGED <<phase, taken, todo, out>>
  BY DEF Send, Hello, Leave, Swept, Fetch, reading
<1>2. Greeted'
  BY <1>1 DEF Synced, Greeted, Shown, HandshakeOrder
<1>3. Turn'
  BY <1>1 DEF Synced, Turn, Send, Hello, Leave, Swept, Fetch
<1>4. Sworn' = Sworn /\ Readies(Shown)' = Readies(Shown)
  BY <1>1 DEF Sworn, Shown, Readies
<1>5. InStep /\ Secured /\ Turn /\ taken \in Nat /\ taken <= Len(sent)
  BY DEF Synced, Traffic
<1>6. CASE Leave \/ Swept \/ Fetch
  <2>1. sent' = sent /\ (Whole' => Whole)
    BY <1>6 DEF Leave, Swept, Fetch, client, Whole
  <2>2. Counted(taken)' = Counted(taken) /\ Prompts(taken)' = Prompts(taken)
    BY <1>1, <2>1 DEF Prompts, Counted, InClear
  <2>3. Secured'
    BY <1>1, <1>4, <1>5, <2>1, <2>2 DEF Secured, IsHello
  <2>4. InStep'
    BY <1>1, <1>4, <1>5, <2>1, <2>2 DEF InStep
  <2> QED
    BY <1>2, <1>3, <2>3, <2>4 DEF Synced
<1>7. CASE Send
  <2>0. /\ driver.messages \in SUBSET {m \in Message : m.op # "hello"}
        /\ driver.opening \in SUBSET {"ssl", "startup", "garbage"}
    BY DriversAssumption DEF Traffic, Driver
  <2>1. \A op \in driver.opening : Plain(op).op # "hello"
    BY <2>0 DEF Plain
  <2>2. PICK m : sent' = Append(sent, m) /\ m.op # "hello"
    BY <1>7, <2>0, <2>1, Zenon DEF Send
  <2>3. /\ DOMAIN sent = 1 .. Len(sent) /\ Len(sent) \in Nat
        /\ DOMAIN sent' = 1 .. (Len(sent) + 1)
        /\ sent'[Len(sent) + 1] = m
        /\ \A i \in DOMAIN sent : sent'[i] = sent[i]
    BY <2>2, SentGrows
  <2>4. \A i \in DOMAIN sent' : IsHello(i)' <=> i \in DOMAIN sent /\ IsHello(i)
    BY <2>2, <2>3 DEF IsHello
  <2>5. \A i \in 1 .. taken : (sent'[i] = sent[i]) /\ (InClear(i)' <=> InClear(i))
    BY <1>5, <2>3, <2>4 DEF InClear, IsHello
  <2>6. Counted(taken)' = Counted(taken) /\ Prompts(taken)' = Prompts(taken)
    <3>1. Counted(taken)' = Counted(taken)
      BY <1>1, <2>5 DEF Counted
    <3> QED
      BY <3>1 DEF Prompts
  <2>7. Secured'
    BY <1>1, <1>4, <1>5, <2>3, <2>4, <2>6 DEF Secured
  <2>8. Whole' = Whole
    BY <1>7 DEF Send, Whole
  <2>9. InStep'
    BY <1>1, <1>4, <1>5, <2>6, <2>8 DEF InStep
  <2> QED
    BY <1>2, <1>3, <2>7, <2>9 DEF Synced
<1>8. CASE Hello
  <2>1. sent' = Append(sent, Plain("hello")) /\ Told /\ \A i \in DOMAIN sent : ~IsHello(i)
    BY <1>8 DEF Hello, IsHello
  <2>2. /\ DOMAIN sent = 1 .. Len(sent) /\ Len(sent) \in Nat
        /\ DOMAIN sent' = 1 .. (Len(sent) + 1)
        /\ sent'[Len(sent) + 1] = Plain("hello")
        /\ \A i \in DOMAIN sent : sent'[i] = sent[i]
    BY <2>1, SentGrows
  <2>3. Sworn
    BY <2>1 DEF Told, Sworn, Shown, Traffic
  <2>4. phase \in {"tls", "ended"}
    <3>1. phase \in {"first", "second"} => \E i \in 1 .. taken : IsHello(i)
      BY <1>5, <2>3 DEF Secured
    <3>2. phase \in {"greet", "ready"} => \E i \in 1 .. (taken - 1) : IsHello(i)
      BY <1>5, <2>3 DEF Secured
    <3>3. 1 .. taken \subseteq DOMAIN sent /\ 1 .. (taken - 1) \subseteq DOMAIN sent
      BY <1>5, <2>2
    <3> QED
      BY <2>1, <3>1, <3>2, <3>3 DEF Traffic, Phase
  <2>5. \A i \in DOMAIN sent' : IsHello(i)' <=> i = Len(sent) + 1
    BY <2>1, <2>2 DEF IsHello, Plain
  <2>6. Counted(taken)' = {}
    <3>1. \A i \in 1 .. taken : InClear(i)'
      BY <1>5, <2>2, <2>5 DEF InClear, IsHello
    <3> QED
      BY <1>1, <3>1 DEF Counted
  <2>7. Secured'
    BY <1>1, <2>2, <2>4, <2>5, <2>6 DEF Secured
  <2>8. Whole => phase = "tls"
    BY <1>5, <2>4 DEF Whole, Turn
  <2>9. phase = "tls" => Prompts(taken)' = Prompts(taken)
    BY <1>5, <2>6 DEF Secured, Prompts
  <2>10. InStep'
    <3>1. Whole' = Whole
      BY <1>8 DEF Hello, Whole
    <3> QED
      BY <1>1, <1>4, <1>5, <2>8, <2>9, <3>1 DEF InStep
  <2> QED
    BY <1>2, <1>3, <2>7, <2>10 DEF Synced
<1> QED
  BY <1>6, <1>7, <1>8

(* Once something is written, the first reply shown is the first written.  *)
LEMMA SwornIsTold == Traffic /\ out # <<>> => (Sworn <=> Told)
BY DEF Traffic, Sworn, Told, Shown

(* What follows it does not change it.                                     *)
LEMMA StaysSworn ==
  ASSUME Traffic, out # <<>>, out' = out, todo' \in Seq(ReplyKinds)
  PROVE  Sworn' <=> Sworn
<1>1. out \in Seq(ReplyKinds) /\ todo \in Seq(ReplyKinds)
  BY DEF Traffic
<1>2. Shown # <<>> /\ Shown[1] = out[1]
  BY <1>1 DEF Shown
<1>3. Shown' # <<>> /\ Shown'[1] = out[1]
  BY <1>1 DEF Shown
<1> QED
  BY <1>2, <1>3 DEF Sworn

(* After the handshake something is written.                               *)
LEMMA GreetedIsTold == Traffic /\ Greeted /\ phase = "ready" => out # <<>>
<1> SUFFICES ASSUME Traffic, Greeted, phase = "ready" PROVE out # <<>>
  OBVIOUS
<1>1. PICK ssl \in SSLReplies : IsPrefix(ssl \o Greeting, out)
  BY DEF Greeted
<1>2. ssl \in Seq(ReplyKinds) /\ Greeting \in Seq(ReplyKinds) /\ Len(Greeting) = 4
  BY Greetings DEF Greeting
<1>3. Len(ssl \o Greeting) = Len(ssl) + 4 /\ Len(ssl) \in Nat
  <2>1. \A a, b \in Seq(ReplyKinds) : Len(a \o b) = Len(a) + Len(b) /\ Len(a) \in Nat
    OBVIOUS
  <2> QED
    BY <1>2, <2>1
<1>4. Len(ssl \o Greeting) <= Len(out)
  BY <1>1 DEF IsPrefix
<1> QED
  BY <1>3, <1>4 DEF Traffic

(* Reading, and writing a reply, change neither what is shown nor what was *)
(* asked for; a reply is only lost when something is lost.                 *)
LEMMA LoopSynced == Traffic /\ Synced /\ (ReadFails \/ Deliver \/ Lose) => Synced'
<1> SUFFICES ASSUME Traffic, Synced, ReadFails \/ Deliver \/ Lose PROVE Synced'
  OBVIOUS
<1>1. CASE ReadFails
  BY <1>1, EndSynced DEF ReadFails, client
<1>2. CASE Deliver
  <2>1. Shown' = Shown /\ (Len(todo) = 1 => out' = Shown)
    BY <1>2, DeliverShows
  <2>2. UNCHANGED <<sent, gone, taken, sock>> /\ sock = "open" /\ ~gone /\ phase # "ended"
    BY <1>2 DEF Deliver, client, reading, Synced, Turn
  <2>3. phase' = IF phase = "greet" /\ Len(todo) = 1 THEN "ready" ELSE phase
    BY <1>2 DEF Deliver
  <2>4. InStep'
    <3>1. Prompts(taken)' = Prompts(taken) /\ Readies(Shown)' = Readies(Shown)
      BY <2>1, <2>2 DEF Prompts, Counted, InClear, Readies
    <3> QED
      BY <2>2, <2>3, <3>1 DEF Synced, InStep, Whole
  <2>5. Greeted'
    <3>1. CASE phase = "ready"
      <4>1. PICK ssl \in SSLReplies : IsPrefix(ssl \o Greeting, out)
        BY <3>1 DEF Synced, Greeted
      <4>2. out \in Seq(ReplyKinds) /\ todo \in Seq(ReplyKinds) /\ todo # <<>> /\ out' = Append(out, Head(todo))
        BY <1>2 DEF Traffic, Deliver
      <4>3. out' = out \o <<Head(todo)>> /\ <<Head(todo)>> \in Seq(ReplyKinds)
        BY <4>2
      <4>4. IsPrefix(ssl \o Greeting, out')
        BY <4>1, <4>2, <4>3, Greetings, PrefixGrows
      <4> QED
        BY <2>3, <3>1, <4>4 DEF Greeted
    <3>2. CASE phase = "greet" /\ Len(todo) = 1
      <4>1. PICK ssl \in SSLReplies : out' = ssl \o Greeting
        BY <2>1, <3>2 DEF Synced, Greeted
      <4>2. IsPrefix(ssl \o Greeting, out')
        BY <4>1, Greetings, PrefixSelf
      <4> QED
        BY <2>3, <3>2, <4>2 DEF Greeted
    <3>3. CASE phase \notin {"ready", "ended"} /\ ~(phase = "greet" /\ Len(todo) = 1)
      BY <2>1, <2>3, <3>3 DEF Synced, Greeted
    <3> QED
      BY <2>2, <3>1, <3>2, <3>3
  <2>6. Secured'
    <3>1. /\ Sworn' = Sworn /\ Counted(taken)' = Counted(taken)
          /\ \A i : IsHello(i)' <=> IsHello(i)
      BY <2>1, <2>2 DEF Sworn, Counted, InClear, IsHello
    <3> QED
      BY <2>2, <2>3, <3>1 DEF Synced, Secured
  <2> QED
    BY <2>2, <2>3, <2>4, <2>5, <2>6 DEF Synced, Turn
<1>3. CASE Lose
  <2>1. CASE phase = "ready"
    <3>1. phase' = "ready" /\ UNCHANGED <<out, sock, gone>> /\ (sock = "closed" \/ gone)
      BY <1>3, <2>1 DEF Lose, client
    <3>2. Greeted'
      BY <2>1, <3>1 DEF Synced, Greeted
    <3>3. Sworn' <=> Sworn
      <4>1. todo' \in Seq(ReplyKinds)
        BY <1>3, LoopTraffic DEF Traffic
      <4> QED
        BY <2>1, <3>1, <4>1, StaysSworn, GreetedIsTold DEF Synced
    <3>4. Secured'
      BY <1>3, <2>1, <3>1, <3>3 DEF Synced, Secured, IsHello, Lose, client, reading
    <3> QED
      BY <3>1, <3>2, <3>4 DEF Synced, InStep, Whole, Turn
  <2>2. CASE phase # "ready"
    BY <1>3, <2>2, EndSynced DEF Lose, client
  <2> QED
    BY <2>1, <2>2
<1> QED
  BY <1>1, <1>2, <1>3

(* Taking a message, with all replies written, counts it if it prompts.    *)
LEMMA TakeSynced ==
  ASSUME Traffic, Synced, HasNext, taken' = taken + 1, UNCHANGED sent, phase \notin {"tls", "ended"}
  PROVE  /\ Shown = out /\ out \in Seq(ReplyKinds) /\ Prompts(taken) \in Nat
         /\ Msg.op \in Prompting => Prompts(taken)' = Prompts(taken) + 1
         /\ Msg.op \notin Prompting => Prompts(taken)' = Prompts(taken)
         /\ Whole => Readies(out) = Prompts(taken) + (IF phase \in {"greet", "ready"} THEN 1 ELSE 0)
<1>1. Shown = out /\ out \in Seq(ReplyKinds)
  BY DEF HasNext, Shown, Traffic
<1>2. Prompts(taken)' = Prompts(taken + 1)
  BY DEF Prompts, Counted, InClear
<1>3. taken \in Nat
  BY DEF Traffic
<1>8. ~InClear(taken + 1)
  BY <1>3 DEF Synced, Secured, InClear, IsHello, Traffic
<1>4. /\ Prompts(taken) \in Nat
      /\ Prompts(taken + 1) = Prompts(taken) + IF Msg.op \in Prompting THEN 1 ELSE 0
  BY <1>3, <1>8, TakeCounts DEF Msg
<1>5. Msg.op \in Prompting => Prompts(taken)' = Prompts(taken) + 1
  BY <1>2, <1>4
<1>6. Msg.op \notin Prompting => Prompts(taken)' = Prompts(taken)
  BY <1>2, <1>4
<1>7. Whole => Readies(out) = Prompts(taken) + (IF phase \in {"greet", "ready"} THEN 1 ELSE 0)
  BY <1>1 DEF Synced, InStep
<1> QED
  BY <1>1, <1>4, <1>5, <1>6, <1>7

(* Taking a message keeps the handshake's messages in their place.         *)
LEMMA TakeSecured ==
  ASSUME Traffic, Secured, HasNext, taken' = taken + 1, UNCHANGED sent, phase \notin {"tls", "ended"},
         phase' \in {"first", "second", "tls"} => phase \in {"first", "second"} /\ Msg.op \notin Prompting,
         phase' \in {"first", "second"} => ~Sworn',
         phase' \in {"greet", "ready"} => (Sworn' => Sworn)
  PROVE  Secured'
<1>1. taken \in Nat /\ phase \in {"first", "second", "greet", "ready"}
  BY DEF Traffic, Phase
<1>2. \A i : IsHello(i)' <=> IsHello(i)
  BY DEF IsHello
<1>3. /\ \A i, j \in DOMAIN sent' : IsHello(i)' /\ IsHello(j)' => i = j
      /\ \A i \in DOMAIN sent' : IsHello(i)' => i <= taken'
  BY <1>1, <1>2 DEF Secured, Traffic
<1>4. ASSUME phase' \in {"first", "second", "tls"} PROVE Counted(taken)' = {}
  <2>1. Counted(taken) = {} /\ sent[taken + 1].op \notin Prompting
    BY <1>4 DEF Secured, Msg
  <2>2. Counted(taken + 1) = {}
    BY <1>1, <2>1 DEF Counted
  <2> QED
    BY <2>2 DEF Counted, InClear
<1>5. ASSUME phase' \in {"greet", "ready"}, Sworn' PROVE \E i \in 1 .. (taken' - 1) : IsHello(i)'
  <2>1. \E i \in 1 .. taken : IsHello(i)
    BY <1>1, <1>5 DEF Secured
  <2> QED
    BY <1>1, <1>2, <2>1
<1> QED
  BY <1>3, <1>4, <1>5 DEF Secured

(* The handshake: its messages ask for nothing but the greeting.           *)
LEMMA OpenSynced == Traffic /\ Synced /\ Opens => Synced'
<1> SUFFICES ASSUME Traffic, Synced, Opens PROVE Synced'
  OBVIOUS
<1>0. Prompting \cap {"startup", "ssl", "garbage"} = {}
  BY DEF Prompting
<1>1. CASE Startup
  <2>1. /\ phase \in {"first", "second"} /\ phase' = "greet" /\ HasNext /\ Msg.op = "startup"
        /\ taken' = taken + 1 /\ todo' = Greeting /\ UNCHANGED <<sent, gone, sock, out>>
    BY <1>1 DEF Startup, Opened, Greeting, client
  <2>2. /\ Shown = out /\ out \in Seq(ReplyKinds) /\ Prompts(taken) \in Nat
        /\ Prompts(taken)' = Prompts(taken)
        /\ Whole => Readies(out) = Prompts(taken)
    BY <1>0, <2>1, TakeSynced
  <2>3. Shown' = out \o Greeting
    BY <2>1 DEF Shown
  <2>4. out \in SSLReplies
    BY <2>1, <2>2 DEF Synced, Greeted, SSLReplies
  <2>5. Readies(out \o Greeting) = Readies(out) + 1
    <3> DEFINE pre == <<"AuthOK", "Params", "Key">>
    <3>1. pre \in Seq(ReplyKinds) /\ Len(pre) = 3 /\ Greeting = Append(pre, "ReadyI")
      BY DEF Greeting, ReplyKinds
    <3>2. \A i \in 1 .. Len(pre) : ~IsReady(pre[i])
      BY DEF IsReady
    <3>3. "ReadyI" \in ReplyKinds /\ IsReady("ReadyI")
      BY DEF IsReady, ReplyKinds
    <3> HIDE DEF pre
    <3>4. Readies(out \o pre) = Readies(out) /\ out \o pre \in Seq(ReplyKinds)
      BY <2>2, <3>1, <3>2, AddNone, ConcatProperties
    <3>5. out \o Greeting = Append(out \o pre, "ReadyI")
      BY <2>2, <3>1, <3>3
    <3> QED
      BY <3>3, <3>4, <3>5, AddOne
  <2>6. InStep'
    <3>1. Readies(Shown)' = Readies(out \o Greeting)
      BY <2>3 DEF Readies
    <3> QED
      BY <2>1, <2>2, <2>5, <3>1 DEF InStep, Whole
  <2>7. Secured'
    <3>1. Sworn' => Sworn
      <4>1. CASE out = <<>>
        <5>1. Shown' = Greeting /\ Greeting[1] = "AuthOK"
          BY <2>3, <4>1, Greetings DEF Greeting
        <5> QED
          BY <5>1 DEF Sworn
      <4>2. CASE out # <<>>
        BY <2>1, <4>2, Greetings, StaysSworn
      <4> QED
        BY <4>1, <4>2
    <3> QED
      BY <2>1, <3>1, TakeSecured DEF Synced
  <2> QED
    BY <2>1, <2>3, <2>4, <2>6, <2>7 DEF Synced, Greeted, Turn
<1>2. CASE SSLRequest
  <2>1. /\ phase = "first" /\ phase' \in {"second", "tls"} /\ HasNext /\ Msg.op = "ssl"
        /\ taken' = taken + 1 /\ todo' \in {<<"S">>, <<"N">>} /\ UNCHANGED <<sent, gone, sock, out>>
    BY <1>2 DEF SSLRequest, Opened, client
  <2>7. phase' = "second" => todo' = <<"N">>
    BY <1>2 DEF SSLRequest
  <2>2. /\ Shown = out /\ out \in Seq(ReplyKinds) /\ Prompts(taken) \in Nat
        /\ Prompts(taken)' = Prompts(taken)
        /\ Whole => Readies(out) = Prompts(taken)
    BY <1>0, <2>1, TakeSynced
  <2>3. out = <<>>
    BY <2>1, <2>2 DEF Synced, Greeted
  <2>4. Shown' = todo'
    BY <2>1, <2>3 DEF Shown
  <2>5. InStep'
    <3>1. todo' \in Seq(ReplyKinds) /\ \A i \in 1 .. Len(todo') : ~IsReady(todo'[i])
      <4>1. \A r \in {"S", "N"} : <<r>> \in Seq(ReplyKinds) /\ Len(<<r>>) = 1 /\ <<r>>[1] = r
        BY DEF ReplyKinds
      <4>2. PICK r \in {"S", "N"} : todo' = <<r>>
        BY <2>1
      <4>3. ~IsReady(r)
        BY <4>2 DEF IsReady
      <4> QED
        BY <4>1, <4>2, <4>3
    <3>2. Readies(out \o todo') = Readies(out)
      BY <2>1, <2>2, <3>1, AddNone
    <3>3. Readies(Shown)' = Readies(out)
      BY <2>1, <3>2 DEF Readies, Shown
    <3> QED
      BY <2>1, <2>2, <3>3 DEF InStep, Whole
  <2>6. Greeted' /\ Turn'
    BY <2>1, <2>4 DEF Greeted, Turn, SSLReplies
  <2>8. Secured'
    <3>1. phase' = "second" => ~Sworn'
      BY <2>4, <2>7 DEF Sworn
    <3> QED
      BY <1>0, <2>1, <3>1, TakeSecured DEF Synced
  <2> QED
    BY <2>5, <2>6, <2>8 DEF Synced
<1>3. CASE Upgrade
  <2>1. phase = "tls" /\ phase' = "second" /\ UNCHANGED <<sent, gone, sock, todo, out>>
    BY <1>3 DEF Upgrade, client
  <2>2. /\ taken' = fetched + 1 /\ fetched \in Nat /\ fetched + 1 \in DOMAIN sent
        /\ IsHello(fetched + 1) /\ sent[fetched + 1].op = "hello"
    BY <1>3 DEF Upgrade, NextOnWire, IsHello, Traffic
  <2>3. Counted(taken)' = {}
    <3>1. ASSUME NEW i \in 1 .. (fetched + 1) PROVE ~(sent[i].op \in Prompting /\ ~InClear(i))
      <4>1. CASE i = fetched + 1
        BY <2>2, <4>1 DEF Prompting
      <4>2. CASE i # fetched + 1
        BY <2>2, <4>2 DEF InClear
      <4> QED
        BY <4>1, <4>2
    <3> QED
      BY <2>1, <2>2, <3>1 DEF Counted, InClear
  <2>4. Prompts(taken)' = Prompts(taken)
    BY <2>1, <2>3 DEF Synced, Secured, Prompts
  <2>5. InStep'
    BY <2>1, <2>4 DEF Synced, InStep, Whole, Shown, Readies
  <2>6. Secured'
    <3>1. /\ \A i : IsHello(i)' <=> IsHello(i)
          /\ \A i, j \in DOMAIN sent : IsHello(i) /\ IsHello(j) => i = j
      BY <2>1 DEF IsHello, Synced, Secured
    <3>2. \A i \in DOMAIN sent' : IsHello(i)' => i <= taken'
      BY <2>1, <2>2, <3>1
    <3>3. \E i \in 1 .. taken' : IsHello(i)'
      BY <2>2, <3>1
    <3> QED
      BY <2>1, <2>3, <3>1, <3>2, <3>3 DEF Secured
  <2> QED
    BY <2>1, <2>5, <2>6 DEF Synced, Greeted, Turn, Shown
<1>4. CASE UpgradeFails \/ Reject
  BY <1>4, EndSynced DEF UpgradeFails, Reject, client
<1> QED
  BY <1>1, <1>2, <1>3, <1>4 DEF Opens

(* Replies without ReadyForQuery, and replies that end with the only one.  *)
Calm(replies)     == replies \in Seq(ReplyKinds) /\ \A i \in 1 .. Len(replies) : ~IsReady(replies[i])
Prompted(replies) == \E pre, last : Calm(pre) /\ last \in ReplyKinds /\ IsReady(last) /\ replies = pre \o <<last>>

(* processMessage takes a message of kind op, writes nothing itself and    *)
(* only ever closes the socket.                                            *)
Serving(op) ==
  /\ phase = "ready" /\ phase' = "ready" /\ HasNext /\ Msg.op = op /\ taken' = taken + 1
  /\ UNCHANGED <<sent, gone, out>> /\ (sock' = "open" => sock = "open")

(* A message that prompts adds one ReadyForQuery, any other none.          *)
LEMMA ServingSynced ==
  ASSUME Traffic, Synced, NEW op, Serving(op), IF op \in Prompting THEN Prompted(todo') ELSE Calm(todo')
  PROVE  Synced'
<1>1. /\ phase = "ready" /\ phase' = "ready" /\ HasNext /\ Msg.op = op /\ taken' = taken + 1
      /\ UNCHANGED <<sent, gone, out>> /\ (sock' = "open" => sock = "open")
  BY DEF Serving
<1>2. /\ Shown = out /\ out \in Seq(ReplyKinds) /\ Prompts(taken) \in Nat
      /\ Msg.op \in Prompting => Prompts(taken)' = Prompts(taken) + 1
      /\ Msg.op \notin Prompting => Prompts(taken)' = Prompts(taken)
      /\ Whole => Readies(out) = Prompts(taken) + (IF phase \in {"greet", "ready"} THEN 1 ELSE 0)
  BY <1>1, TakeSynced
<1>3. Readies(Shown)' = Readies(out \o todo')
  BY <1>1 DEF Shown, Readies
<1>4. Whole' => Whole
  BY <1>1 DEF Whole
<1>8. todo' \in Seq(ReplyKinds)
  <2>1. CASE Prompted(todo')
    <3>1. PICK pre, last : Calm(pre) /\ last \in ReplyKinds /\ todo' = pre \o <<last>>
      BY <2>1 DEF Prompted
    <3>2. pre \in Seq(ReplyKinds) /\ <<last>> \in Seq(ReplyKinds)
      BY <3>1 DEF Calm
    <3> QED
      BY <3>1, <3>2, ConcatProperties
  <2> QED
    BY <2>1 DEF Calm
<1>5. InStep'
  <2>1. CASE op \in Prompting
    <3>1. PICK pre, last : Calm(pre) /\ last \in ReplyKinds /\ IsReady(last) /\ todo' = pre \o <<last>>
      BY <2>1 DEF Prompted
    <3>2. pre \in Seq(ReplyKinds) /\ Readies(out \o pre) = Readies(out) /\ out \o pre \in Seq(ReplyKinds)
      BY <1>2, <3>1, AddNone, ConcatProperties DEF Calm
    <3>3. out \o todo' = Append(out \o pre, last)
      BY <1>2, <3>1, <3>2
    <3>4. Readies(out \o todo') = Readies(out) + 1
      BY <3>1, <3>2, <3>3, AddOne
    <3> QED
      BY <1>1, <1>2, <1>3, <1>4, <2>1, <3>4 DEF InStep
  <2>2. CASE op \notin Prompting
    <3>1. Readies(out \o todo') = Readies(out)
      BY <1>2, <2>2, AddNone DEF Calm
    <3> QED
      BY <1>1, <1>2, <1>3, <1>4, <2>2, <3>1 DEF InStep
  <2> QED
    BY <2>1, <2>2
<1>6. Greeted' /\ Turn'
  BY <1>1 DEF Synced, Greeted, Turn
<1>7. Secured'
  <2>1. Sworn' => Sworn
    BY <1>1, <1>8, GreetedIsTold, StaysSworn DEF Synced
  <2> QED
    BY <1>1, <2>1, TakeSecured DEF Synced
<1> QED
  BY <1>5, <1>6, <1>7 DEF Synced

(* The replies of the handlers.                                            *)
LEMMA CalmReplies ==
  /\ Calm(<<>>)
  /\ \A a \in ReplyKinds \ {"ReadyI", "ReadyT"} : Calm(<<a>>)
  /\ \A a, b \in ReplyKinds \ {"ReadyI", "ReadyT"} : Calm(<<a, b>>)
  /\ \A o \in Outcome : Calm(Replies(o))
<1>0. \A a \in ReplyKinds \ {"ReadyI", "ReadyT"} : ~IsReady(a)
  BY DEF ReplyKinds, IsReady
<1>1. Calm(<<>>)
  BY DEF Calm
<1>2. \A a \in ReplyKinds \ {"ReadyI", "ReadyT"} : Calm(<<a>>)
  BY <1>0 DEF Calm
<1>3. \A a, b \in ReplyKinds \ {"ReadyI", "ReadyT"} : Calm(<<a, b>>)
  BY <1>0 DEF Calm
<1>4. \A a, b, c \in ReplyKinds \ {"ReadyI", "ReadyT"} : Calm(<<a, b, c>>)
  BY <1>0 DEF Calm
<1>5. {"RowDesc", "Data", "Complete", "Error"} \subseteq ReplyKinds \ {"ReadyI", "ReadyT"}
  BY DEF ReplyKinds
<1>6. ASSUME NEW o \in Outcome PROVE Calm(Replies(o))
  <2>1. /\ Replies("rows") = <<"RowDesc", "Data", "Complete">> /\ Replies("tag") = <<"Complete">>
        /\ Replies("fail") = <<"Error">> /\ Replies("drop") = <<>>
    BY DEF Replies
  <2>2. Calm(Replies("rows"))
    BY <1>4, <1>5, <2>1
  <2>3. Calm(Replies("tag")) /\ Calm(Replies("fail"))
    BY <1>2, <1>5, <2>1
  <2>4. Calm(Replies("drop"))
    BY <1>1, <2>1, Zenon
  <2> QED
    BY <2>2, <2>3, <2>4 DEF Outcome
<1> QED
  BY <1>1, <1>2, <1>3, <1>6

(* Every ReadyForQuery is one.                                             *)
LEMMA ReadyIsReady == \A tx : Ready(tx) \in ReplyKinds /\ IsReady(Ready(tx))
BY DEF Ready, IsReady, ReplyKinds

(* The replies to an outcome, with what is to follow them.                 *)
LEMMA RespondReplies ==
  ASSUME Traffic, NEW t \in Texts, NEW last, Respond(t, last)
  PROVE  /\ \E pre : Calm(pre) /\ todo' = pre \o last
         /\ sock' = "open" => sock = "open"
<1>1. PICK o \in Outcome : /\ todo' = Replies(o) \o last
                           /\ sock' = IF o = "drop" THEN "closed" ELSE sock
  BY OutcomesAssumption DEF Respond
<1>2. Calm(Replies(o))
  BY CalmReplies
<1> QED
  BY <1>1, <1>2

(* processMessage keeps client and server in step.                         *)
LEMMA ServeSynced == IInv /\ Synced /\ Serves => Synced'
<1> SUFFICES ASSUME IInv, Synced, Serves PROVE Synced'
  OBVIOUS
<1>0. Traffic /\ Pointers
  BY DEF IInv
<1> DEFINE quiet == ReplyKinds \ {"ReadyI", "ReadyT"}
<1>00. /\ "Error" \in quiet /\ "Empty" \in quiet /\ "ParseComplete" \in quiet /\ "BindComplete" \in quiet
       /\ "ParamDesc" \in quiet /\ "NoData" \in quiet /\ "RowDesc" \in quiet /\ "CloseComplete" \in quiet
  BY DEF ReplyKinds
<1> HIDE DEF quiet
<1>01. /\ \A a \in quiet : Calm(<<a>>)
       /\ \A a, b \in quiet : Calm(<<a, b>>)
  BY CalmReplies DEF quiet
<1>02. \A pre, tx : Calm(pre) => Prompted(pre \o <<Ready(tx)>>)
  BY ReadyIsReady DEF Prompted
<1>03. /\ {"Query", "Sync", "Unknown"} \subseteq Prompting
       /\ {"Parse", "Bind", "Describe", "Execute", "Close", "Flush"} \cap Prompting = {}
  BY DEF Prompting
<1>1. CASE SimpleQuery
  <2>1. Msg.text \in Texts
    BY <1>0, <1>1, TakenMessage DEF SimpleQuery, Take, Message
  <2>2. Prompted(todo') /\ (sock' = "open" => sock = "open")
    <3>0. /\ \A a, b \in ReplyKinds : <<a, b>> = <<a>> \o <<b>>
          /\ "Error" \in ReplyKinds /\ "Empty" \in ReplyKinds /\ \A tx : Ready(tx) \in ReplyKinds
      <4>1. ASSUME NEW a \in ReplyKinds, NEW b \in ReplyKinds
            PROVE  <<a, b>> = <<a>> \o <<b>>
        <5>1. <<a, b>> = Append(<<a>>, b)
          OBVIOUS
        <5>2. \A s \in Seq(ReplyKinds) : Append(s, b) = s \o <<b>>
          OBVIOUS
        <5>3. <<a>> \in Seq(ReplyKinds)
          OBVIOUS
        <5> QED
          BY <5>1, <5>2, <5>3, Zenon
      <4> QED
        BY <1>00, <4>1, ReadyIsReady DEF quiet
    <3>2. CASE EmptyQuery
      <4>1. todo' = <<"Empty">> \o <<Ready(txStatus)>> /\ sock' = sock
        BY <3>0, <3>2 DEF EmptyQuery, Say
      <4> QED
        BY <4>1, <1>00, <1>01, <1>02
    <3>3. CASE RunQuery
      <4>1. Respond(Msg.text, <<Ready(txStatus')>>)
        BY <3>3 DEF RunQuery
      <4>2. PICK pre : Calm(pre) /\ todo' = pre \o <<Ready(txStatus')>>
        BY <1>0, <2>1, <4>1, RespondReplies
      <4> QED
        BY <1>0, <1>02, <2>1, <4>1, <4>2, RespondReplies
    <3> QED
      BY <1>1, <3>2, <3>3 DEF SimpleQuery
  <2>3. Serving("Query")
    BY <1>1, <2>2 DEF SimpleQuery, Take, Serving, client
  <2> QED
    BY <1>0, <1>03, <2>2, <2>3, ServingSynced
<1>2. CASE Parse
  <2>1. Calm(todo') /\ sock' = sock
    BY <1>2, <1>00, <1>01 DEF Parse, Say
  <2>2. Serving("Parse")
    BY <1>2, <2>1 DEF Parse, Take, Serving, client
  <2> QED
    BY <1>0, <1>03, <2>1, <2>2, ServingSynced
<1>3. CASE Bind
  <2>1. Calm(todo') /\ sock' = sock
    BY <1>3, <1>00, <1>01 DEF Bind, Say
  <2>2. Serving("Bind")
    BY <1>3, <2>1 DEF Bind, Take, Serving, client
  <2> QED
    BY <1>0, <1>03, <2>1, <2>2, ServingSynced
<1>4. CASE Describe
  <2>1. Calm(todo') /\ sock' = sock
    BY <1>4, <1>00, <1>01 DEF Describe, Say, Columns
  <2>2. Serving("Describe")
    BY <1>4, <2>1 DEF Describe, Take, Serving, client
  <2> QED
    BY <1>0, <1>03, <2>1, <2>2, ServingSynced
<1>5. CASE Execute
  <2>1. Calm(todo') /\ (sock' = "open" => sock = "open")
    <3>1. Lookup(portals, Msg.name) \in Texts
      BY <1>0, LookupText
    <3>2. CASE Say(<<"Error">>)
      BY <3>2, <1>00, <1>01 DEF Say
    <3>3. CASE Respond(Lookup(portals, Msg.name), <<>>)
      <4>1. PICK pre : Calm(pre) /\ todo' = pre \o <<>>
        BY <1>0, <3>1, <3>3, RespondReplies
      <4>2. todo' = pre
        BY <4>1 DEF Calm
      <4> QED
        BY <1>0, <3>1, <3>3, <4>1, <4>2, RespondReplies
    <3> QED
      BY <1>5, <3>2, <3>3 DEF Execute
  <2>2. Serving("Execute")
    BY <1>5, <2>1 DEF Execute, Take, Serving, client
  <2> QED
    BY <1>0, <1>03, <2>1, <2>2, ServingSynced
<1>6. CASE Close
  <2>1. Calm(todo') /\ sock' = sock
    BY <1>6, <1>00, <1>01 DEF Close, Say
  <2>2. Serving("Close")
    BY <1>6, <2>1 DEF Close, Take, Serving, client
  <2> QED
    BY <1>0, <1>03, <2>1, <2>2, ServingSynced
<1>7. CASE Flush
  <2>1. Calm(todo') /\ sock' = sock
    BY <1>7, CalmReplies DEF Flush, Say
  <2>2. Serving("Flush")
    BY <1>7, <2>1 DEF Flush, Take, Serving, client
  <2> QED
    BY <1>0, <1>03, <2>1, <2>2, ServingSynced
<1>8. CASE Sync
  <2>1. Prompted(todo') /\ sock' = sock
    <3>1. todo' = <<>> \o <<Ready(txStatus)>> /\ sock' = sock
      BY <1>8 DEF Sync, Say
    <3> QED
      BY <1>02, <3>1, CalmReplies
  <2>2. Serving("Sync") \/ Serving("Unknown")
    BY <1>8, <2>1 DEF Sync, Take, Serving, client
  <2> QED
    BY <1>0, <1>03, <2>1, <2>2, ServingSynced
<1>9. CASE Terminate \/ BadHeader \/ BindPanics
  BY <1>0, <1>9, EndSynced DEF Terminate, BadHeader, BindPanics, client
<1> QED
  BY <1>1, <1>2, <1>3, <1>4, <1>5, <1>6, <1>7, <1>8, <1>9 DEF Serves

(* Client and server stay in step, and the handshake in order.             *)
THEOREM SessionSynced == Spec => []Synced
<1>1. IInv /\ Synced /\ [Next]_vars => Synced'
  <2> SUFFICES ASSUME IInv, Synced, [Next]_vars PROVE Synced'
    OBVIOUS
  <2>0. Traffic
    BY DEF IInv
  <2>1. CASE UNCHANGED vars
    <3>1. /\ Shown' = Shown /\ Sworn' = Sworn /\ Whole' = Whole /\ Readies(Shown)' = Readies(Shown)
          /\ Counted(taken)' = Counted(taken) /\ Prompts(taken)' = Prompts(taken) /\ HandshakeOrder' = HandshakeOrder
          /\ UNCHANGED <<sent, taken, phase, sock, out>> /\ \A i : IsHello(i)' <=> IsHello(i)
      BY <2>1 DEF vars, client, reading, Sworn, Whole, Shown, Prompts, Counted, InClear, Readies, HandshakeOrder, IsHello
    <3> QED
      BY <3>1 DEF Synced, InStep, Greeted, Turn, Secured
  <2> QED
    BY <2>0, <2>1, ClientSynced, LoopSynced, OpenSynced, ServeSynced DEF Next, Handle, Rest
<1> QED
  BY InitSynced, SessionInvariance, <1>1, PTL DEF Spec

(* A client that counts ReadyForQuery to pair replies with requests stays  *)
(* in step, whatever it pipelines and whatever fails (conn_handler.go:     *)
(* 171-254).                                                               *)
THEOREM SyncPointsHold == Spec => []SyncPoints
<1>1. IInv /\ Synced => SyncPoints
  <2> SUFFICES ASSUME IInv, Synced, phase = "ready", todo = <<>>, Whole
               PROVE  Readies(out) = 1 + Prompts(taken)
    BY DEF SyncPoints, Whole
  <2>1. Shown = out
    BY DEF IInv, Traffic, Shown
  <2>2. Prompts(taken) \in Nat
    BY TakeCounts DEF IInv, Traffic
  <2> QED
    BY <2>1, <2>2 DEF Synced, InStep
<1> QED
  BY SessionInvariance, SessionSynced, <1>1, PTL

(* The client sees at most one answer to SSLRequest, then the greeting, in *)
(* order, and nothing before it (conn_handler.go:103-169).                 *)
THEOREM HandshakeInOrder == Spec => []HandshakeOrder
<1>1. IInv /\ Synced => HandshakeOrder
  BY GreetedInOrder DEF IInv, Synced
<1> QED
  BY SessionInvariance, SessionSynced, <1>1, PTL

(* Once the server has agreed to TLS, the startup message it greets and    *)
(* all that it serves come after the client's handshake, whatever was in   *)
(* the reader when the handshake began (conn_handler.go:110-120).          *)
THEOREM EncryptedOnly == Spec => []ServedEncrypted
<1>1. IInv /\ Synced => ServedEncrypted
  <2> SUFFICES ASSUME IInv, Synced, phase \in {"greet", "ready"}, Told
               PROVE  \E i \in 1 .. (taken - 1) : IsHello(i)
    BY DEF ServedEncrypted, IsHello
  <2>1. Sworn
    BY SwornIsTold DEF IInv, Told
  <2> QED
    BY <2>1 DEF Synced, Secured
<1> QED
  BY SessionInvariance, SessionSynced, <1>1, PTL
=============================================================================
