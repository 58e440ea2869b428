---------------------------- MODULE Broker_proofs ----------------------------
(***************************************************************************)
(* Proofs about Broker, for any sessions, streams and buffer capacity: no  *)
(* event is sent on a closed channel, a stream shows the queries of one    *)
(* session in their order and none twice, and the first Capacity events are*)
(* all in it.                                                              *)
(***************************************************************************)
EXTENDS Broker, SequenceTheorems, TLAPS

Phases == {"none", "wait", "write", "leave", "done"}

Typed ==
  /\ queries \in [Sessions -> Nat]
  /\ hook \in [Sessions -> BOOLEAN]
  /\ clients \in SUBSET Streams
  /\ chan \in [Streams -> Seq(Events)]
  /\ held \in [Streams -> Seq(Events)]
  /\ got \in [Streams -> Seq(Events)]
  /\ sent \in [Streams -> Seq(Events)]
  /\ serve \in [Streams -> Phases]
  /\ closed \in [Streams -> BOOLEAN]
  /\ gone \in [Streams -> BOOLEAN]
  /\ expired \in [Streams -> BOOLEAN]

(* A query waits for its broadcast only once it is counted; ServeHTTP holds*)
(* an event only between receiving and writing it.                         *)
Settled ==
  /\ \A s \in Sessions : hook[s] => queries[s] # 0
  /\ \A k \in Streams :
       /\ Len(chan[k]) <= Capacity
       /\ Len(held[k]) <= 1
       /\ serve[k] \in {"none", "wait"} => held[k] = <<>>
       /\ k \in clients <=> serve[k] \in {"wait", "write", "leave"}
       /\ closed[k] <=> serve[k] = "done"

(* How many queries of s have been broadcast.                              *)
Published(s) == queries[s] - IF hook[s] THEN 1 ELSE 0

(* A stream shows only what has been broadcast ...                         *)
Heard ==
  \A k \in Streams, s \in Sessions : \A i \in DOMAIN Streamed(k) :
    Streamed(k)[i].by = s => Streamed(k)[i].n <= Published(s)

(* ... and starts with what was sent to it; as long as that is less than   *)
(* its buffer holds, it is all there is, so there is room for the next.    *)
Kept ==
  \A k \in Streams :
    /\ Len(sent[k]) <= Len(Streamed(k))
    /\ \A i \in 1 .. Len(sent[k]) : sent[k][i] = Streamed(k)[i]
    /\ Len(sent[k]) < Capacity => Len(Streamed(k)) = Len(sent[k])

BInv == Typed /\ Settled /\ Heard /\ StreamInOrder /\ Kept

-----------------------------------------------------------------------------
(* What a stream shows, holds and has buffered is one sequence.            *)
LEMMA StreamedSeq ==
  ASSUME Typed, NEW k \in Streams
  PROVE  /\ got[k] \in Seq(Events) /\ held[k] \in Seq(Events) /\ chan[k] \in Seq(Events)
         /\ got[k] \o held[k] \in Seq(Events)
         /\ Streamed(k) \in Seq(Events)
         /\ Streamed(k) = (got[k] \o held[k]) \o chan[k]
         /\ DOMAIN Streamed(k) = 1 .. Len(Streamed(k))
         /\ Len(Streamed(k)) \in Nat
         /\ Len(chan[k]) \in Nat
         /\ Len(chan[k]) <= Len(Streamed(k))
<1>1. got[k] \in Seq(Events) /\ held[k] \in Seq(Events) /\ chan[k] \in Seq(Events)
  BY DEF Typed
<1>2. got[k] \o held[k] \in Seq(Events)
  BY <1>1, ConcatProperties
<1>3. Streamed(k) = (got[k] \o held[k]) \o chan[k]
  BY DEF Streamed
<1>4. /\ Streamed(k) \in Seq(Events)
      /\ Len(Streamed(k)) = Len(got[k] \o held[k]) + Len(chan[k])
  BY <1>1, <1>2, <1>3, ConcatProperties
<1>5. Len(got[k] \o held[k]) \in Nat /\ Len(chan[k]) \in Nat
  BY <1>1, <1>2, LenProperties
<1>6. Len(chan[k]) <= Len(Streamed(k))
  <2> DEFINE a == Len(got[k] \o held[k])
             b == Len(chan[k])
             n == Len(Streamed(k))
  <2>1. n = a + b /\ a \in Nat /\ b \in Nat
    BY <1>4, <1>5
  <2> HIDE DEF a, b, n
  <2>2. b <= n
    BY <2>1
  <2> QED
    BY <2>2 DEF b, n
<1>7. DOMAIN Streamed(k) = 1 .. Len(Streamed(k)) /\ Len(Streamed(k)) \in Nat
  BY <1>4, LenProperties
<1> QED
  BY <1>1, <1>2, <1>3, <1>4, <1>5, <1>6, <1>7

(* Receiving an event moves it along the sequence.                         *)
LEMMA MoveEvent ==
  ASSUME NEW g \in Seq(Events), NEW c \in Seq(Events), c # <<>>
  PROVE  (g \o <<>>) \o c = (g \o <<Head(c)>>) \o Tail(c)
<1>1. g \o <<>> = g
  BY ConcatEmptySeq
<1>2. Head(c) \in Events /\ Tail(c) \in Seq(Events)
  BY HeadTailProperties
<1>3. <<Head(c)>> \in Seq(Events)
  BY <1>2
<1>4. (g \o <<Head(c)>>) \o Tail(c) = g \o (<<Head(c)>> \o Tail(c))
  BY <1>2, <1>3, ConcatAssociative
<1>5. <<Head(c)>> \o Tail(c) = c
  BY <1>2, <1>3
<1> QED
  BY <1>1, <1>4, <1>5

(* Sending one appends it.                                                 *)
LEMMA SendEvent ==
  ASSUME NEW g \in Seq(Events), NEW c \in Seq(Events), NEW e \in Events
  PROVE  g \o Append(c, e) = Append(g \o c, e)
<1>1. g \o c \in Seq(Events) /\ <<e>> \in Seq(Events)
  BY ConcatProperties
<1>2. Append(c, e) = c \o <<e>> /\ Append(g \o c, e) = (g \o c) \o <<e>>
  BY <1>1, AppendIsConcat
<1> QED
  BY <1>1, <1>2, ConcatAssociative

-----------------------------------------------------------------------------
(* A step that leaves every stream as it is and broadcasts nothing.        *)
LEMMA QuietStep ==
  ASSUME BInv, Typed', Settled', sent' = sent,
         \A k \in Streams : Streamed(k)' = Streamed(k),
         \A s \in Sessions : Published(s) <= Published(s)'
  PROVE  BInv'
<1>1. ASSUME NEW k \in Streams, NEW s \in Sessions, NEW i \in DOMAIN Streamed(k), Streamed(k)[i].by = s
      PROVE  Streamed(k)[i].n <= Published(s)'
  <2>1. Streamed(k)[i] \in Events
    <3>1. Streamed(k) \in Seq(Events) /\ DOMAIN Streamed(k) = 1 .. Len(Streamed(k))
      BY StreamedSeq DEF BInv
    <3> QED
      BY <3>1, ElementOfSeq
  <2>2. Streamed(k)[i].n \in Nat /\ Streamed(k)[i].n <= Published(s)
    BY <1>1, <2>1 DEF Events, BInv, Heard
  <2>3. Published(s) \in Int /\ Published(s)' \in Int
    BY DEF Published, BInv, Typed
  <2> QED
    BY <2>2, <2>3
<1>2. Heard'
  BY <1>1 DEF Heard
<1>3. StreamInOrder' /\ Kept'
  BY DEF BInv, StreamInOrder, Kept
<1> QED
  BY <1>2, <1>3 DEF BInv

(* LogQuery has appended the query and is about to call the hook.          *)
LEMMA LogStep ==
  ASSUME BInv, NEW s \in Sessions, Log(s)
  PROVE  BInv'
<1>1. /\ queries' = [queries EXCEPT ![s] = @ + 1] /\ hook' = [hook EXCEPT ![s] = TRUE] /\ ~hook[s]
      /\ UNCHANGED <<clients, chan, closed, serve, held, got, gone, expired, sent>>
  BY DEF Log, stream
<1>2. Typed'
  BY <1>1 DEF BInv, Typed
<1>3. Settled'
  BY <1>1 DEF BInv, Typed, Settled
<1>4. \A t \in Sessions : Published(t) <= Published(t)'
  BY <1>1 DEF BInv, Typed, Published
<1>5. \A k \in Streams : Streamed(k)' = Streamed(k)
  BY <1>1 DEF Streamed
<1> QED
  BY <1>1, <1>2, <1>3, <1>4, <1>5, QuietStep

(* The goroutine of one stream, its client, or time moves.                 *)
LEMMA StreamStep ==
  ASSUME BInv, NEW k \in Streams,
         Subscribe(k) \/ Serve(k) \/ Write(k) \/ Leave(k) \/ Expire(k)
  PROVE  BInv'
<1>1. /\ UNCHANGED <<queries, hook, sent>> /\ Typed /\ Settled
      /\ got[k] \in Seq(Events) /\ held[k] \in Seq(Events) /\ chan[k] \in Seq(Events)
  BY DEF Subscribe, Serve, Receive, Done, WriteFails, Unsubscribe, Write, Leave, Expire, publishers, BInv, Typed
<1>2. \A s \in Sessions : Published(s) <= Published(s)'
  BY <1>1 DEF Published, Typed
<1>3. ASSUME UNCHANGED <<chan, held, got>>, Typed', Settled'
      PROVE  BInv'
  BY <1>1, <1>2, <1>3, QuietStep DEF Streamed
<1>4. CASE Subscribe(k) \/ Done(k) \/ WriteFails(k) \/ Unsubscribe(k) \/ Leave(k) \/ Expire(k)
  <2>1. UNCHANGED <<chan, held, got>>
    BY <1>4 DEF Subscribe, Done, WriteFails, Unsubscribe, Leave, Expire, stream
  <2>2. /\ clients' \in SUBSET Streams /\ serve' \in [Streams -> Phases]
        /\ closed' \in [Streams -> BOOLEAN] /\ gone' \in [Streams -> BOOLEAN] /\ expired' \in [Streams -> BOOLEAN]
        /\ \A j \in Streams : /\ serve'[j] \in {"none", "wait"} => held[j] = <<>>
                              /\ j \in clients' <=> serve'[j] \in {"wait", "write", "leave"}
                              /\ closed'[j] <=> serve'[j] = "done"
    <3>1. CASE Subscribe(k)
      BY <1>1, <3>1 DEF Subscribe, Typed, Settled, Phases
    <3>2. CASE Done(k)
      BY <1>1, <3>2 DEF Done, Typed, Settled, Phases
    <3>3. CASE WriteFails(k)
      BY <1>1, <3>3 DEF WriteFails, Typed, Settled, Phases
    <3>4. CASE Unsubscribe(k)
      BY <1>1, <3>4 DEF Unsubscribe, Typed, Settled, Phases
    <3>5. CASE Leave(k) \/ Expire(k)
      BY <1>1, <3>5 DEF Leave, Expire, stream, Typed, Settled
    <3> QED
      BY <1>4, <3>1, <3>2, <3>3, <3>4, <3>5
  <2>3. Typed'
    BY <1>1, <2>1, <2>2 DEF Typed
  <2>4. Settled'
    BY <1>1, <2>1, <2>2 DEF Settled
  <2> QED
    BY <1>3, <2>1, <2>3, <2>4
<1>5. CASE Receive(k)
  <2>1. /\ serve[k] = "wait" /\ held[k] = <<>> /\ chan[k] # <<>>
        /\ held' = [held EXCEPT ![k] = <<Head(chan[k])>>]
        /\ chan' = [chan EXCEPT ![k] = Tail(chan[k])]
        /\ serve' = [serve EXCEPT ![k] = "write"]
        /\ UNCHANGED <<clients, closed, got, gone, expired>>
    BY <1>1, <1>5 DEF Receive, Settled
  <2>2. /\ Head(chan[k]) \in Events /\ Tail(chan[k]) \in Seq(Events) /\ Len(Tail(chan[k])) = Len(chan[k]) - 1
        /\ <<Head(chan[k])>> \in Seq(Events) /\ Len(<<Head(chan[k])>>) = 1
    BY <1>1, <2>1, HeadTailProperties
  <2>3. /\ held'[k] = <<Head(chan[k])>> /\ chan'[k] = Tail(chan[k]) /\ serve'[k] = "write"
        /\ \A j \in Streams \ {k} : held'[j] = held[j] /\ chan'[j] = chan[j] /\ serve'[j] = serve[j]
    BY <1>1, <2>1 DEF Typed
  <2>4. Typed'
    BY <1>1, <2>1, <2>2 DEF Typed, Phases
  <2>5. Settled'
    BY <1>1, <2>1, <2>2, <2>3, LenProperties, CapacityAssumption DEF Settled
  <2>6. Streamed(k)' = Streamed(k)
    <3>1. (got[k] \o <<>>) \o chan[k] = (got[k] \o <<Head(chan[k])>>) \o Tail(chan[k])
      BY <1>1, <2>1, <2>2, MoveEvent
    <3>2. got'[k] = got[k] /\ held[k] = <<>>
      BY <2>1
    <3> QED
      BY <2>3, <3>1, <3>2, Zenon DEF Streamed
  <2>7. \A j \in Streams \ {k} : Streamed(j)' = Streamed(j)
    BY <2>1, <2>3 DEF Streamed
  <2> QED
    BY <1>1, <1>2, <2>4, <2>5, <2>6, <2>7, QuietStep
<1>6. CASE Write(k)
  <2>1. /\ serve[k] = "write"
        /\ got' = [got EXCEPT ![k] = got[k] \o held[k]]
        /\ held' = [held EXCEPT ![k] = <<>>]
        /\ serve' = [serve EXCEPT ![k] = "wait"]
        /\ UNCHANGED <<clients, chan, closed, gone, expired>>
    BY <1>6 DEF Write
  <2>2. got[k] \o held[k] \in Seq(Events) /\ <<>> \in Seq(Events) /\ Len(<<>>) = 0
    BY <1>1, ConcatProperties
  <2>3. /\ held'[k] = <<>> /\ got'[k] = got[k] \o held[k] /\ serve'[k] = "wait"
        /\ \A j \in Streams \ {k} : held'[j] = held[j] /\ got'[j] = got[j] /\ serve'[j] = serve[j]
    BY <1>1, <2>1 DEF Typed
  <2>4. Typed'
    BY <1>1, <2>1, <2>2 DEF Typed, Phases
  <2>5. Settled'
    BY <1>1, <2>1, <2>2, <2>3 DEF Settled
  <2>6. (got[k] \o held[k]) \o <<>> = got[k] \o held[k]
    BY <2>2, ConcatEmptySeq
  <2>7. Streamed(k)' = Streamed(k)
    BY <2>1, <2>3, <2>6, Zenon DEF Streamed
  <2>8. \A j \in Streams \ {k} : Streamed(j)' = Streamed(j)
    BY <2>1, <2>3 DEF Streamed
  <2> QED
    BY <1>1, <1>2, <2>4, <2>5, <2>7, <2>8, QuietStep
<1> QED
  BY <1>4, <1>5, <1>6 DEF Serve

(* The hook broadcasts the query: every listener with room gets it, and no *)
(* listener gets what is not its session's latest.                         *)
LEMMA BroadcastStep ==
  ASSUME BInv, NEW s \in Sessions, Broadcast(s)
  PROVE  BInv'
<1> DEFINE e == Event(s)
           takes(k) == k \in clients /\ Len(chan[k]) < Capacity
           first(k) == k \in clients /\ Len(sent[k]) < Capacity
<1>1. Typed /\ Settled /\ Heard /\ StreamInOrder /\ Kept
  BY DEF BInv
<1>2. /\ hook[s] /\ hook' = [hook EXCEPT ![s] = FALSE]
      /\ chan' = [k \in Streams |-> IF takes(k) THEN Append(chan[k], e) ELSE chan[k]]
      /\ sent' = [k \in Streams |-> IF first(k) THEN Append(sent[k], e) ELSE sent[k]]
      /\ UNCHANGED <<queries, clients, closed, serve, held, got, gone, expired>>
  BY DEF Broadcast, HasRoom, stream
<1>3. e \in Events /\ e.by = s /\ e.n = queries[s] /\ queries[s] \in Nat \ {0}
  BY <1>1, <1>2 DEF Event, Events, Typed, Settled
<1>4. Published(s)' = queries[s] /\ Published(s) = queries[s] - 1
  BY <1>1, <1>2 DEF Published, Typed
<1>5. \A t \in Sessions \ {s} : Published(t)' = Published(t)
  BY <1>1, <1>2 DEF Published, Typed
<1> HIDE DEF e
<1>6. ASSUME NEW k \in Streams
      PROVE  /\ chan'[k] \in Seq(Events) /\ sent'[k] \in Seq(Events)
             /\ chan'[k] = IF takes(k) THEN Append(chan[k], e) ELSE chan[k]
             /\ sent'[k] = IF first(k) THEN Append(sent[k], e) ELSE sent[k]
             /\ takes(k) => Len(chan'[k]) = Len(chan[k]) + 1
             /\ ~takes(k) => chan'[k] = chan[k]
             /\ Len(chan[k]) \in Nat
  <2>1. chan[k] \in Seq(Events) /\ sent[k] \in Seq(Events)
    BY <1>1 DEF Typed
  <2>2. /\ Append(chan[k], e) \in Seq(Events) /\ Append(sent[k], e) \in Seq(Events)
        /\ Len(Append(chan[k], e)) = Len(chan[k]) + 1 /\ Len(chan[k]) \in Nat
    BY <1>3, <2>1, AppendProperties, LenProperties
  <2>3. /\ chan'[k] = IF takes(k) THEN Append(chan[k], e) ELSE chan[k]
        /\ sent'[k] = IF first(k) THEN Append(sent[k], e) ELSE sent[k]
    BY <1>2, Zenon
  <2>4. takes(k) => chan'[k] = Append(chan[k], e)
    BY <2>3, Zenon
  <2>6. ~takes(k) => chan'[k] = chan[k]
    BY <2>3, Zenon
  <2>5. chan'[k] \in Seq(Events) /\ sent'[k] \in Seq(Events)
    BY <2>1, <2>2, <2>3, Zenon
  <2> QED
    BY <2>2, <2>3, <2>4, <2>5, <2>6
<1>7. Typed'
  BY <1>1, <1>2, <1>6 DEF Typed
<1>8. Settled'
  <2>1. \A k \in Streams : Len(chan'[k]) <= Capacity
    <3> SUFFICES ASSUME NEW k \in Streams
                 PROVE  Len(chan'[k]) <= Capacity
      OBVIOUS
    <3>1. Len(chan[k]) \in Nat /\ Len(chan[k]) <= Capacity /\ Capacity \in Nat
      BY <1>1, <1>6, CapacityAssumption DEF Settled
    <3>2. CASE takes(k)
      <4>1. Len(chan'[k]) = Len(chan[k]) + 1
        BY <1>6, <3>2
      <4> QED
        BY <3>1, <3>2, <4>1
    <3>3. CASE ~takes(k)
      <4>1. chan'[k] = chan[k]
        BY <1>6, <3>3
      <4> QED
        BY <3>1, <4>1
    <3> QED
      BY <3>2, <3>3
  <2>2. \A t \in Sessions : hook'[t] => queries[t] # 0
    BY <1>1, <1>2 DEF Settled, Typed
  <2> QED
    BY <1>1, <1>2, <2>1, <2>2 DEF Settled
<1>9. ASSUME NEW k \in Streams
      PROVE  Streamed(k)' = IF takes(k) THEN Append(Streamed(k), e) ELSE Streamed(k)
  <2>1. /\ got[k] \in Seq(Events) /\ held[k] \in Seq(Events) /\ chan[k] \in Seq(Events)
        /\ Streamed(k) = (got[k] \o held[k]) \o chan[k] /\ got[k] \o held[k] \in Seq(Events)
    BY <1>1, StreamedSeq
  <2>2. (got[k] \o held[k]) \o Append(chan[k], e) = Append(Streamed(k), e)
    <3>1. (got[k] \o held[k]) \o Append(chan[k], e) = Append((got[k] \o held[k]) \o chan[k], e)
      BY <1>3, <2>1, SendEvent
    <3> QED
      BY <2>1, <3>1, Zenon
  <2>3. Streamed(k)' = (got[k] \o held[k]) \o chan'[k]
    BY <1>2 DEF Streamed
  <2> QED
    BY <1>6, <2>1, <2>2, <2>3
<1>10. ASSUME NEW k \in Streams
       PROVE  /\ Streamed(k) \in Seq(Events) /\ DOMAIN Streamed(k) = 1 .. Len(Streamed(k))
              /\ Len(Streamed(k)) \in Nat /\ Len(chan[k]) <= Len(Streamed(k))
              /\ \A i \in 1 .. Len(Streamed(k)) :
                   /\ Streamed(k)'[i] = Streamed(k)[i]
                   /\ Streamed(k)[i] \in Events
                   /\ Streamed(k)[i].by = s => Streamed(k)[i].n <= Published(s)
              /\ Len(Streamed(k)') = Len(Streamed(k)) + IF takes(k) THEN 1 ELSE 0
              /\ DOMAIN Streamed(k)' = 1 .. Len(Streamed(k)')
              /\ takes(k) => Streamed(k)'[Len(Streamed(k)) + 1] = e
  <2>1. /\ Streamed(k) \in Seq(Events) /\ DOMAIN Streamed(k) = 1 .. Len(Streamed(k))
        /\ Len(Streamed(k)) \in Nat /\ Len(chan[k]) <= Len(Streamed(k))
    BY <1>1, StreamedSeq
  <2>2. /\ Append(Streamed(k), e) \in Seq(Events) /\ Len(Append(Streamed(k), e)) = Len(Streamed(k)) + 1
        /\ \A i \in 1 .. Len(Streamed(k)) : Append(Streamed(k), e)[i] = Streamed(k)[i]
        /\ Append(Streamed(k), e)[Len(Streamed(k)) + 1] = e
    BY <1>3, <2>1, AppendProperties
  <2>3. \A i \in 1 .. Len(Streamed(k)) : /\ Streamed(k)[i] \in Events
                                         /\ Streamed(k)[i].by = s => Streamed(k)[i].n <= Published(s)
    BY <1>1, <2>1, ElementOfSeq DEF Heard
  <2>4. Streamed(k)' \in Seq(Events)
    BY <1>9, <2>1, <2>2
  <2>5. DOMAIN Streamed(k)' = 1 .. Len(Streamed(k)')
    BY <2>4, LenProperties
  <2>6. Len(Streamed(k)') = Len(Streamed(k)) + IF takes(k) THEN 1 ELSE 0
    BY <1>9, <2>1, <2>2
  <2> QED
    BY <1>9, <2>1, <2>2, <2>3, <2>5, <2>6
<1> HIDE DEF takes
<1>11. ASSUME NEW k \in Streams, NEW i \in DOMAIN Streamed(k)'
       PROVE  i \in 1 .. Len(Streamed(k)) \/ (takes(k) /\ i = Len(Streamed(k)) + 1)
  BY <1>10, <1>11
<1>12. Heard'
  <2> SUFFICES ASSUME NEW k \in Streams, NEW u \in Sessions,
                      NEW i \in DOMAIN Streamed(k)', Streamed(k)'[i].by = u
               PROVE  Streamed(k)'[i].n <= Published(u)'
    BY DEF Heard
  <2>1. CASE i \in 1 .. Len(Streamed(k))
    <3>1. Streamed(k)'[i] = Streamed(k)[i] /\ Streamed(k)[i].n \in Nat /\ i \in DOMAIN Streamed(k)
      BY <1>10, <2>1 DEF Events
    <3>3. Streamed(k)[i].n <= Published(u)
      BY <1>1, <3>1 DEF Heard
    <3>2. \A t \in Sessions : Published(t) \in Int /\ Published(t)' \in Int /\ Published(t) <= Published(t)'
      <4>1. \A t \in Sessions : Published(t) \in Int /\ Published(t)' \in Int
        BY <1>1, <1>7 DEF Published, Typed
      <4>2. Published(s) <= Published(s)'
        BY <1>3, <1>4
      <4> QED
        BY <1>5, <4>1, <4>2
    <3> QED
      BY <3>1, <3>2, <3>3
  <2>2. CASE takes(k) /\ i = Len(Streamed(k)) + 1
    BY <1>3, <1>4, <1>10, <2>2
  <2> QED
    BY <1>11, <2>1, <2>2
<1>13. StreamInOrder'
  <2> SUFFICES ASSUME NEW k \in Streams, NEW i \in DOMAIN Streamed(k)', NEW j \in DOMAIN Streamed(k)',
                      i < j, Streamed(k)'[i].by = Streamed(k)'[j].by
               PROVE  Streamed(k)'[i].n < Streamed(k)'[j].n
    BY DEF StreamInOrder
  <2>1. i \in 1 .. Len(Streamed(k))
    BY <1>10, <1>11
  <2>2. CASE j \in 1 .. Len(Streamed(k))
    <3>1. Streamed(k)'[i] = Streamed(k)[i] /\ Streamed(k)'[j] = Streamed(k)[j]
      BY <1>10, <2>1, <2>2
    <3>2. i \in DOMAIN Streamed(k) /\ j \in DOMAIN Streamed(k)
      BY <1>10, <2>1, <2>2
    <3> QED
      BY <1>1, <3>1, <3>2 DEF StreamInOrder
  <2>3. CASE takes(k) /\ j = Len(Streamed(k)) + 1
    <3>1. Streamed(k)'[j] = e
      BY <1>10, <2>3
    <3>2. /\ Streamed(k)'[i] = Streamed(k)[i] /\ Streamed(k)[i] \in Events
          /\ Streamed(k)[i].by = s => Streamed(k)[i].n <= Published(s)
      BY <1>10, <2>1
    <3>3. Streamed(k)[i].by = s /\ Streamed(k)[i].n \in Nat
      <4>1. Streamed(k)[i].n \in Nat
        BY <3>2 DEF Events
      <4>2. Streamed(k)[i].by = s
        BY <1>3, <3>1, <3>2, Zenon
      <4> QED
        BY <4>1, <4>2
    <3> QED
      BY <1>3, <1>4, <3>1, <3>2, <3>3
  <2> QED
    BY <1>11, <2>2, <2>3
<1>14. Kept'
  <2> SUFFICES ASSUME NEW k \in Streams
               PROVE  /\ Len(sent'[k]) <= Len(Streamed(k)')
                      /\ \A i \in 1 .. Len(sent'[k]) : sent'[k][i] = Streamed(k)'[i]
                      /\ Len(sent'[k]) < Capacity => Len(Streamed(k)') = Len(sent'[k])
    BY DEF Kept
  <2>1. /\ sent[k] \in Seq(Events) /\ Len(sent[k]) \in Nat
        /\ Len(sent[k]) <= Len(Streamed(k))
        /\ \A i \in 1 .. Len(sent[k]) : sent[k][i] = Streamed(k)[i]
        /\ Len(sent[k]) < Capacity => Len(Streamed(k)) = Len(sent[k])
    BY <1>1, LenProperties DEF Typed, Kept
  <2>2. CASE first(k)
    <3>1. /\ sent'[k] = Append(sent[k], e) /\ Len(sent'[k]) = Len(sent[k]) + 1
          /\ \A i \in 1 .. Len(sent[k]) : sent'[k][i] = sent[k][i]
          /\ sent'[k][Len(sent[k]) + 1] = e
      <4>1. sent'[k] = Append(sent[k], e)
        BY <1>6, <2>2
      <4>2. /\ Len(Append(sent[k], e)) = Len(sent[k]) + 1
            /\ \A i \in 1 .. Len(sent[k]) : Append(sent[k], e)[i] = sent[k][i]
            /\ Append(sent[k], e)[Len(sent[k]) + 1] = e
        BY <1>3, <2>1, AppendProperties
      <4> QED
        BY <4>1, <4>2
    <3>2. takes(k) /\ Len(Streamed(k)) = Len(sent[k])
      BY <1>6, <1>10, <2>1, <2>2, CapacityAssumption DEF takes
    <3> QED
      BY <1>10, <2>1, <3>1, <3>2
  <2>3. CASE ~first(k)
    <3>1. sent'[k] = sent[k]
      BY <1>6, <2>3
    <3>2. CASE Len(sent[k]) >= Capacity
      BY <1>10, <2>1, <3>1, <3>2, CapacityAssumption
    <3>3. CASE k \notin clients
      <4>1. ~takes(k)
        BY <3>3 DEF takes
      <4> QED
        BY <1>10, <2>1, <3>1, <4>1
    <3> QED
      BY <2>1, <2>3, <3>2, <3>3, CapacityAssumption
  <2> QED
    BY <2>2, <2>3
<1> QED
  BY <1>7, <1>8, <1>12, <1>13, <1>14 DEF BInv

-----------------------------------------------------------------------------
(* The invariant holds when the broker starts without listeners            *)
(* (events.go:16-21).                                                      *)
LEMMA InitBInv == Init => BInv
<1> SUFFICES ASSUME Init
             PROVE  BInv
  OBVIOUS
<1>1. \A k \in Streams : Streamed(k) = <<>>
  BY DEF Init, Streamed
<1>2. Typed /\ Settled
  BY CapacityAssumption DEF Init, Typed, Settled, Phases
<1>3. Heard /\ StreamInOrder
  BY <1>1 DEF Heard, StreamInOrder
<1>4. Kept
  BY <1>1 DEF Kept, Init
<1> QED
  BY <1>2, <1>3, <1>4 DEF BInv

(* Every step of a session, of a stream and of its client keeps the        *)
(* invariant.                                                              *)
LEMMA StepBInv == BInv /\ [Next]_vars => BInv'
<1> SUFFICES ASSUME BInv, [Next]_vars
             PROVE  BInv'
  OBVIOUS
<1>1. CASE UNCHANGED vars
  <2>1. UNCHANGED <<queries, hook, clients, chan, closed, serve, held, got, gone, expired, sent>>
    BY <1>1 DEF vars, publishers, stream
  <2>2. Typed' /\ Settled'
    BY <2>1 DEF BInv, Typed, Settled
  <2>3. \A k \in Streams : Streamed(k)' = Streamed(k)
    BY <2>1 DEF Streamed
  <2>4. \A s \in Sessions : Published(s) <= Published(s)'
    BY <2>1 DEF BInv, Typed, Published
  <2> QED
    BY <2>1, <2>2, <2>3, <2>4, QuietStep
<1>2. ASSUME NEW s \in Sessions, Publish(s)
      PROVE  BInv'
  BY <1>2, LogStep, BroadcastStep DEF Publish
<1>3. ASSUME NEW k \in Streams, Subscribe(k) \/ Serve(k) \/ Write(k) \/ Leave(k) \/ Expire(k)
      PROVE  BInv'
  BY <1>3, StreamStep
<1> QED
  BY <1>1, <1>2, <1>3 DEF Next, Rest

(* The inductive invariant.                                                *)
THEOREM BrokerInvariance == Spec => []BInv
BY InitBInv, StepBInv, PTL DEF Spec

(* A channel never holds more than its capacity, and the map has the       *)
(* channels that are open and no other, so Broadcast never sends on a      *)
(* closed one, for any sessions and streams (events.go:24-60).             *)
THEOREM BrokerTypes == Spec => []TypeOK
<1>1. BInv => TypeOK
  BY DEF BInv, Typed, Settled, TypeOK, Phases
<1> QED
  BY BrokerInvariance, <1>1, PTL

(* A stream shows the queries of a session in their order and none twice,  *)
(* however many sessions broadcast and whatever is dropped                 *)
(* (events.go:43-60, engine.go:121-128).                                   *)
THEOREM EventsInOrder == Spec => []StreamInOrder
<1>1. BInv => StreamInOrder
  BY DEF BInv
<1> QED
  BY BrokerInvariance, <1>1, PTL

(* The first Capacity events after a stream has begun are all in it, for   *)
(* any capacity and however slowly the client reads (events.go:27, 53-58). *)
THEOREM BurstIsKept == Spec => []BurstKept
<1>1. BInv => BurstKept
  <2> SUFFICES ASSUME BInv, NEW k \in Streams
               PROVE  IsPrefix(sent[k], Streamed(k))
    BY DEF BurstKept
  <2> DEFINE p == sent[k]
             t == Streamed(k)
  <2>1. /\ p \in Seq(Events) /\ t \in Seq(Events) /\ Len(p) \in Nat /\ Len(t) \in Nat /\ Len(p) <= Len(t)
        /\ \A i \in 1 .. Len(p) : p[i] = t[i]
    BY StreamedSeq, LenProperties DEF BInv, Typed, Kept
  <2> HIDE DEF p, t
  <2>2. SubSeq(p, 1, Len(p)) = SubSeq(t, 1, Len(p))
    BY <2>1
  <2> QED
    BY <2>1, <2>2 DEF IsPrefix, p, t
<1> QED
  BY BrokerInvariance, <1>1, PTL
=============================================================================
