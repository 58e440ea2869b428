------------------------------- MODULE Broker -------------------------------
(***************************************************************************)
(* The live query stream of the admin API: EventBroker                     *)
(* (internal/admin/events.go), the hook by which Engine.LogQuery feeds it  *)
(* (internal/admin/api.go, NewServer) and the HTTP server it runs in.      *)
(*                                                                         *)
(* Actors: one goroutine per session, which broadcasts each query it has   *)
(* logged, and one per open GET /api/events.  A critical section under     *)
(* EventBroker.mu is one step.  The server's WriteTimeout runs from the    *)
(* start of a request, so after a while every write to a stream fails,     *)
(* and only a write, or the client's leaving, tells ServeHTTP so.          *)
(***************************************************************************)
EXTENDS Integers, Sequences, SequencesExt

CONSTANTS
  Sessions,   \* the goroutines that log queries
  Streams,    \* the requests for /api/events; a reconnect is another one
  Capacity,   \* the buffer of a listener's channel, 64 in the code
  MaxQueries  \* MaxQueries[s]: bound: queries of s

ASSUME CapacityAssumption == Capacity \in Nat \ {0}
ASSUME BoundAssumption    == MaxQueries \in [Sessions -> Nat]

VARIABLES
  queries,  \* queries[s]: how many queries s has logged
  hook,     \* hook[s]: LogQuery of s has yet to call the hook
  clients,  \* EventBroker.clients
  chan,     \* chan[k]: what is in the channel of k
  closed,   \* closed[k]: the channel of k is closed
  serve,    \* serve[k]: where ServeHTTP is
  held,     \* held[k]: the events ServeHTTP has received and not written, at most one
  got,      \* got[k]: what the client of k has read
  gone,     \* gone[k]: the client has left, so the request's context is done
  expired,  \* expired[k]: the write deadline of k has passed
  sent      \* history: the first Capacity events broadcast while k was registered

publishers == <<queries, hook>>
stream     == <<serve, held, got>>
vars       == <<publishers, clients, chan, closed, stream, gone, expired, sent>>

Init ==
  /\ queries = [s \in Sessions |-> 0]
  /\ hook = [s \in Sessions |-> FALSE]
  /\ clients = {}
  /\ chan = [k \in Streams |-> <<>>]
  /\ closed = [k \in Streams |-> FALSE]
  /\ serve = [k \in Streams |-> "none"]
  /\ held = [k \in Streams |-> <<>>]
  /\ got = [k \in Streams |-> <<>>]
  /\ gone = [k \in Streams |-> FALSE]
  /\ expired = [k \in Streams |-> FALSE]
  /\ sent = [k \in Streams |-> <<>>]

-----------------------------------------------------------------------------
(* The sessions.                                                           *)

Log(s) ==
  /\ ~hook[s] /\ queries[s] < MaxQueries[s]
  /\ queries' = [queries EXCEPT ![s] = @ + 1]
  /\ hook' = [hook EXCEPT ![s] = TRUE]
  /\ UNCHANGED <<clients, chan, closed, stream, gone, expired, sent>>

Event(s) == [by |-> s, n |-> queries[s]]

SmallerBuffer(k) == Len(chan[k]) < Capacity - 1  \* mutant: one slot is never used
HasRoom(k)       == Len(chan[k]) < Capacity

(* Whether every listener can take the event: not asked, the listeners     *)
(* whose buffer is full go without it.                                     *)
AllRoom == \A k \in clients : Len(chan[k]) < Capacity  \* mutant: the send has no default case
NoWait  == TRUE

Broadcast(s) ==
  /\ hook[s]
  /\ NoWait
  /\ hook' = [hook EXCEPT ![s] = FALSE]
  /\ chan' = [k \in Streams |-> IF k \in clients /\ HasRoom(k) THEN Append(chan[k], Event(s)) ELSE chan[k]]
  /\ sent' = [k \in Streams |-> IF k \in clients /\ Len(sent[k]) < Capacity
                               THEN Append(sent[k], Event(s)) ELSE sent[k]]
  /\ UNCHANGED <<queries, clients, closed, stream, gone, expired>>

-----------------------------------------------------------------------------
(* ServeHTTP of stream k.                                                  *)

Subscribe(k) ==
  /\ serve[k] = "none"
  /\ clients' = clients \cup {k}
  /\ serve' = [serve EXCEPT ![k] = "wait"]
  /\ UNCHANGED <<publishers, chan, closed, held, got, gone, expired, sent>>

(* select takes whichever is ready, either of them if both are.            *)
Receive(k) ==
  /\ serve[k] = "wait" /\ chan[k] # <<>>
  /\ held' = [held EXCEPT ![k] = <<Head(chan[k])>>]
  /\ chan' = [chan EXCEPT ![k] = Tail(@)]
  /\ serve' = [serve EXCEPT ![k] = "write"]
  /\ UNCHANGED <<publishers, clients, closed, got, gone, expired, sent>>

NotDone(k) ==  \* mutant: the loop waits for events only
  FALSE /\ UNCHANGED vars
Done(k) ==
  /\ serve[k] = "wait" /\ gone[k]
  /\ serve' = [serve EXCEPT ![k] = "leave"]
  /\ UNCHANGED <<publishers, clients, chan, closed, held, got, gone, expired, sent>>

WriteTwice(k) ==  \* mutant: a write is repeated
  /\ serve[k] = "write" /\ ~gone[k] /\ ~expired[k]
  /\ got' = [got EXCEPT ![k] = @ \o held[k] \o held[k]]
  /\ held' = [held EXCEPT ![k] = <<>>]
  /\ serve' = [serve EXCEPT ![k] = "wait"]
  /\ UNCHANGED <<publishers, clients, chan, closed, gone, expired, sent>>

(* The client reads the event, sooner or later.                            *)
Write(k) ==
  /\ serve[k] = "write" /\ ~gone[k] /\ ~expired[k]
  /\ got' = [got EXCEPT ![k] = @ \o held[k]]
  /\ held' = [held EXCEPT ![k] = <<>>]
  /\ serve' = [serve EXCEPT ![k] = "wait"]
  /\ UNCHANGED <<publishers, clients, chan, closed, gone, expired, sent>>

WriteFails(k) ==
  /\ serve[k] = "write" /\ (gone[k] \/ expired[k])
  /\ serve' = [serve EXCEPT ![k] = "leave"]
  /\ UNCHANGED <<publishers, clients, chan, closed, held, got, gone, expired, sent>>

CloseOnly(k) ==  \* mutant: the channel is closed and stays in the map
  /\ serve[k] = "leave"
  /\ closed' = [closed EXCEPT ![k] = TRUE]
  /\ serve' = [serve EXCEPT ![k] = "done"]
  /\ UNCHANGED <<publishers, clients, chan, held, got, gone, expired, sent>>
Unsubscribe(k) ==
  /\ serve[k] = "leave"
  /\ clients' = clients \ {k}
  /\ closed' = [closed EXCEPT ![k] = TRUE]
  /\ serve' = [serve EXCEPT ![k] = "done"]
  /\ UNCHANGED <<publishers, chan, held, got, gone, expired, sent>>

-----------------------------------------------------------------------------
(* The clients of the streams, and time.                                   *)

Leave(k) ==
  /\ serve[k] \notin {"none", "done"} /\ ~gone[k]
  /\ gone' = [gone EXCEPT ![k] = TRUE]
  /\ UNCHANGED <<publishers, clients, chan, closed, stream, expired, sent>>

Expire(k) ==
  /\ serve[k] \notin {"none", "done"} /\ ~expired[k] /\ ~gone[k]
  /\ expired' = [expired EXCEPT ![k] = TRUE]
  /\ UNCHANGED <<publishers, clients, chan, closed, stream, gone, sent>>

-----------------------------------------------------------------------------
Publish(s) == Log(s) \/ Broadcast(s)
Serve(k)   == Receive(k) \/ Done(k) \/ WriteFails(k) \/ Unsubscribe(k)

(* Nobody logs a query and every stream waits for one, or has not begun.   *)
Rest ==
  /\ \A s \in Sessions : ~hook[s]
  /\ \A k \in Streams : serve[k] \in {"none", "wait", "done"}
  /\ UNCHANGED vars

Next ==
  \/ \E s \in Sessions : Publish(s)
  \/ \E k \in Streams : Subscribe(k) \/ Serve(k) \/ Write(k) \/ Leave(k) \/ Expire(k)
  \/ Rest

(* Goroutines that can run do.  A client may never read, and the deadline  *)
(* that would end its stream is not counted on.                            *)
Spec ==
  /\ Init /\ [][Next]_vars
  /\ \A s \in Sessions : WF_vars(Broadcast(s))
  /\ \A k \in Streams : WF_vars(Serve(k))

-----------------------------------------------------------------------------
(* Properties.                                                             *)

Events == [by : Sessions, n : Nat \ {0}]

(* Invariant: ranges; a channel never holds more than its capacity, and    *)
(* the map has the channels that are open and no other: Broadcast would    *)
(* panic on a closed one (events.go:24-60).                                *)
TypeOK ==
  /\ queries \in [Sessions -> Nat] /\ hook \in [Sessions -> BOOLEAN]
  /\ clients \subseteq Streams
  /\ \A k \in Streams :
       /\ chan[k] \in Seq(Events) /\ Len(chan[k]) <= Capacity
       /\ held[k] \in Seq(Events) /\ Len(held[k]) <= 1
       /\ got[k] \in Seq(Events) /\ sent[k] \in Seq(Events)
       /\ closed[k] \in BOOLEAN /\ gone[k] \in BOOLEAN /\ expired[k] \in BOOLEAN
       /\ serve[k] \in {"none", "wait", "write", "leave", "done"}
       /\ k \in clients <=> serve[k] \in {"wait", "write", "leave"}
       /\ closed[k] <=> serve[k] = "done"

Streamed(k) == got[k] \o held[k] \o chan[k]

(* Invariant: a stream shows the queries of one session in their order,    *)
(* none twice, even if some were dropped between them (events.go:43-60,    *)
(* engine.go:121-128).                                                     *)
StreamInOrder ==
  \A k \in Streams :
    \A i, j \in DOMAIN Streamed(k) :
      i < j /\ Streamed(k)[i].by = Streamed(k)[j].by => Streamed(k)[i].n < Streamed(k)[j].n

(* Invariant: the first Capacity events after a stream has begun are all   *)
(* in it, in the order of their broadcasts, however slowly the client      *)
(* reads; only later ones can be dropped (events.go:27, 53-58).            *)
BurstKept == \A k \in Streams : IsPrefix(sent[k], Streamed(k))

(* Liveness: a session that has logged a query gets on with its reply,     *)
(* though no client of any stream reads (events.go:53-58).                 *)
QueriesGoOn == \A s \in Sessions : hook[s] ~> ~hook[s]

(* Liveness: a stream whose client has left is taken out of the map and    *)
(* its channel closed, whether or not another query is ever logged         *)
(* (events.go:78-96).                                                      *)
StreamsEnd == \A k \in Streams : gone[k] ~> closed[k]
=============================================================================
