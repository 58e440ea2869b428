-------------------------- MODULE ServerLifecycle --------------------------
(***************************************************************************)
(* The PostgreSQL listener of pgwire-mock (internal/server/server.go) with *)
(* the lifecycle of the handlers it spawns (ConnHandler.Handle) and the    *)
(* process that starts and stops it (cmd/pgwire-mock/main.go).             *)
(*                                                                         *)
(* Actors: main, the accept loop, one handler goroutine per connection and *)
(* the client at the far end of each connection.  A critical section under *)
(* connsMu, an atomic add and a WaitGroup call are one step each; anything *)
(* may happen between two of them.  A client is one TCP connection: a      *)
(* program that reconnects is another member of Clients.                   *)
(***************************************************************************)
EXTENDS Integers, FiniteSets

CONSTANTS Clients,  \* the connections that may ever be dialled
          NoConn    \* what the accept loop holds between two connections

ASSUME ClientsAssumption == IsFiniteSet(Clients)
ASSUME NoConnAssumption  == NoConn \notin Clients

VARIABLES
  mainPC,      \* where main is: see MainPC
  listener,    \* "unbound", "listening", "closed"
  acceptPC,    \* where acceptLoop is: see AcceptPC
  held,        \* the connection acceptLoop got from Accept and has not handed over
  conns,       \* Server.conns, guarded by connsMu
  wg,          \* the counter of Server.wg
  activeConns, \* Server.activeConns
  handler,     \* handler[c]: where the goroutine serving c is: see HandlerPC
  conn,        \* conn[c]: the server's end of c: see ConnState
  gone         \* gone[c]: the client has closed its end of c

vars == <<mainPC, listener, acceptPC, held, conns, wg, activeConns, handler, conn, gone>>

MainPC    == {"new", "running", "closeListener", "sweep", "wait", "returned", "failed"}
AcceptPC  == {"none", "accept", "register", "add", "spawn", "leaving", "done"}
HandlerPC == {"none", "spawned", "serving", "close", "gauge", "deregister", "signal", "done"}
ConnState == {"absent", "backlog", "open", "closed", "reset"}

(* Invariant: every variable stays in its range (server.go:15-29).  That   *)
(* wg is never negative matters most: WaitGroup panics when it is.         *)
TypeOK ==
  /\ mainPC \in MainPC
  /\ listener \in {"unbound", "listening", "closed"}
  /\ acceptPC \in AcceptPC
  /\ held \in Clients \cup {NoConn}
  /\ conns \in SUBSET Clients
  /\ wg \in Nat
  /\ activeConns \in Nat
  /\ handler \in [Clients -> HandlerPC]
  /\ conn \in [Clients -> ConnState]
  /\ gone \in [Clients -> BOOLEAN]

Init ==
  /\ mainPC = "new"
  /\ listener = "unbound"
  /\ acceptPC = "none"
  /\ held = NoConn
  /\ conns = {}
  /\ wg = 0
  /\ activeConns = 0
  /\ handler = [c \in Clients |-> "none"]
  /\ conn = [c \in Clients |-> "absent"]
  /\ gone = [c \in Clients |-> FALSE]

-----------------------------------------------------------------------------
(* main: Start, then Stop once a signal arrives.                           *)

StartUncounted ==  \* mutant: the accept loop is not counted
  /\ mainPC = "new"
  /\ mainPC' = "running"
  /\ listener' = "listening"
  /\ acceptPC' = "accept"
  /\ UNCHANGED <<held, conns, wg, activeConns, handler, conn, gone>>

(* Start: bind, count the accept loop, run it.  Nothing can connect before *)
(* net.Listen has returned, and Accept takes nothing before acceptLoop     *)
(* runs, so the three statements are one step.                             *)
Start ==
  /\ mainPC = "new"
  /\ mainPC' = "running"
  /\ listener' = "listening"
  /\ wg' = wg + 1
  /\ acceptPC' = "accept"
  /\ UNCHANGED <<held, conns, activeConns, handler, conn, gone>>

(* net.Listen fails: Start returns the error and main exits (log.Fatalf).  *)
StartFails ==
  /\ mainPC = "new"
  /\ mainPC' = "failed"
  /\ UNCHANGED <<listener, acceptPC, held, conns, wg, activeConns, handler, conn, gone>>

(* The signal arrives and Stop closes the shutdown channel, which only     *)
(* acceptLoop reads, to choose between two ways of returning.              *)
BeginStop ==
  /\ mainPC = "running"
  /\ mainPC' = "closeListener"
  /\ UNCHANGED <<listener, acceptPC, held, conns, wg, activeConns, handler, conn, gone>>

(* listener.Close(): the kernel resets what nobody accepted.               *)
CloseListener ==
  /\ mainPC = "closeListener"
  /\ mainPC' = "sweep"
  /\ listener' = "closed"
  /\ conn' = [c \in Clients |-> IF conn[c] = "backlog" THEN "reset" ELSE conn[c]]
  /\ UNCHANGED <<acceptPC, held, conns, wg, activeConns, handler, gone>>

(* Stop closes, under connsMu, every connection registered at this moment. *)
CloseConns ==
  /\ mainPC = "sweep"
  /\ mainPC' = "wait"
  /\ conn' = [c \in Clients |-> IF c \in conns THEN "closed" ELSE conn[c]]
  /\ UNCHANGED <<listener, acceptPC, held, conns, wg, activeConns, handler, gone>>

(* wg.Wait() returns, and Stop with it.                                    *)
WaitReturns ==
  /\ mainPC = "wait"
  /\ wg = 0
  /\ mainPC' = "returned"
  /\ UNCHANGED <<listener, acceptPC, held, conns, wg, activeConns, handler, conn, gone>>

-----------------------------------------------------------------------------
(* acceptLoop.                                                             *)

Accept(c) ==
  /\ acceptPC = "accept"
  /\ listener = "listening"
  /\ conn[c] = "backlog"
  /\ conn' = [conn EXCEPT ![c] = "open"]
  /\ held' = c
  /\ acceptPC' = "register"
  /\ UNCHANGED <<mainPC, listener, conns, wg, activeConns, handler, gone>>

(* Accept on a closed listener fails and the loop returns.                 *)
AcceptClosed ==
  /\ acceptPC = "accept"
  /\ listener = "closed"
  /\ acceptPC' = "leaving"
  /\ UNCHANGED <<mainPC, listener, held, conns, wg, activeConns, handler, conn, gone>>

(* Any other error of Accept (no file descriptor left, a connection that   *)
(* was aborted) ends the loop as well: nothing is accepted any more.       *)
AcceptFails ==
  /\ acceptPC = "accept"
  /\ listener = "listening"
  /\ acceptPC' = "leaving"
  /\ UNCHANGED <<mainPC, listener, held, conns, wg, activeConns, handler, conn, gone>>

RegisterNothing ==  \* mutant: the connection is never put in s.conns
  /\ acceptPC = "register"
  /\ acceptPC' = "add"
  /\ UNCHANGED <<mainPC, listener, held, conns, wg, activeConns, handler, conn, gone>>

Register ==
  /\ acceptPC = "register"
  /\ acceptPC' = "add"
  /\ conns' = conns \cup {held}
  /\ UNCHANGED <<mainPC, listener, held, wg, activeConns, handler, conn, gone>>

AddNothing ==  \* mutant: the handler is not counted
  /\ acceptPC = "add"
  /\ acceptPC' = "spawn"
  /\ UNCHANGED <<mainPC, listener, held, conns, wg, activeConns, handler, conn, gone>>

AddHandler ==
  /\ acceptPC = "add"
  /\ acceptPC' = "spawn"
  /\ wg' = wg + 1
  /\ UNCHANGED <<mainPC, listener, held, conns, activeConns, handler, conn, gone>>

Spawn ==
  /\ acceptPC = "spawn"
  /\ acceptPC' = "accept"
  /\ handler' = [handler EXCEPT ![held] = "spawned"]
  /\ held' = NoConn
  /\ UNCHANGED <<mainPC, listener, conns, wg, activeConns, conn, gone>>

AcceptLoopDone ==
  /\ acceptPC = "leaving"
  /\ acceptPC' = "done"
  /\ wg' = wg - 1
  /\ UNCHANGED <<mainPC, listener, held, conns, activeConns, handler, conn, gone>>

-----------------------------------------------------------------------------
(* The goroutine serving c: Handle, Handle's deferred calls, last deferred *)
(* first, then the goroutine's own deferred function.                      *)

Enter(c) ==
  /\ handler[c] = "spawned"
  /\ handler' = [handler EXCEPT ![c] = "serving"]
  /\ activeConns' = activeConns + 1
  /\ UNCHANGED <<mainPC, listener, acceptPC, held, conns, wg, conn, gone>>

(* A read or a write fails: the server or the client closed the connection.*)
IOFails(c) ==
  /\ handler[c] = "serving"
  /\ conn[c] = "closed" \/ gone[c]
  /\ handler' = [handler EXCEPT ![c] = "close"]
  /\ UNCHANGED <<mainPC, listener, acceptPC, held, conns, wg, activeConns, conn, gone>>

(* Handle returns of its own accord: a Terminate message, a handshake that *)
(* fails or asks for SSL twice, a reply that cannot be encoded.            *)
Quits(c) ==
  /\ handler[c] = "serving"
  /\ handler' = [handler EXCEPT ![c] = "close"]
  /\ UNCHANGED <<mainPC, listener, acceptPC, held, conns, wg, activeConns, conn, gone>>

(* A rule with drop_connection closes the socket in the middle of a        *)
(* message; Handle finds out at a later read.                              *)
DropConnection(c) ==
  /\ handler[c] = "serving"
  /\ conn[c] = "open"
  /\ conn' = [conn EXCEPT ![c] = "closed"]
  /\ UNCHANGED <<mainPC, listener, acceptPC, held, conns, wg, activeConns, handler, gone>>

KeepOpen(c) ==  \* mutant: Handle without its deferred conn.Close()
  /\ handler[c] = "close"
  /\ handler' = [handler EXCEPT ![c] = "gauge"]
  /\ UNCHANGED <<mainPC, listener, acceptPC, held, conns, wg, activeConns, conn, gone>>

CloseConn(c) ==
  /\ handler[c] = "close"
  /\ handler' = [handler EXCEPT ![c] = "gauge"]
  /\ conn' = [conn EXCEPT ![c] = "closed"]
  /\ UNCHANGED <<mainPC, listener, acceptPC, held, conns, wg, activeConns, gone>>

LeaveGauge(c) ==
  /\ handler[c] = "gauge"
  /\ handler' = [handler EXCEPT ![c] = "deregister"]
  /\ activeConns' = activeConns - 1
  /\ UNCHANGED <<mainPC, listener, acceptPC, held, conns, wg, conn, gone>>

Deregister(c) ==
  /\ handler[c] = "deregister"
  /\ handler' = [handler EXCEPT ![c] = "signal"]
  /\ conns' = conns \ {c}
  /\ UNCHANGED <<mainPC, listener, acceptPC, held, wg, activeConns, conn, gone>>

NeverDone(c) ==  \* mutant: the goroutine forgets wg.Done()
  /\ handler[c] = "signal"
  /\ handler' = [handler EXCEPT ![c] = "done"]
  /\ UNCHANGED <<mainPC, listener, acceptPC, held, conns, wg, activeConns, conn, gone>>

HandlerDone(c) ==
  /\ handler[c] = "signal"
  /\ handler' = [handler EXCEPT ![c] = "done"]
  /\ wg' = wg - 1
  /\ UNCHANGED <<mainPC, listener, acceptPC, held, conns, activeConns, conn, gone>>

-----------------------------------------------------------------------------
(* The clients.                                                            *)

Dial(c) ==
  /\ listener = "listening"
  /\ conn[c] = "absent"
  /\ conn' = [conn EXCEPT ![c] = "backlog"]
  /\ UNCHANGED <<mainPC, listener, acceptPC, held, conns, wg, activeConns, handler, gone>>

Leave(c) ==
  /\ conn[c] \in {"backlog", "open"}
  /\ ~gone[c]
  /\ gone' = [gone EXCEPT ![c] = TRUE]
  /\ UNCHANGED <<mainPC, listener, acceptPC, held, conns, wg, activeConns, handler, conn>>

(* The process has exited: nothing happens any more, and this is no deadlock. *)
Exited == mainPC \in {"returned", "failed"} /\ UNCHANGED vars

-----------------------------------------------------------------------------
MainStep    == Start \/ StartFails \/ BeginStop \/ CloseListener \/ CloseConns \/ WaitReturns
AcceptStep  == AcceptClosed \/ Register \/ AddHandler \/ Spawn \/ AcceptLoopDone
HandlerStep(c) == \/ Enter(c) \/ IOFails(c) \/ CloseConn(c)
                  \/ LeaveGauge(c) \/ Deregister(c) \/ HandlerDone(c)
ClientStep(c)  == Dial(c) \/ Leave(c)

Next ==
  \/ MainStep
  \/ AcceptStep
  \/ AcceptFails
  \/ \E c \in Clients : \/ Accept(c)
                        \/ HandlerStep(c)
                        \/ Quits(c)
                        \/ DropConnection(c)
                        \/ ClientStep(c)
  \/ Exited

(* The Go scheduler runs every goroutine that can run.  Nothing is assumed *)
(* of the clients, of the signal, or of a handler that chooses to quit.    *)
Fairness ==
  /\ WF_vars(CloseListener \/ CloseConns \/ WaitReturns)
  /\ WF_vars(AcceptStep \/ \E c \in Clients : Accept(c))
  /\ \A c \in Clients : WF_vars(HandlerStep(c))

Spec == Init /\ [][Next]_vars /\ Fairness

-----------------------------------------------------------------------------
(* Properties.                                                             *)

Live == {c \in Clients : handler[c] \notin {"none", "done"}}   \* goroutines not yet signalled
InHandle == {c \in Clients : handler[c] \in {"serving", "close", "gauge"}}

Pending == (IF acceptPC \in {"none", "done"} THEN 0 ELSE 1)    \* the accept loop itself
         + (IF acceptPC = "spawn" THEN 1 ELSE 0)               \* counted, not yet spawned

(* Invariant: the WaitGroup counts the accept loop and every handler that  *)
(* was announced and has not finished (wg.Add at server.go:60 and 85,      *)
(* wg.Done at 66 and 91), so Wait can neither return early nor miss one.   *)
WgAccurate == wg = Cardinality(Live) + Pending

(* Invariant: once Stop has returned nothing of the server is left: no     *)
(* accept loop, no handler, no registered or open connection, and the      *)
(* gauge /metrics reads is back to zero (server.go:99-115).                *)
StopQuiescent ==
  mainPC = "returned" =>
    /\ acceptPC = "done"
    /\ Live = {}
    /\ conns = {}
    /\ \A c \in Clients : conn[c] \notin {"backlog", "open"}
    /\ activeConns = 0

(* Invariant: after Stop has swept s.conns at most one connection is still *)
(* open, the one Accept had returned and the loop had not registered when  *)
(* the sweep ran (server.go:81-83 against 107-111).                        *)
AtMostOneStraggler ==
  mainPC = "wait" =>
    \A c, d \in Clients : conn[c] = "open" /\ conn[d] = "open" => c = d

(* Action property: after Start, wg.Add never raises the counter from zero,*)
(* which a WaitGroup forbids while another goroutine may be in Wait        *)
(* (server.go:85 against 113).                                             *)
NoAddFromZero == [][wg' > wg /\ wg = 0 => mainPC = "new"]_vars

(* A connection the sweep missed, held open by a client that stays.        *)
Straggler(c) == conn[c] = "open" /\ ~gone[c] /\ handler[c] = "serving"

(* Liveness: once begun, Stop returns, unless a straggler's client holds   *)
(* it in wg.Wait(); no other interleaving of accept loop, handlers and     *)
(* Stop can block it (server.go:99-115).                                   *)
StopReturnsOrStraggler ==
  mainPC = "closeListener" ~>
    (mainPC = "returned" \/ (mainPC = "wait" /\ \E c \in Clients : Straggler(c)))

(* Liveness: a connection whose client left is closed, taken out of        *)
(* s.conns and its goroutine ends, whatever main does (server.go:87-94,    *)
(* conn_handler.go:62-64).                                                 *)
NoLeak ==
  \A c \in Clients :
    (gone[c] /\ conn[c] = "open") ~> (conn[c] = "closed" /\ c \notin conns /\ handler[c] = "done")

(* What the comment at server.go:99 and the log line at main.go:94 say:    *)
(* Stop closes all active connections and comes to an end.                 *)
StopReturns == mainPC = "closeListener" ~> mainPC = "returned"
=============================================================================
