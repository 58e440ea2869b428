----------------------- MODULE ServerLifecycle_proofs -----------------------
(***************************************************************************)
(* Proofs about ServerLifecycle, for any finite set of clients.            *)
(*                                                                         *)
(* The inductive invariant IInv has four parts: the ranges (Typed), where  *)
(* the two ends of a connection, its registration and its goroutine can be *)
(* relative to each other (Shape), the two counters against the goroutines *)
(* they count (Counted), and what the sweep of Stop has left (Swept).      *)
(***************************************************************************)
EXTENDS ServerLifecycle, FiniteSetTheorems, TLAPS

Typed ==
  /\ mainPC \in MainPC
  /\ listener \in {"unbound", "listening", "closed"}
  /\ acceptPC \in AcceptPC
  /\ held \in Clients \cup {NoConn}
  /\ conns \in SUBSET Clients
  /\ wg \in Int
  /\ activeConns \in Int
  /\ handler \in [Clients -> HandlerPC]
  /\ conn \in [Clients -> ConnState]
  /\ gone \in [Clients -> BOOLEAN]

Holding == acceptPC \in {"register", "add", "spawn"}

Shape ==
  /\ acceptPC = "none" <=> mainPC \in {"new", "failed"}
  /\ listener = "listening" <=> mainPC \in {"running", "closeListener"}
  /\ listener = "closed" <=> mainPC \in {"sweep", "wait", "returned"}
  /\ Holding <=> held # NoConn
  /\ \A c \in Clients :
       /\ held = c => handler[c] = "none" /\ conn[c] \in {"open", "closed"}
       /\ conn[c] = "backlog" => listener = "listening"
       /\ conn[c] \notin {"open", "closed"} => handler[c] = "none"
       /\ handler[c] \in {"gauge", "deregister", "signal", "done"} => conn[c] = "closed"
       /\ conn[c] = "open" => c \in conns \/ (held = c /\ acceptPC = "register")
       /\ c \in conns => \/ held = c /\ acceptPC \in {"add", "spawn"}
                        \/ handler[c] \in {"spawned", "serving", "close", "gauge", "deregister"}

Counted ==
  /\ WgAccurate
  /\ activeConns = Cardinality(InHandle)

Swept ==
  /\ mainPC \in {"wait", "returned"} =>
       \A c, d \in Clients : conn[c] = "open" /\ conn[d] = "open" => c = d
  /\ mainPC = "returned" => wg = 0

IInv == Typed /\ Shape /\ Counted /\ Swept

-----------------------------------------------------------------------------
(* The sets the counters count are finite, so adding or removing one       *)
(* client changes their cardinality by one.                                *)
LEMMA SubsetsFinite == \A S \in SUBSET Clients : IsFiniteSet(S) /\ Cardinality(S) \in Nat
BY ClientsAssumption, FS_Subset, FS_CardinalityType

(* A client that was not counted is: the counter of its set grows by one.  *)
LEMMA OneMore ==
  ASSUME NEW S \in SUBSET Clients, NEW T, NEW c \in Clients, c \notin S, T = S \cup {c}
  PROVE  Cardinality(T) = Cardinality(S) + 1
BY SubsetsFinite, FS_AddElement

(* A client that was counted no longer is: the counter falls by one.       *)
LEMMA OneLess ==
  ASSUME NEW S \in SUBSET Clients, NEW T, NEW c \in Clients, c \in S, T = S \ {c}
  PROVE  Cardinality(T) = Cardinality(S) - 1
BY SubsetsFinite, FS_RemoveElement

-----------------------------------------------------------------------------
(* The initial state satisfies the inductive invariant (NewServer,         *)
(* server.go:32-41).                                                       *)
LEMMA InitIInv == Init => IInv
<1> SUFFICES ASSUME Init PROVE IInv
  OBVIOUS
<1>1. Typed
  BY DEF Init, Typed, MainPC, AcceptPC, HandlerPC, ConnState
<1>2. Shape
  BY NoConnAssumption DEF Init, Shape, Holding
<1>3. Counted
  <2>1. Live = {} /\ InHandle = {} /\ Pending = 0
    BY DEF Init, Live, InHandle, Pending
  <2> QED
    BY <2>1, FS_EmptySet DEF Init, Counted, WgAccurate
<1>4. Swept
  BY DEF Init, Swept
<1> QED
  BY <1>1, <1>2, <1>3, <1>4 DEF IInv

(* No step takes a variable out of its range.                              *)
LEMMA TypedStep == Typed /\ Shape /\ [Next]_vars => Typed'
<1> SUFFICES ASSUME Typed, Shape, [Next]_vars PROVE Typed'
  OBVIOUS
<1> USE DEF Typed, MainPC, AcceptPC, HandlerPC, ConnState
<1>1. CASE Start
  BY <1>1 DEF Start
<1>2. CASE StartFails
  BY <1>2 DEF StartFails
<1>3. CASE BeginStop
  BY <1>3 DEF BeginStop
<1>4. CASE CloseListener
  BY <1>4 DEF CloseListener
<1>5. CASE CloseConns
  BY <1>5 DEF CloseConns
<1>6. CASE WaitReturns
  BY <1>6 DEF WaitReturns
<1>7. CASE AcceptClosed
  BY <1>7 DEF AcceptClosed
<1>8. CASE Register
  BY <1>8 DEF Register, Shape, Holding
<1>9. CASE AddHandler
  BY <1>9 DEF AddHandler
<1>10. CASE Spawn
  BY <1>10 DEF Spawn, Shape, Holding
<1>11. CASE AcceptLoopDone
  BY <1>11 DEF AcceptLoopDone
<1>12. CASE AcceptFails
  BY <1>12 DEF AcceptFails
<1>13. CASE \E c \in Clients : Accept(c)
  BY <1>13 DEF Accept
<1>14. CASE \E c \in Clients : Enter(c)
  BY <1>14 DEF Enter
<1>15. CASE \E c \in Clients : IOFails(c)
  BY <1>15 DEF IOFails
<1>16. CASE \E c \in Clients : CloseConn(c)
  BY <1>16 DEF CloseConn
<1>17. CASE \E c \in Clients : LeaveGauge(c)
  BY <1>17 DEF LeaveGauge
<1>18. CASE \E c \in Clients : Deregister(c)
  BY <1>18 DEF Deregister
<1>19. CASE \E c \in Clients : HandlerDone(c)
  BY <1>19 DEF HandlerDone
<1>20. CASE \E c \in Clients : Quits(c)
  BY <1>20 DEF Quits
<1>21. CASE \E c \in Clients : DropConnection(c)
  BY <1>21 DEF DropConnection
<1>22. CASE \E c \in Clients : Dial(c)
  BY <1>22 DEF Dial
<1>23. CASE \E c \in Clients : Leave(c)
  BY <1>23 DEF Leave
<1>24. CASE UNCHANGED vars
  BY <1>24 DEF vars
<1> QED
  BY <1>1, <1>2, <1>3, <1>4, <1>5, <1>6, <1>7, <1>8, <1>9, <1>10, <1>11, <1>12,
     <1>13, <1>14, <1>15, <1>16, <1>17, <1>18, <1>19, <1>20, <1>21, <1>22, <1>23, <1>24
  DEF Next, MainStep, AcceptStep, HandlerStep, ClientStep, Exited

(* No step separates a connection from its registration and its goroutine. *)
LEMMA ShapeStep == Typed /\ Shape /\ [Next]_vars => Shape'
<1> SUFFICES ASSUME Typed, Shape, [Next]_vars PROVE Shape'
  OBVIOUS
<1> USE NoConnAssumption DEF Typed, MainPC, AcceptPC, HandlerPC, ConnState, Shape, Holding
<1>1. CASE Start
  BY <1>1 DEF Start
<1>2. CASE StartFails
  BY <1>2 DEF StartFails
<1>3. CASE BeginStop
  BY <1>3 DEF BeginStop
<1>4. CASE CloseListener
  BY <1>4 DEF CloseListener
<1>5. CASE CloseConns
  BY <1>5 DEF CloseConns
<1>6. CASE WaitReturns
  BY <1>6 DEF WaitReturns
<1>7. CASE AcceptClosed
  BY <1>7 DEF AcceptClosed
<1>8. CASE Register
  BY <1>8 DEF Register
<1>9. CASE AddHandler
  BY <1>9 DEF AddHandler
<1>10. CASE Spawn
  BY <1>10 DEF Spawn
<1>11. CASE AcceptLoopDone
  BY <1>11 DEF AcceptLoopDone
<1>12. CASE AcceptFails
  BY <1>12 DEF AcceptFails
<1>13. CASE \E c \in Clients : Accept(c)
  BY <1>13 DEF Accept
<1>14. CASE \E c \in Clients : Enter(c)
  BY <1>14 DEF Enter
<1>15. CASE \E c \in Clients : IOFails(c)
  BY <1>15 DEF IOFails
<1>16. CASE \E c \in Clients : CloseConn(c)
  BY <1>16 DEF CloseConn
<1>17. CASE \E c \in Clients : LeaveGauge(c)
  BY <1>17 DEF LeaveGauge
<1>18. CASE \E c \in Clients : Deregister(c)
  BY <1>18 DEF Deregister
<1>19. CASE \E c \in Clients : HandlerDone(c)
  BY <1>19 DEF HandlerDone
<1>20. CASE \E c \in Clients : Quits(c)
  BY <1>20 DEF Quits
<1>21. CASE \E c \in Clients : DropConnection(c)
  BY <1>21 DEF DropConnection
<1>22. CASE \E c \in Clients : Dial(c)
  BY <1>22 DEF Dial
<1>23. CASE \E c \in Clients : Leave(c)
  BY <1>23 DEF Leave
<1>24. CASE UNCHANGED vars
  BY <1>24 DEF vars
<1> QED
  BY <1>1, <1>2, <1>3, <1>4, <1>5, <1>6, <1>7, <1>8, <1>9, <1>10, <1>11, <1>12,
     <1>13, <1>14, <1>15, <1>16, <1>17, <1>18, <1>19, <1>20, <1>21, <1>22, <1>23, <1>24
  DEF Next, MainStep, AcceptStep, HandlerStep, ClientStep, Exited

(* Every step moves the counters exactly as it moves the goroutines they   *)
(* count.                                                                  *)
LEMMA CountedStep == Typed /\ Shape /\ Counted /\ [Next]_vars => Counted'
<1> SUFFICES ASSUME Typed, Shape, Counted, [Next]_vars PROVE Counted'
  OBVIOUS
<1> USE DEF Typed, HandlerPC
<1>1. CASE Start
  <2>1. Live' = Live /\ InHandle' = InHandle /\ activeConns' = activeConns
    BY <1>1 DEF Start, Live, InHandle
  <2>2. Pending' = Pending + 1 /\ wg' = wg + 1 /\ Pending \in Int
    BY <1>1 DEF Start, Pending, Shape
  <2>3. Cardinality(Live) \in Nat
    BY SubsetsFinite DEF Live
  <2> QED
    BY <2>1, <2>2, <2>3 DEF Counted, WgAccurate
<1>2. CASE StartFails
  <2>1. /\ Live' = Live /\ InHandle' = InHandle /\ Pending' = Pending
        /\ wg' = wg /\ activeConns' = activeConns
    BY <1>2 DEF StartFails, Live, InHandle, Pending
  <2> QED
    BY <2>1 DEF Counted, WgAccurate
<1>3. CASE BeginStop
  <2>1. /\ Live' = Live /\ InHandle' = InHandle /\ Pending' = Pending
        /\ wg' = wg /\ activeConns' = activeConns
    BY <1>3 DEF BeginStop, Live, InHandle, Pending
  <2> QED
    BY <2>1 DEF Counted, WgAccurate
<1>4. CASE CloseListener
  <2>1. /\ Live' = Live /\ InHandle' = InHandle /\ Pending' = Pending
        /\ wg' = wg /\ activeConns' = activeConns
    BY <1>4 DEF CloseListener, Live, InHandle, Pending
  <2> QED
    BY <2>1 DEF Counted, WgAccurate
<1>5. CASE CloseConns
  <2>1. /\ Live' = Live /\ InHandle' = InHandle /\ Pending' = Pending
        /\ wg' = wg /\ activeConns' = activeConns
    BY <1>5 DEF CloseConns, Live, InHandle, Pending
  <2> QED
    BY <2>1 DEF Counted, WgAccurate
<1>6. CASE WaitReturns
  <2>1. /\ Live' = Live /\ InHandle' = InHandle /\ Pending' = Pending
        /\ wg' = wg /\ activeConns' = activeConns
    BY <1>6 DEF WaitReturns, Live, InHandle, Pending
  <2> QED
    BY <2>1 DEF Counted, WgAccurate
<1>7. CASE AcceptClosed
  <2>1. /\ Live' = Live /\ InHandle' = InHandle /\ Pending' = Pending
        /\ wg' = wg /\ activeConns' = activeConns
    BY <1>7 DEF AcceptClosed, Live, InHandle, Pending
  <2> QED
    BY <2>1 DEF Counted, WgAccurate
<1>8. CASE Register
  <2>1. /\ Live' = Live /\ InHandle' = InHandle /\ Pending' = Pending
        /\ wg' = wg /\ activeConns' = activeConns
    BY <1>8 DEF Register, Live, InHandle, Pending
  <2> QED
    BY <2>1 DEF Counted, WgAccurate
<1>9. CASE AddHandler
  <2>1. Live' = Live /\ InHandle' = InHandle /\ activeConns' = activeConns
    BY <1>9 DEF AddHandler, Live, InHandle
  <2>2. Pending' = Pending + 1 /\ wg' = wg + 1 /\ Pending \in Int
    BY <1>9 DEF AddHandler, Pending
  <2>3. Cardinality(Live) \in Nat
    BY SubsetsFinite DEF Live
  <2> QED
    BY <2>1, <2>2, <2>3 DEF Counted, WgAccurate
<1>10. CASE Spawn
  <2>1. held \in Clients /\ handler[held] = "none"
    BY <1>10 DEF Spawn, Shape, Holding
  <2>2. held \notin Live /\ Live' = Live \cup {held} /\ InHandle' = InHandle
    BY <1>10, <2>1 DEF Spawn, Live, InHandle
  <2>3. Cardinality(Live') = Cardinality(Live) + 1
    BY <2>1, <2>2, OneMore DEF Live
  <2>4. Pending' = Pending - 1 /\ wg' = wg /\ activeConns' = activeConns
    BY <1>10 DEF Spawn, Pending
  <2>5. Cardinality(Live) \in Nat /\ Pending \in Int
    BY SubsetsFinite DEF Live, Pending
  <2> QED
    BY <2>2, <2>3, <2>4, <2>5 DEF Counted, WgAccurate
<1>11. CASE AcceptLoopDone
  <2>1. Live' = Live /\ InHandle' = InHandle /\ activeConns' = activeConns
    BY <1>11 DEF AcceptLoopDone, Live, InHandle
  <2>2. Pending' = Pending - 1 /\ wg' = wg - 1 /\ Pending \in Int
    BY <1>11 DEF AcceptLoopDone, Pending
  <2>3. Cardinality(Live) \in Nat
    BY SubsetsFinite DEF Live
  <2> QED
    BY <2>1, <2>2, <2>3 DEF Counted, WgAccurate
<1>12. CASE AcceptFails
  <2>1. /\ Live' = Live /\ InHandle' = InHandle /\ Pending' = Pending
        /\ wg' = wg /\ activeConns' = activeConns
    BY <1>12 DEF AcceptFails, Live, InHandle, Pending
  <2> QED
    BY <2>1 DEF Counted, WgAccurate
<1>13. CASE \E c \in Clients : Accept(c)
  <2> PICK c \in Clients : Accept(c)
    BY <1>13
  <2>1. /\ Live' = Live /\ InHandle' = InHandle /\ Pending' = Pending
        /\ wg' = wg /\ activeConns' = activeConns
    BY DEF Accept, Live, InHandle, Pending
  <2> QED
    BY <2>1 DEF Counted, WgAccurate
<1>14. CASE \E c \in Clients : Enter(c)
  <2> PICK c \in Clients : Enter(c)
    BY <1>14
  <2>1. Live' = Live
    BY DEF Enter, Live
  <2>2. c \notin InHandle /\ InHandle' = InHandle \cup {c}
    BY DEF Enter, InHandle
  <2>3. Cardinality(Live') = Cardinality(Live)
    BY <2>1
  <2>4. Cardinality(InHandle') = Cardinality(InHandle) + 1
    BY <2>2, OneMore DEF InHandle
  <2>5. Pending' = Pending /\ wg' = wg /\ activeConns' = activeConns + 1
    BY DEF Enter, Pending
  <2>6. Cardinality(Live) \in Nat /\ Cardinality(InHandle) \in Nat /\ Pending \in Int
    BY SubsetsFinite DEF Live, InHandle, Pending
  <2> QED
    BY <2>3, <2>4, <2>5, <2>6 DEF Counted, WgAccurate
<1>15. CASE \E c \in Clients : IOFails(c)
  <2> PICK c \in Clients : IOFails(c)
    BY <1>15
  <2>1. /\ Live' = Live /\ InHandle' = InHandle /\ Pending' = Pending
        /\ wg' = wg /\ activeConns' = activeConns
    BY DEF IOFails, Live, InHandle, Pending
  <2> QED
    BY <2>1 DEF Counted, WgAccurate
<1>16. CASE \E c \in Clients : CloseConn(c)
  <2> PICK c \in Clients : CloseConn(c)
    BY <1>16
  <2>1. /\ Live' = Live /\ InHandle' = InHandle /\ Pending' = Pending
        /\ wg' = wg /\ activeConns' = activeConns
    BY DEF CloseConn, Live, InHandle, Pending
  <2> QED
    BY <2>1 DEF Counted, WgAccurate
<1>17. CASE \E c \in Clients : LeaveGauge(c)
  <2> PICK c \in Clients : LeaveGauge(c)
    BY <1>17
  <2>1. Live' = Live
    BY DEF LeaveGauge, Live
  <2>2. c \in InHandle /\ InHandle' = InHandle \ {c}
    BY DEF LeaveGauge, InHandle
  <2>3. Cardinality(Live') = Cardinality(Live)
    BY <2>1
  <2>4. Cardinality(InHandle') = Cardinality(InHandle) - 1
    BY <2>2, OneLess DEF InHandle
  <2>5. Pending' = Pending /\ wg' = wg /\ activeConns' = activeConns - 1
    BY DEF LeaveGauge, Pending
  <2>6. Cardinality(Live) \in Nat /\ Cardinality(InHandle) \in Nat /\ Pending \in Int
    BY SubsetsFinite DEF Live, InHandle, Pending
  <2> QED
    BY <2>3, <2>4, <2>5, <2>6 DEF Counted, WgAccurate
<1>18. CASE \E c \in Clients : Deregister(c)
  <2> PICK c \in Clients : Deregister(c)
    BY <1>18
  <2>1. /\ Live' = Live /\ InHandle' = InHandle /\ Pending' = Pending
        /\ wg' = wg /\ activeConns' = activeConns
    BY DEF Deregister, Live, InHandle, Pending
  <2> QED
    BY <2>1 DEF Counted, WgAccurate
<1>19. CASE \E c \in Clients : HandlerDone(c)
  <2> PICK c \in Clients : HandlerDone(c)
    BY <1>19
  <2>1. c \in Live /\ Live' = Live \ {c}
    BY DEF HandlerDone, Live
  <2>2. InHandle' = InHandle
    BY DEF HandlerDone, InHandle
  <2>3. Cardinality(Live') = Cardinality(Live) - 1
    BY <2>1, OneLess DEF Live
  <2>4. Cardinality(InHandle') = Cardinality(InHandle)
    BY <2>2
  <2>5. Pending' = Pending /\ wg' = wg - 1 /\ activeConns' = activeConns
    BY DEF HandlerDone, Pending
  <2>6. Cardinality(Live) \in Nat /\ Cardinality(InHandle) \in Nat /\ Pending \in Int
    BY SubsetsFinite DEF Live, InHandle, Pending
  <2> QED
    BY <2>3, <2>4, <2>5, <2>6 DEF Counted, WgAccurate
<1>20. CASE \E c \in Clients : Quits(c)
  <2> PICK c \in Clients : Quits(c)
    BY <1>20
  <2>1. /\ Live' = Live /\ InHandle' = InHandle /\ Pending' = Pending
        /\ wg' = wg /\ activeConns' = activeConns
    BY DEF Quits, Live, InHandle, Pending
  <2> QED
    BY <2>1 DEF Counted, WgAccurate
<1>21. CASE \E c \in Clients : DropConnection(c)
  <2> PICK c \in Clients : DropConnection(c)
    BY <1>21
  <2>1. /\ Live' = Live /\ InHandle' = InHandle /\ Pending' = Pending
        /\ wg' = wg /\ activeConns' = activeConns
    BY DEF DropConnection, Live, InHandle, Pending
  <2> QED
    BY <2>1 DEF Counted, WgAccurate
<1>22. CASE \E c \in Clients : Dial(c)
  <2> PICK c \in Clients : Dial(c)
    BY <1>22
  <2>1. /\ Live' = Live /\ InHandle' = InHandle /\ Pending' = Pending
        /\ wg' = wg /\ activeConns' = activeConns
    BY DEF Dial, Live, InHandle, Pending
  <2> QED
    BY <2>1 DEF Counted, WgAccurate
<1>23. CASE \E c \in Clients : Leave(c)
  <2> PICK c \in Clients : Leave(c)
    BY <1>23
  <2>1. /\ Live' = Live /\ InHandle' = InHandle /\ Pending' = Pending
        /\ wg' = wg /\ activeConns' = activeConns
    BY DEF Leave, Live, InHandle, Pending
  <2> QED
    BY <2>1 DEF Counted, WgAccurate
<1>24. CASE UNCHANGED vars
  <2>1. /\ Live' = Live /\ InHandle' = InHandle /\ Pending' = Pending
        /\ wg' = wg /\ activeConns' = activeConns
    BY <1>24 DEF vars, Live, InHandle, Pending
  <2> QED
    BY <2>1 DEF Counted, WgAccurate
<1> QED
  BY <1>1, <1>2, <1>3, <1>4, <1>5, <1>6, <1>7, <1>8, <1>9, <1>10, <1>11, <1>12,
     <1>13, <1>14, <1>15, <1>16, <1>17, <1>18, <1>19, <1>20, <1>21, <1>22, <1>23, <1>24
  DEF Next, MainStep, AcceptStep, HandlerStep, ClientStep, Exited

(* After the sweep nothing is accepted any more, and the sweep misses at   *)
(* most what the accept loop holds; a returned Wait stays returned.        *)
LEMMA SweptStep == IInv /\ [Next]_vars => Swept'
<1> SUFFICES ASSUME IInv, [Next]_vars PROVE Swept'
  OBVIOUS
<1>a. Typed /\ Shape /\ Swept
  BY DEF IInv
<1>b. wg = Cardinality(Live) + Pending /\ Cardinality(Live) \in Nat
  BY SubsetsFinite DEF IInv, Counted, WgAccurate, Live
<1>1. CASE Start
  BY <1>1, <1>a DEF Start, Swept, Shape
<1>2. CASE StartFails
  BY <1>2, <1>a DEF StartFails, Swept, Shape
<1>3. CASE BeginStop
  BY <1>3, <1>a DEF BeginStop, Swept, Shape
<1>4. CASE CloseListener
  BY <1>4, <1>a DEF CloseListener, Swept, Shape
<1>5. CASE CloseConns
  BY <1>5, <1>a DEF CloseConns, Swept, Shape, Typed, ConnState, MainPC
<1>6. CASE WaitReturns
  BY <1>6, <1>a DEF WaitReturns, Swept, Shape
<1>7. CASE AcceptClosed
  BY <1>7, <1>a DEF AcceptClosed, Swept, Shape
<1>8. CASE Register
  BY <1>8, <1>a DEF Register, Swept, Shape
<1>9. CASE AddHandler
  <2>1. Pending = 1 /\ wg # 0
    BY <1>9, <1>b DEF AddHandler, Pending
  <2> QED
    BY <1>9, <1>a, <2>1 DEF AddHandler, Swept
<1>10. CASE Spawn
  BY <1>10, <1>a DEF Spawn, Swept, Shape
<1>11. CASE AcceptLoopDone
  <2>1. Pending = 1 /\ wg # 0
    BY <1>11, <1>b DEF AcceptLoopDone, Pending
  <2> QED
    BY <1>11, <1>a, <2>1 DEF AcceptLoopDone, Swept
<1>12. CASE AcceptFails
  BY <1>12, <1>a DEF AcceptFails, Swept, Shape
<1>13. CASE \E c \in Clients : Accept(c)
  BY <1>13, <1>a DEF Accept, Swept, Shape, Typed, ConnState, MainPC
<1>14. CASE \E c \in Clients : Enter(c)
  BY <1>14, <1>a DEF Enter, Swept, Shape
<1>15. CASE \E c \in Clients : IOFails(c)
  BY <1>15, <1>a DEF IOFails, Swept, Shape
<1>16. CASE \E c \in Clients : CloseConn(c)
  BY <1>16, <1>a DEF CloseConn, Swept, Shape, Typed, ConnState, MainPC
<1>17. CASE \E c \in Clients : LeaveGauge(c)
  BY <1>17, <1>a DEF LeaveGauge, Swept, Shape
<1>18. CASE \E c \in Clients : Deregister(c)
  BY <1>18, <1>a DEF Deregister, Swept, Shape
<1>19. CASE \E c \in Clients : HandlerDone(c)
  <2> PICK c \in Clients : HandlerDone(c)
    BY <1>19
  <2>1. c \in Live
    BY DEF HandlerDone, Live
  <2>2. Cardinality(Live) # 0
    BY <2>1, SubsetsFinite, FS_EmptySet DEF Live
  <2>3. wg # 0
    BY <1>b, <2>2 DEF Pending
  <2> QED
    BY <1>a, <2>3 DEF HandlerDone, Swept
<1>20. CASE \E c \in Clients : Quits(c)
  BY <1>20, <1>a DEF Quits, Swept, Shape
<1>21. CASE \E c \in Clients : DropConnection(c)
  BY <1>21, <1>a DEF DropConnection, Swept, Shape, Typed, ConnState, MainPC
<1>22. CASE \E c \in Clients : Dial(c)
  BY <1>22, <1>a DEF Dial, Swept, Shape, Typed, ConnState, MainPC
<1>23. CASE \E c \in Clients : Leave(c)
  BY <1>23, <1>a DEF Leave, Swept, Shape
<1>24. CASE UNCHANGED vars
  BY <1>24, <1>a DEF vars, Swept
<1> QED
  BY <1>1, <1>2, <1>3, <1>4, <1>5, <1>6, <1>7, <1>8, <1>9, <1>10, <1>11, <1>12,
     <1>13, <1>14, <1>15, <1>16, <1>17, <1>18, <1>19, <1>20, <1>21, <1>22, <1>23, <1>24
  DEF Next, MainStep, AcceptStep, HandlerStep, ClientStep, Exited

(* The invariant holds in every reachable state.                           *)
THEOREM Invariance == Spec => []IInv
<1>1. IInv /\ [Next]_vars => IInv'
  BY TypedStep, ShapeStep, CountedStep, SweptStep DEF IInv
<1> QED
  BY InitIInv, <1>1, PTL DEF Spec

-----------------------------------------------------------------------------
(* The WaitGroup and the gauge are never negative and every variable is in *)
(* range (server.go:15-29).                                                *)
THEOREM TypeCorrect == Spec => []TypeOK
<1>1. IInv => TypeOK
  <2> SUFFICES ASSUME IInv PROVE TypeOK
    OBVIOUS
  <2>1. Cardinality(Live) \in Nat /\ Cardinality(InHandle) \in Nat /\ Pending \in Nat
    BY SubsetsFinite DEF Live, InHandle, Pending
  <2>2. wg \in Nat /\ activeConns \in Nat
    BY <2>1 DEF IInv, Counted, WgAccurate
  <2> QED
    BY <2>2 DEF IInv, Typed, TypeOK
<1> QED
  BY Invariance, <1>1, PTL

(* The WaitGroup counts what is running (server.go:60, 66, 85, 91).        *)
THEOREM WgCounts == Spec => []WgAccurate
<1>1. IInv => WgAccurate
  BY DEF IInv, Counted
<1> QED
  BY Invariance, <1>1, PTL

(* Stop leaves nothing behind (server.go:99-115).                          *)
THEOREM StopLeavesNothing == Spec => []StopQuiescent
<1>1. IInv => StopQuiescent
  <2> SUFFICES ASSUME IInv, mainPC = "returned"
               PROVE  /\ acceptPC = "done" /\ Live = {} /\ conns = {}
                      /\ \A c \in Clients : conn[c] \notin {"backlog", "open"}
                      /\ activeConns = 0
    BY DEF StopQuiescent
  <2>1. Cardinality(Live) \in Nat /\ Pending \in Nat /\ IsFiniteSet(Live)
    BY SubsetsFinite DEF Live, Pending
  <2>2. Cardinality(Live) = 0 /\ Pending = 0
    BY <2>1 DEF IInv, Swept, Counted, WgAccurate
  <2>3. Live = {}
    BY <2>1, <2>2, FS_EmptySet
  <2>4. \A c \in Clients : handler[c] \in {"none", "done"}
    BY <2>3 DEF Live
  <2>5. acceptPC = "done"
    BY <2>2 DEF Pending, IInv, Shape, Typed, AcceptPC
  <2>6. held = NoConn
    BY <2>5 DEF IInv, Shape, Holding
  <2>7. \A c \in Clients : c \notin conns /\ conn[c] \notin {"backlog", "open"}
    BY <2>4, <2>5, <2>6, NoConnAssumption DEF IInv, Shape
  <2>8. InHandle = {}
    BY <2>4 DEF InHandle
  <2>9. activeConns = 0
    BY <2>8, FS_EmptySet DEF IInv, Counted
  <2> QED
    BY <2>3, <2>5, <2>7, <2>9 DEF IInv, Typed
<1> QED
  BY Invariance, <1>1, PTL

(* The sweep of Stop misses one connection at most (server.go:107-111).    *)
THEOREM OneStraggler == Spec => []AtMostOneStraggler
<1>1. IInv => AtMostOneStraggler
  BY DEF IInv, Swept, AtMostOneStraggler
<1> QED
  BY Invariance, <1>1, PTL

(* wg.Add never meets a counter at zero once Start has returned            *)
(* (server.go:85 against 113).                                             *)
THEOREM WaitGroupUse == Spec => NoAddFromZero
<1>1. IInv /\ [Next]_vars => [wg' > wg /\ wg = 0 => mainPC = "new"]_vars
  <2> SUFFICES ASSUME IInv, [Next]_vars, wg' > wg, wg = 0, mainPC # "new" PROVE FALSE
    OBVIOUS
  <2>1. Cardinality(Live) \in Nat /\ Pending \in Nat /\ Pending = 0
    BY SubsetsFinite DEF Live, Pending, IInv, Counted, WgAccurate
  <2>2. CASE AddHandler
    BY <2>1, <2>2 DEF AddHandler, Pending
  <2>3. CASE ~AddHandler
    <3>1. wg' = wg \/ wg' = wg - 1
      BY <2>3 DEF Next, MainStep, AcceptStep, HandlerStep, ClientStep, Exited, vars,
          AddHandler, Start, StartFails, BeginStop, CloseListener, CloseConns, WaitReturns,
          AcceptClosed, Register, Spawn, AcceptLoopDone, AcceptFails, Accept, Enter, IOFails,
          CloseConn, LeaveGauge, Deregister, HandlerDone, Quits, DropConnection, Dial, Leave
    <3> QED
      BY <3>1
  <2> QED
    BY <2>2, <2>3
<1> QED
  BY Invariance, <1>1, PTL DEF Spec, NoAddFromZero
=============================================================================
