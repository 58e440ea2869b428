----------------------------- MODULE Store_proofs -----------------------------
(***************************************************************************)
(* Proofs about Store, for any tables, statements and sessions: no row is  *)
(* shared, only the UPDATE that holds the lock has a half-written cell,    *)
(* and the store implements Tables.                                        *)
(***************************************************************************)
EXTENDS Store, Statement_proofs

-----------------------------------------------------------------------------
(* The inductive invariant.                                                *)

Texts  == Values \cup {Torn}
Object == [cols : Seq(Columns), rows : Seq(Nat)]

(* Tables are different objects; no two rows of any objects are one slice. *)
Shape ==
  /\ DOMAIN tables \subseteq TableNames /\ \A n \in DOMAIN tables : tables[n] \in DOMAIN objs
  /\ \A m, n \in DOMAIN tables : tables[m] = tables[n] => m = n
  /\ objs \in Seq(Object) /\ cells \in Seq(Seq(Texts))
  /\ \A o \in DOMAIN objs : \A i \in DOMAIN objs[o].rows :
       objs[o].rows[i] \in DOMAIN cells /\ Len(cells[objs[o].rows[i]]) = Len(objs[o].cols)
  /\ \A o, p \in DOMAIN objs : \A i \in DOMAIN objs[o].rows, j \in DOMAIN objs[p].rows :
       objs[o].rows[i] = objs[p].rows[j] => o = p /\ i = j

(* Nobody but the UPDATE leaves a cell half written.                       *)
Intact == \A r \in DOMAIN cells : \A k \in DOMAIN cells[r] : cells[r][k] = Torn => <<r, k>> \in update.half

(* What a cell of the table holds while st updates it.                     *)
CellNow(st, mark, old) ==
  IF mark \in update.half THEN Torn
  ELSE IF mark \in update.todo \/ mark \notin Targets(update.obj, st) THEN old ELSE update.set[mark[2]]

(* How far the UPDATE st has come.                                         *)
Progress(st) ==
  /\ st.op = "update" /\ st.table \in DOMAIN tables /\ tables[st.table] = update.obj
  /\ update.set = Stored(objs[update.obj].cols, st.set)
  /\ update.before \in Seq(Seq(Values)) /\ Len(update.before) = Len(objs[update.obj].rows)
  /\ \A i \in DOMAIN update.before : Len(update.before[i]) = Len(objs[update.obj].cols)
  /\ update.todo \cup update.half \subseteq Targets(update.obj, st)
  /\ update.todo \cap update.half = {} /\ \A t, u \in update.half : t = u
  /\ \A i \in DOMAIN update.before : \A k \in DOMAIN objs[update.obj].cols :
       cells[objs[update.obj].rows[i]][k] =
         CellNow(st, <<objs[update.obj].rows[i], k>>, update.before[i][k])

Lock ==
  /\ DOMAIN update = DOMAIN NoUpdate /\ update.on \in BOOLEAN
  /\ ~update.on => update = NoUpdate
  /\ update.on => \E st \in Statements : Progress(st)

(* A SELECT has seen what the object it found contains, which only changes *)
(* while the table it asked for points to it, and found an answer to it.   *)
Sees(s) ==
  /\ DOMAIN call[s] = DOMAIN NoCall /\ call[s].pc \in {"idle", "found", "send"}
  /\ call[s].pc = "found" =>
       /\ call[s].obj \in DOMAIN objs
       /\ \A n \in DOMAIN tables : tables[n] = call[s].obj => n = call[s].st.table
       /\ Table(call[s].obj) \in seen[s]
  /\ call[s].pc = "send" => \E t \in seen[s] \ {NoTable} : call[s].view = Answer(call[s].st, t)
Seeing == call = [s \in Sessions |-> call[s]] /\ \A s \in Sessions : Sees(s)

Inv == Shape /\ Intact /\ Lock /\ Seeing

(* An empty store satisfies the invariant (NewStateStore).                 *)
LEMMA InitInv == Init => Inv
<1> SUFFICES ASSUME Init PROVE Inv
  OBVIOUS
<1>1. Shape /\ Intact
  BY DEF Init, Shape, Intact
<1>2. Lock
  BY DEF Init, Lock, NoUpdate
<1>3. Seeing
  BY DEF Init, Seeing, Sees, NoCall
<1> QED
  BY <1>1, <1>2, <1>3 DEF Inv

(* What object o contains after a step.                                    *)
NextRows(o)  == IF update'.on /\ update'.obj = o THEN update'.before
                ELSE [i \in DOMAIN objs'[o].rows |-> cells'[objs'[o].rows[i]]]
NextTable(o) == [cols |-> objs'[o].cols, rows |-> NextRows(o)]

(* The tables after a step, read off the objects and slices after it.      *)
LEMMA NextDb == Db' = [n \in DOMAIN tables' |-> NextTable(tables'[n])]
BY DEF Db, Table, RowsOf, Contents, NextTable, NextRows

(* The parts of the store.                                                 *)
LEMMA Objects ==
  ASSUME Shape
  PROVE  /\ Len(objs) \in Nat /\ DOMAIN objs = 1 .. Len(objs) /\ Len(cells) \in Nat /\ DOMAIN cells = 1 .. Len(cells)
         /\ \A o \in DOMAIN objs :
              /\ objs[o] \in Object /\ objs[o].cols \in Seq(Columns) /\ objs[o].rows \in Seq(Nat)
              /\ Len(objs[o].rows) \in Nat /\ DOMAIN objs[o].rows = 1 .. Len(objs[o].rows)
              /\ Len(objs[o].cols) \in Nat /\ DOMAIN objs[o].cols = 1 .. Len(objs[o].cols)
         /\ \A r \in DOMAIN cells :
              cells[r] \in Seq(Texts) /\ Len(cells[r]) \in Nat /\ DOMAIN cells[r] = 1 .. Len(cells[r])
<1>1. objs \in Seq(Object) /\ cells \in Seq(Seq(Texts))
  BY DEF Shape
<1>2. /\ Len(objs) \in Nat /\ DOMAIN objs = 1 .. Len(objs) /\ Len(cells) \in Nat /\ DOMAIN cells = 1 .. Len(cells)
  BY <1>1, LenProperties
<1>3. ASSUME NEW o \in DOMAIN objs
      PROVE  objs[o] \in Object /\ objs[o].cols \in Seq(Columns) /\ objs[o].rows \in Seq(Nat)
  <2>1. objs[o] \in Object
    BY <1>1, <1>2, ElementOfSeq
  <2> QED
    BY <2>1 DEF Object
<1>4. \A r \in DOMAIN cells : cells[r] \in Seq(Texts)
  BY <1>1, <1>2, ElementOfSeq
<1> QED
  BY <1>2, <1>3, <1>4, LenProperties

(* A table is not NoTable.                                                 *)
LEMMA TableIsTable ==
  ASSUME Shape, Lock, NEW o \in DOMAIN objs
  PROVE  Table(o) \in [cols : Seq(Columns), rows : Seq(Seq(Texts))] /\ Table(o) # NoTable
<1>1. objs[o].cols \in Seq(Columns) /\ objs[o].rows \in Seq(Nat)
  BY Objects
<1>2. RowsOf(o) \in Seq(Seq(Texts))
  <2>1. CASE update.on /\ update.obj = o
    <3>1. update.before \in Seq(Seq(Values))
      BY <2>1 DEF Lock, Progress
    <3>2. update.before \in Seq(Seq(Texts))
      BY <3>1 DEF Texts
    <3> QED
      BY <2>1, <3>2 DEF RowsOf
  <2>2. CASE ~(update.on /\ update.obj = o)
    <3>1. RowsOf(o) = [i \in 1 .. Len(objs[o].rows) |-> cells[objs[o].rows[i]]]
      BY <1>1, <2>2, LenProperties DEF RowsOf, Contents
    <3>2. Len(objs[o].rows) \in Nat /\ \A i \in 1 .. Len(objs[o].rows) : cells[objs[o].rows[i]] \in Seq(Texts)
      BY <1>1, LenProperties, ElementOfSeq DEF Shape
    <3> QED
      BY <3>1, <3>2, IsASeq
  <2> QED
    BY <2>1, <2>2
<1> QED
  BY <1>1, <1>2, NoTableAssumption DEF Table, Texts

(* A session keeps seeing what it has found: objects change only while a   *)
(* table points to them, and no table comes to point to an old object.     *)
LEMMA SeesOn ==
  ASSUME Seeing, Watch, DOMAIN objs \subseteq DOMAIN objs',
         \A p \in DOMAIN objs : NextTable(p) = Table(p) \/ \E n \in DOMAIN tables' : tables'[n] = p,
         \A n \in DOMAIN tables' : tables'[n] \in DOMAIN objs => n \in DOMAIN tables /\ tables[n] = tables'[n],
         NEW s \in Sessions, call'[s] = call[s]
  PROVE  Sees(s)'
<1>1. Sees(s)
  BY DEF Seeing
<1>2. CASE call[s].pc = "idle"
  BY <1>1, <1>2 DEF Sees
<1>3. CASE call[s].pc # "idle"
  <2>1. seen'[s] = seen[s] \cup {Content(call[s].st.table, Db')}
    BY <1>3 DEF Watch
  <2>2. CASE call[s].pc = "send"
    BY <1>1, <2>1, <2>2 DEF Sees
  <2>3. CASE call[s].pc = "found"
    <3> DEFINE o == call[s].obj
    <3>1. o \in DOMAIN objs' /\ \A n \in DOMAIN tables' : tables'[n] = o => n = call[s].st.table
      BY <1>1, <2>3 DEF Sees
    <3>2. NextTable(o) \in seen'[s]
      <4>1. CASE NextTable(o) = Table(o)
        BY <1>1, <2>1, <2>3, <4>1 DEF Sees
      <4>2. CASE \E n \in DOMAIN tables' : tables'[n] = o
        <5>1. call[s].st.table \in DOMAIN tables' /\ tables'[call[s].st.table] = o
          BY <3>1, <4>2
        <5>2. Content(call[s].st.table, Db') = NextTable(o)
          BY <5>1, NextDb DEF Content
        <5> QED
          BY <2>1, <5>2
      <4> QED
        BY <1>1, <2>3, <4>1, <4>2 DEF Sees
    <3>3. Table(call[s].obj)' = NextTable(o)
      BY DEF Table, RowsOf, Contents, NextTable, NextRows
    <3> QED
      BY <1>1, <2>3, <3>1, <3>2, <3>3 DEF Sees
  <2> QED
    BY <1>1, <1>3, <2>2, <2>3 DEF Sees
<1> QED
  BY <1>2, <1>3

-----------------------------------------------------------------------------
(* The shape of the store, statement by statement.                         *)

(* One member of a list is replaced.                                       *)
LEMMA OneReplaced ==
  ASSUME NEW S, NEW s \in Seq(S), NEW i \in DOMAIN s, NEW v \in S, NEW t, t = [s EXCEPT ![i] = v]
  PROVE  /\ t \in Seq(S) /\ Len(t) = Len(s) /\ DOMAIN t = DOMAIN s
         /\ t[i] = v /\ \A j \in DOMAIN s \ {i} : t[j] = s[j]
<1>1. DOMAIN s = 1 .. Len(s) /\ Len(s) \in Nat /\ \A j \in 1 .. Len(s) : s[j] \in S
  BY LenProperties, ElementOfSeq
<1>2. t = [j \in 1 .. Len(s) |-> IF j = i THEN v ELSE s[j]]
  BY <1>1
<1>3. t \in [1 .. Len(s) -> S]
  BY <1>1, <1>2
<1>4. t \in Seq(S) /\ Len(t) = Len(s)
  BY <1>1, <1>3
<1> QED
  BY <1>1, <1>2, <1>4

(* An object that keeps some of its rows, each at most once.               *)
Chosen(rows, old) ==
  \E at : /\ \A i \in DOMAIN rows : at[i] \in DOMAIN old /\ rows[i] = old[at[i]]
          /\ \A i, k \in DOMAIN rows : at[i] = at[k] => i = k

(* A table that keeps some of its row slices, each once, shares none with  *)
(* another table (state_store.go:355-363).                                 *)
LEMMA FewerRows ==
  ASSUME Shape, NEW o \in DOMAIN objs, NEW rows \in Seq(Nat),
         objs' = [objs EXCEPT ![o].rows = rows], UNCHANGED <<tables, cells>>,
         Chosen(rows, objs[o].rows)
  PROVE  /\ Shape'
         /\ DOMAIN objs' = DOMAIN objs /\ objs'[o].rows = rows /\ \A p \in DOMAIN objs : objs'[p].cols = objs[p].cols
         /\ \A p \in DOMAIN objs \ {o} : objs'[p] = objs[p]
<1>1. /\ objs \in Seq(Object) /\ objs[o] \in Object /\ objs[o] = [cols |-> objs[o].cols, rows |-> objs[o].rows]
      /\ objs[o].cols \in Seq(Columns)
  BY Objects DEF Shape, Object
<1>0. PICK at : /\ \A i \in DOMAIN rows : at[i] \in DOMAIN objs[o].rows /\ rows[i] = objs[o].rows[at[i]]
                /\ \A i, k \in DOMAIN rows : at[i] = at[k] => i = k
  BY DEF Chosen
<1> DEFINE new == [objs[o] EXCEPT !.rows = rows]
<1>2. new \in Object /\ new.cols = objs[o].cols /\ new.rows = rows
  BY <1>1 DEF Object
<1>3. objs' = [objs EXCEPT ![o] = new]
  OBVIOUS
<1> HIDE DEF new
<1>4. /\ objs' \in Seq(Object) /\ DOMAIN objs' = DOMAIN objs
      /\ objs'[o] = new /\ \A p \in DOMAIN objs \ {o} : objs'[p] = objs[p]
  <2>1. objs \in Seq(Object) /\ new \in Object /\ objs' = [objs EXCEPT ![o] = new]
    BY <1>1, <1>2, <1>3
  <2> QED
    BY <2>1, OneReplaced
<1>5. \A p \in DOMAIN objs : objs'[p].cols = objs[p].cols
  BY <1>2, <1>4
<1>6. ASSUME NEW p \in DOMAIN objs, NEW i \in DOMAIN objs'[p].rows
      PROVE  /\ objs'[p].rows[i] \in DOMAIN cells /\ Len(cells[objs'[p].rows[i]]) = Len(objs[p].cols)
             /\ \E j \in DOMAIN objs[p].rows : objs'[p].rows[i] = objs[p].rows[j] /\ j = IF p = o THEN at[i] ELSE i
  BY <1>0, <1>2, <1>4 DEF Shape
<1>7. ASSUME NEW p \in DOMAIN objs, NEW q \in DOMAIN objs, NEW i \in DOMAIN objs'[p].rows, NEW j \in DOMAIN objs'[q].rows,
             objs'[p].rows[i] = objs'[q].rows[j]
      PROVE  p = q /\ i = j
  <2>1. PICK k \in DOMAIN objs[p].rows : objs'[p].rows[i] = objs[p].rows[k] /\ k = IF p = o THEN at[i] ELSE i
    BY <1>6
  <2>2. PICK l \in DOMAIN objs[q].rows : objs'[q].rows[j] = objs[q].rows[l] /\ l = IF q = o THEN at[j] ELSE j
    BY <1>6
  <2>3. p = q /\ k = l
    <3>1. objs[p].rows[k] = objs[q].rows[l]
      BY <1>7, <2>1, <2>2
    <3> QED
      BY <3>1 DEF Shape
  <2> QED
    BY <1>0, <1>2, <1>4, <2>1, <2>2, <2>3
<1>8. Shape'
  BY <1>4, <1>5, <1>6, <1>7 DEF Shape
<1> QED
  BY <1>2, <1>4, <1>5, <1>8

(* The object INSERT adds to, and what it was before.                      *)
InsertObject(st) == IF st.table \in DOMAIN tables THEN tables[st.table] ELSE Len(objs) + 1
InsertOld(st)    == IF st.table \in DOMAIN tables THEN objs[tables[st.table]]
                    ELSE [cols |-> InsertColumns(st), rows |-> <<>>]

(* INSERT appends slices that are new to the rows of one object.           *)
Inserted(st, o, old, n) ==
  /\ n \in Nat /\ DOMAIN st.rows = 1 .. n
  /\ objs' \in Seq(Object) /\ DOMAIN objs' = DOMAIN objs \cup {o}
  /\ \A p \in DOMAIN objs \ {o} : objs'[p] = objs[p]
  /\ old \in Object
  /\ o \in DOMAIN objs => old = objs[o]
  /\ o \notin DOMAIN objs => old.rows = <<>>
  /\ objs'[o].cols = old.cols /\ objs'[o].rows = old.rows \o NewSlices(n)
  /\ cells' \in Seq(Seq(Texts)) /\ Len(cells') = Len(cells) + n
  /\ \A r \in DOMAIN cells : cells'[r] = cells[r]
  /\ \A i \in 1 .. n : cells'[Len(cells) + i] = FullRow(old.cols, st.rows[i]) /\ st.rows[i] \in Seq(Values)

(* INSERT's new slices come after all others, and no slice that exists     *)
(* changes (state_store.go:166-176).                                       *)
LEMMA InsertParts ==
  ASSUME Shape, NEW st \in Statements, Insert(st)
  PROVE  Inserted(st, InsertObject(st), InsertOld(st), Len(st.rows))
<1> DEFINE o == InsertObject(st)
           old == InsertOld(st)
           n == Len(st.rows)
<1>1. st.rows \in Seq(Seq(Values)) /\ n \in Nat /\ DOMAIN st.rows = 1 .. n /\ \A i \in 1 .. n : st.rows[i] \in Seq(Values)
  BY StatementsAssumption, LenProperties, ElementOfSeq
<1>2. /\ objs \in Seq(Object) /\ Len(objs) \in Nat /\ DOMAIN objs = 1 .. Len(objs)
      /\ cells \in Seq(Seq(Texts)) /\ Len(cells) \in Nat /\ DOMAIN cells = 1 .. Len(cells)
  BY Objects DEF Shape
<1>3. /\ old \in Object
      /\ o \in DOMAIN objs => old = objs[o]
      /\ o \notin DOMAIN objs => old.rows = <<>> /\ o = Len(objs) + 1
      /\ o \in DOMAIN objs <=> st.table \in DOMAIN tables
  <2>1. CASE st.table \in DOMAIN tables
    BY <2>1, Objects DEF InsertObject, InsertOld, Shape
  <2>2. CASE st.table \notin DOMAIN tables
    <3>1. <<>> \in Seq(Nat)
      OBVIOUS
    <3>2. o \notin DOMAIN objs
      BY <1>2, <2>2 DEF InsertObject
    <3> QED
      BY <2>2, <3>1, <3>2, InsertColumnsType, StatementsAssumption DEF InsertObject, InsertOld, Object
  <2> QED
    BY <2>1, <2>2
<1> DEFINE new == [old EXCEPT !.rows = @ \o NewSlices(n)]
<1>4. new \in Object /\ new.cols = old.cols /\ new.rows = old.rows \o NewSlices(n)
  <2>1. NewSlices(n) \in [1 .. n -> Nat]
    BY <1>1, <1>2 DEF NewSlices
  <2>2. NewSlices(n) \in Seq(Nat)
    <3> DEFINE slices == NewSlices(n)
    <3> HIDE DEF slices
    <3>1. slices \in [1 .. n -> Nat]
      BY <2>1 DEF slices
    <3>2. slices \in Seq(Nat)
      BY <1>1, <3>1, FunctionList
    <3> QED
      BY <3>2 DEF slices
  <2>3. old.rows \in Seq(Nat) /\ old.rows \o NewSlices(n) \in Seq(Nat)
    BY <1>3, <2>2, ConcatProperties DEF Object
  <2> QED
    BY <1>3, <2>3 DEF Object
<1>5. objs' = IF o \in DOMAIN objs THEN [objs EXCEPT ![o] = new] ELSE Append(objs, new)
  BY <1>3 DEF Insert, InsertObject, InsertOld
<1>6. cells' = cells \o [i \in DOMAIN st.rows |-> FullRow(old.cols, st.rows[i])]
  BY DEF Insert, InsertOld
<1> HIDE DEF new
<1>7. /\ objs' \in Seq(Object) /\ DOMAIN objs' = DOMAIN objs \cup {o} /\ objs'[o] = new
      /\ \A p \in DOMAIN objs \ {o} : objs'[p] = objs[p]
  <2>1. CASE o \in DOMAIN objs
    BY <1>2, <1>4, <1>5, <2>1, OneReplaced
  <2>2. CASE o \notin DOMAIN objs
    <3>1. /\ Append(objs, new) \in Seq(Object) /\ DOMAIN Append(objs, new) = 1 .. (Len(objs) + 1)
          /\ Append(objs, new)[Len(objs) + 1] = new
          /\ \A p \in 1 .. Len(objs) : Append(objs, new)[p] = objs[p]
      BY <1>2, <1>4, AppendProperties, LenProperties
    <3> QED
      BY <1>2, <1>3, <1>5, <2>2, <3>1
  <2> QED
    BY <2>1, <2>2
<1> DEFINE added == [i \in 1 .. n |-> FullRow(old.cols, st.rows[i])]
<1>8. added \in Seq(Seq(Texts)) /\ Len(added) = n
  <2>1. \A i \in 1 .. n : FullRow(old.cols, st.rows[i]) \in Seq(Values)
    BY <1>1, <1>3, FullRows DEF Object
  <2>2. \A q \in Seq(Values) : q \in Seq(Texts)
    BY DEF Texts
  <2>3. added \in [1 .. n -> Seq(Texts)]
    BY <2>1, <2>2
  <2> HIDE DEF added
  <2> QED
    BY <1>1, <2>3, FunctionList
<1>9. /\ cells' \in Seq(Seq(Texts)) /\ Len(cells') = Len(cells) + n
      /\ \A r \in DOMAIN cells : cells'[r] = cells[r]
      /\ \A i \in 1 .. n : cells'[Len(cells) + i] = added[i]
  <2>1. cells' = cells \o added
    BY <1>1, <1>6
  <2> HIDE DEF added
  <2>2. /\ cells \o added \in Seq(Seq(Texts)) /\ Len(cells \o added) = Len(cells) + n
        /\ \A i \in 1 .. (Len(cells) + n) : (cells \o added)[i] = IF i <= Len(cells) THEN cells[i] ELSE added[i - Len(cells)]
    <3>1. cells \in Seq(Seq(Texts)) /\ added \in Seq(Seq(Texts))
      BY <1>2, <1>8
    <3>2. /\ cells \o added \in Seq(Seq(Texts)) /\ Len(cells \o added) = Len(cells) + Len(added)
          /\ \A i \in 1 .. Len(cells) + Len(added) :
               (cells \o added)[i] = IF i <= Len(cells) THEN cells[i] ELSE added[i - Len(cells)]
      BY <3>1, ConcatProperties, Zenon
    <3> QED
      BY <1>8, <3>2, Zenon
  <2>3. \A i \in 1 .. n : cells'[Len(cells) + i] = added[i]
    <3>1. ASSUME NEW i \in 1 .. n PROVE cells'[Len(cells) + i] = added[i]
      <4>1. Len(cells) + i \in 1 .. (Len(cells) + n) /\ ~(Len(cells) + i <= Len(cells)) /\ Len(cells) + i - Len(cells) = i
        BY <1>1, <1>2
      <4> QED
        BY <2>1, <2>2, <4>1
    <3> QED
      BY <3>1
  <2>4. \A r \in DOMAIN cells : cells'[r] = cells[r]
    BY <1>1, <1>2, <2>1, <2>2
  <2> QED
    BY <2>1, <2>2, <2>3, <2>4
<1> HIDE DEF o, old, n
<1>10. Inserted(st, o, old, n)
  BY <1>1, <1>3, <1>4, <1>7, <1>9 DEF Inserted
<1> QED
  BY <1>10 DEF o, old, n

(* The rows of the object an INSERT adds to: those it had and n new ones.  *)
RowsAdded(o, old, n, l) ==
  /\ l \in Nat /\ DOMAIN old.rows = 1 .. l /\ DOMAIN objs'[o].rows = 1 .. (l + n)
  /\ \A i \in 1 .. (l + n) : objs'[o].rows[i] = IF i <= l THEN old.rows[i] ELSE Len(cells) + (i - l)

(* Appending to the slice of rows makes them so (state_store.go:165-191).  *)
LEMMA InsertedRows ==
  ASSUME Shape, NEW st, NEW o, NEW old, NEW n, Inserted(st, o, old, n), NEW l, l = Len(old.rows)
  PROVE  RowsAdded(o, old, n, l)
<1>1. n \in Nat /\ old.rows \in Seq(Nat) /\ objs'[o].rows = old.rows \o NewSlices(n) /\ Len(cells) \in Nat
  BY Objects DEF Inserted, Object
<1>2. NewSlices(n) \in [1 .. n -> Nat]
  BY <1>1 DEF NewSlices
<1>3. NewSlices(n) \in Seq(Nat) /\ Len(NewSlices(n)) = n
  BY <1>1, <1>2, FunctionList
<1> DEFINE both == old.rows \o NewSlices(n)
<1>4. /\ both \in Seq(Nat) /\ Len(both) = l + n
      /\ \A i \in 1 .. (l + n) : both[i] = IF i <= l THEN old.rows[i] ELSE NewSlices(n)[i - l]
  <2>1. /\ both \in Seq(Nat) /\ Len(both) = Len(old.rows) + Len(NewSlices(n))
        /\ \A i \in 1 .. Len(old.rows) + Len(NewSlices(n)) :
             both[i] = IF i <= Len(old.rows) THEN old.rows[i] ELSE NewSlices(n)[i - Len(old.rows)]
    BY <1>1, <1>3, ConcatProperties, Zenon
  <2> QED
    BY <1>3, <2>1, Zenon
<1>5. l \in Nat /\ DOMAIN old.rows = 1 .. l
  BY <1>1, LenProperties
<1>6. \A i \in 1 .. (l + n) : ~(i <= l) => i - l \in 1 .. n /\ NewSlices(n)[i - l] = Len(cells) + (i - l)
  <2> DEFINE c == Len(cells)
             new == NewSlices(n)
  <2>1. \A k \in 1 .. n : new[k] = c + k
    BY DEF NewSlices
  <2>2. n \in Nat /\ l \in Nat /\ c \in Nat
    BY <1>1, <1>5
  <2> HIDE DEF c, new
  <2>3. \A i \in 1 .. (l + n) : ~(i <= l) => i - l \in 1 .. n
    BY <2>2
  <2>4. \A i \in 1 .. (l + n) : ~(i <= l) => i - l \in 1 .. n /\ new[i - l] = c + (i - l)
    BY <2>1, <2>3
  <2> QED
    BY <2>4 DEF c, new
<1>7. objs'[o].rows = both
  BY <1>1
<1> HIDE DEF both
<1>8. DOMAIN both = 1 .. (l + n)
  BY <1>4, LenProperties
<1> QED
  BY <1>4, <1>5, <1>6, <1>7, <1>8 DEF RowsAdded

(* INSERT shares no row and leaves none short.                             *)
LEMMA InsertShape ==
  ASSUME Shape, Intact, Lock, NEW st \in Statements, Insert(st)
  PROVE  Shape' /\ Intact'
<1> DEFINE o == InsertObject(st)
           old == InsertOld(st)
           n == Len(st.rows)
           l == Len(old.rows)
<1>1. /\ n \in Nat /\ objs' \in Seq(Object) /\ DOMAIN objs' = DOMAIN objs \cup {o}
      /\ \A p \in DOMAIN objs \ {o} : objs'[p] = objs[p]
      /\ old \in Object
      /\ o \in DOMAIN objs => old = objs[o]
      /\ o \notin DOMAIN objs => old.rows = <<>>
      /\ objs'[o].cols = old.cols /\ objs'[o].rows = old.rows \o NewSlices(n)
      /\ cells' \in Seq(Seq(Texts)) /\ Len(cells') = Len(cells) + n
      /\ \A r \in DOMAIN cells : cells'[r] = cells[r]
      /\ \A i \in 1 .. n : cells'[Len(cells) + i] = FullRow(old.cols, st.rows[i]) /\ st.rows[i] \in Seq(Values)
  <2>1. Inserted(st, o, old, n)
    BY InsertParts
  <2> HIDE DEF o, old, n
  <2> QED
    BY <2>1 DEF Inserted
<1>2. /\ Len(objs) \in Nat /\ DOMAIN objs = 1 .. Len(objs) /\ Len(cells) \in Nat /\ DOMAIN cells = 1 .. Len(cells)
      /\ DOMAIN cells' = 1 .. (Len(cells) + n)
      /\ \A p \in DOMAIN objs : DOMAIN objs[p].rows = 1 .. Len(objs[p].rows)
      /\ old.cols \in Seq(Columns)
  BY <1>1, Objects, LenProperties DEF Object
<1>3. /\ l \in Nat /\ DOMAIN old.rows = 1 .. l /\ DOMAIN objs'[o].rows = 1 .. (l + n)
      /\ \A i \in 1 .. (l + n) : objs'[o].rows[i] = IF i <= l THEN old.rows[i] ELSE Len(cells) + (i - l)
  <2>1. Inserted(st, o, old, n)
    BY InsertParts
  <2> HIDE DEF o, old, n
  <2>2. PICK len : len = Len(old.rows)
    OBVIOUS
  <2>3. RowsAdded(o, old, n, len)
    BY <2>1, <2>2, InsertedRows
  <2> QED
    BY <2>2, <2>3 DEF RowsAdded
<1> HIDE DEF o, old, n, l
<1>33. l \in Nat /\ n \in Nat /\ Len(cells) \in Nat
  BY <1>1, <1>2, <1>3
<1>4. ASSUME NEW p \in DOMAIN objs', NEW i \in DOMAIN objs'[p].rows
      PROVE  \/ p \in DOMAIN objs /\ i \in DOMAIN objs[p].rows /\ objs'[p].rows[i] = objs[p].rows[i]
                /\ objs'[p].cols = objs[p].cols
             \/ p = o /\ i - l \in 1 .. n /\ objs'[p].rows[i] = Len(cells) + (i - l)
  <2>1. CASE p # o
    BY <1>1, <2>1
  <2>2. CASE p = o
    <3>1. i \in 1 .. (l + n)
      BY <1>3, <2>2
    <3>2. CASE i <= l
      <4>1. i \in DOMAIN old.rows /\ objs'[o].rows[i] = old.rows[i]
        BY <1>3, <3>1, <3>2
      <4>2. o \in DOMAIN objs
        BY <1>1, <4>1
      <4> QED
        BY <1>1, <2>2, <4>1, <4>2
    <3>3. CASE ~(i <= l)
      <4>1. i - l \in 1 .. n
        BY <1>33, <3>1, <3>3
      <4> QED
        BY <1>3, <2>2, <3>1, <3>3, <4>1
    <3> QED
      BY <3>2, <3>3
  <2> QED
    BY <2>1, <2>2
<1>5. \A k \in 1 .. n : /\ Len(cells) + k \in DOMAIN cells' /\ Len(cells) + k \notin DOMAIN cells
                        /\ cells'[Len(cells) + k] \in Seq(Values)
                        /\ Len(cells'[Len(cells) + k]) = Len(old.cols)
  <2>1. ASSUME NEW k \in 1 .. n
        PROVE  cells'[Len(cells) + k] \in Seq(Values) /\ Len(cells'[Len(cells) + k]) = Len(old.cols)
    BY <1>1, <1>2, FullRows
  <2>2. \A k \in 1 .. n : Len(cells) + k \in 1 .. (Len(cells) + n) /\ Len(cells) + k \notin 1 .. Len(cells)
    BY <1>33
  <2> QED
    BY <1>2, <2>1, <2>2, Zenon
<1>6. ASSUME NEW p \in DOMAIN objs', NEW i \in DOMAIN objs'[p].rows
      PROVE  objs'[p].rows[i] \in DOMAIN cells' /\ Len(cells'[objs'[p].rows[i]]) = Len(objs'[p].cols)
  <2>1. CASE p \in DOMAIN objs /\ i \in DOMAIN objs[p].rows /\ objs'[p].rows[i] = objs[p].rows[i]
             /\ objs'[p].cols = objs[p].cols
    <3>1. objs[p].rows[i] \in DOMAIN cells /\ Len(cells[objs[p].rows[i]]) = Len(objs[p].cols)
      BY <2>1 DEF Shape
    <3>2. DOMAIN cells \subseteq DOMAIN cells'
      BY <1>1, <1>2
    <3> QED
      BY <1>1, <2>1, <3>1, <3>2
  <2>2. CASE p = o /\ i - l \in 1 .. n /\ objs'[p].rows[i] = Len(cells) + (i - l)
    BY <1>1, <1>5, <2>2
  <2> QED
    BY <1>4, <2>1, <2>2
<1>7. ASSUME NEW p \in DOMAIN objs', NEW q \in DOMAIN objs', NEW i \in DOMAIN objs'[p].rows, NEW j \in DOMAIN objs'[q].rows,
             objs'[p].rows[i] = objs'[q].rows[j]
      PROVE  p = q /\ i = j
  <2> DEFINE Old(x, k) == x \in DOMAIN objs /\ k \in DOMAIN objs[x].rows /\ objs'[x].rows[k] = objs[x].rows[k]
             New(x, k) == x = o /\ k - l \in 1 .. n /\ objs'[x].rows[k] = Len(cells) + (k - l)
  <2>1. (Old(p, i) \/ New(p, i)) /\ (Old(q, j) \/ New(q, j))
    BY <1>4
  <2>2. \A x, k : Old(x, k) => objs'[x].rows[k] \in DOMAIN cells
    BY DEF Shape
  <2>3. \A x, k : New(x, k) => objs'[x].rows[k] \notin DOMAIN cells
    BY <1>5
  <2>4. CASE Old(p, i) /\ Old(q, j)
    <3>1. objs[p].rows[i] = objs[q].rows[j]
      BY <1>7, <2>4
    <3> QED
      BY <2>4, <3>1 DEF Shape
  <2>5. CASE New(p, i) /\ New(q, j)
    <3>1. p = q /\ Len(cells) + (i - l) = Len(cells) + (j - l) /\ i - l \in 1 .. n /\ j - l \in 1 .. n
      BY <1>7, <2>5
    <3>2. i \in 1 .. (l + n) /\ j \in 1 .. (l + n)
      <4>1. p = o /\ q = o
        BY <2>5
      <4> QED
        BY <1>3, <4>1
    <3> QED
      BY <1>33, <3>1, <3>2
  <2> QED
    BY <1>7, <2>1, <2>2, <2>3, <2>4, <2>5
<1>8. /\ tables' = [m \in DOMAIN tables \cup {st.table} |-> IF m = st.table THEN o ELSE tables[m]]
      /\ st.table \in TableNames
      /\ st.table \in DOMAIN tables => tables[st.table] = o
      /\ st.table \notin DOMAIN tables => o \notin DOMAIN objs
  <2>1. Point(st.table, o)
    BY DEF Insert, InsertObject, o
  <2> QED
    BY <1>2, <2>1, StatementsAssumption DEF Point, InsertObject, o
<1>9. /\ DOMAIN tables' \subseteq TableNames /\ \A m \in DOMAIN tables' : tables'[m] \in DOMAIN objs'
      /\ \A m, k \in DOMAIN tables' : tables'[m] = tables'[k] => m = k
  BY <1>1, <1>8 DEF Shape
<1>10. Shape'
  BY <1>1, <1>6, <1>7, <1>9 DEF Shape
<1>11. Intact'
  <2>1. update' = update
    BY DEF Insert
  <2>2. ASSUME NEW r \in DOMAIN cells', NEW k \in DOMAIN cells'[r], cells'[r][k] = Torn
        PROVE  <<r, k>> \in update.half
    <3>1. CASE r \in DOMAIN cells
      BY <1>1, <2>2, <3>1 DEF Intact
    <3>2. CASE r \notin DOMAIN cells
      <4>1. r - Len(cells) \in 1 .. n /\ Len(cells) + (r - Len(cells)) = r
        <5>1. \A a, b \in Nat : \A c \in 1 .. (a + b) : c \notin 1 .. a => c - a \in 1 .. b /\ a + (c - a) = c
          OBVIOUS
        <5>2. r \in 1 .. (Len(cells) + n) /\ r \notin 1 .. Len(cells)
          BY <1>2, <3>2
        <5> QED
          BY <1>33, <5>1, <5>2, Zenon
      <4>2. cells'[r] \in Seq(Values)
        BY <1>5, <4>1
      <4>3. cells'[r][k] \in Values
        BY <4>2, LenProperties, ElementOfSeq
      <4> QED
        BY <2>2, <4>3, TornAssumption
    <3> QED
      BY <3>1, <3>2
  <2> QED
    BY <2>1, <2>2 DEF Intact
<1> QED
  BY <1>10, <1>11

(* CREATE TABLE allocates an object without rows.                          *)
LEMMA CreateShape ==
  ASSUME Shape, NEW st \in Statements, Create(st)
  PROVE  /\ Shape'
         /\ DOMAIN objs' = DOMAIN objs \cup {Len(objs) + 1} /\ Len(objs) + 1 \notin DOMAIN objs
         /\ objs'[Len(objs) + 1] = [cols |-> st.cols, rows |-> <<>>]
         /\ \A p \in DOMAIN objs : objs'[p] = objs[p]
<1> DEFINE new == [cols |-> st.cols, rows |-> <<>>]
<1>1. /\ objs \in Seq(Object) /\ Len(objs) \in Nat /\ DOMAIN objs = 1 .. Len(objs)
      /\ objs' = Append(objs, new) /\ UNCHANGED cells
  BY Objects DEF Shape, Create
<1>2. new \in Object /\ new.rows = <<>>
  <2>1. <<>> \in Seq(Nat)
    OBVIOUS
  <2> QED
    BY <2>1, StatementsAssumption DEF Object
<1> HIDE DEF new
<1>3. /\ objs' \in Seq(Object) /\ DOMAIN objs' = 1 .. (Len(objs) + 1) /\ objs'[Len(objs) + 1] = new
      /\ \A p \in 1 .. Len(objs) : objs'[p] = objs[p]
  BY <1>1, <1>2, AppendProperties, LenProperties
<1>4. /\ DOMAIN objs' = DOMAIN objs \cup {Len(objs) + 1} /\ Len(objs) + 1 \notin DOMAIN objs
      /\ \A p \in DOMAIN objs : objs'[p] = objs[p]
  BY <1>1, <1>3
<1>5. \A p \in DOMAIN objs' : \A i \in DOMAIN objs'[p].rows : p \in DOMAIN objs /\ objs'[p] = objs[p]
  BY <1>2, <1>3, <1>4
<1>6. /\ tables' = [m \in DOMAIN tables \cup {st.table} |-> IF m = st.table THEN Len(objs) + 1 ELSE tables[m]]
      /\ st.table \in TableNames
  BY StatementsAssumption DEF Create, Point
<1>7. /\ DOMAIN tables' \subseteq TableNames /\ \A m \in DOMAIN tables' : tables'[m] \in DOMAIN objs'
      /\ \A m, k \in DOMAIN tables' : tables'[m] = tables'[k] => m = k
  BY <1>4, <1>6 DEF Shape
<1>8. /\ \A o \in DOMAIN objs' : \A i \in DOMAIN objs'[o].rows :
           objs'[o].rows[i] \in DOMAIN cells /\ Len(cells[objs'[o].rows[i]]) = Len(objs'[o].cols)
      /\ \A o, p \in DOMAIN objs' : \A i \in DOMAIN objs'[o].rows, j \in DOMAIN objs'[p].rows :
           objs'[o].rows[i] = objs'[p].rows[j] => o = p /\ i = j
  BY <1>5 DEF Shape
<1>9. Shape'
  BY <1>1, <1>3, <1>7, <1>8 DEF Shape
<1> QED
  BY <1>3, <1>4, <1>9 DEF new

(* DROP TABLE leaves the object behind.                                    *)
LEMMA DropShape ==
  ASSUME Shape, NEW st \in Statements, Drop(st)
  PROVE  Shape'
BY DEF Shape, Drop

(* TRUNCATE empties the table if there is one.                             *)
LEMMA TruncateShape ==
  ASSUME Shape, NEW st \in Statements, Truncate(st), st.table \in DOMAIN tables
  PROVE  /\ Shape'
         /\ DOMAIN objs' = DOMAIN objs /\ \A p \in DOMAIN objs : objs'[p].cols = objs[p].cols
         /\ objs'[tables[st.table]].rows = <<>>
         /\ \A p \in DOMAIN objs \ {tables[st.table]} : objs'[p] = objs[p]
<1> DEFINE o == tables[st.table]
<1>1. o \in DOMAIN objs /\ objs' = [objs EXCEPT ![o].rows = <<>>] /\ UNCHANGED <<tables, cells>>
  BY DEF Shape, Truncate
<1>2. <<>> \in Seq(Nat) /\ DOMAIN <<>> = {}
  OBVIOUS
<1> HIDE DEF o
<1>3. Chosen(<<>>, objs[o].rows)
  BY <1>2 DEF Chosen
<1> QED
  BY <1>1, <1>2, <1>3, FewerRows DEF o

(* What DELETE keeps of an object.                                         *)
Left(st) == DOMAIN objs[tables[st.table]].rows
            \ Hits(st.where, objs[tables[st.table]].cols, Contents(objs[tables[st.table]].rows))

(* DELETE keeps the slices of the rows its WHERE does not find, and touches*)
(* no other table (state_store.go:355-371).                                *)
LEMMA DeleteShape ==
  ASSUME Shape, NEW st \in Statements, Delete(st)
  PROVE  /\ Shape'
         /\ DOMAIN objs' = DOMAIN objs /\ \A p \in DOMAIN objs : objs'[p].cols = objs[p].cols
         /\ objs'[tables[st.table]].rows = Those(objs[tables[st.table]].rows, Left(st))
         /\ \A p \in DOMAIN objs \ {tables[st.table]} : objs'[p] = objs[p]
<1> DEFINE o == tables[st.table]
           rows == Those(objs[o].rows, Left(st))
           at == [k \in DOMAIN rows |-> Nth(Left(st), k)]
<1>1. o \in DOMAIN objs /\ UNCHANGED <<tables, cells>> /\ objs' = [objs EXCEPT ![o].rows = rows]
  BY DEF Shape, Delete, Left
<1>2. objs[o].rows \in Seq(Nat) /\ Left(st) \subseteq DOMAIN objs[o].rows
  BY <1>1, Objects DEF Left
<1>3. /\ rows \in Seq(Nat)
      /\ \A k \in DOMAIN rows : at[k] \in DOMAIN objs[o].rows /\ rows[k] = objs[o].rows[at[k]]
      /\ \A k, l \in DOMAIN rows : at[k] = at[l] => k = l
  BY <1>2, ThoseAreMembers
<1> HIDE DEF rows, at, o
<1>5. Chosen(rows, objs[o].rows)
  BY <1>3 DEF Chosen
<1>4. /\ Shape'
      /\ DOMAIN objs' = DOMAIN objs /\ \A p \in DOMAIN objs : objs'[p].cols = objs[p].cols
      /\ objs'[o].rows = rows
      /\ \A p \in DOMAIN objs \ {o} : objs'[p] = objs[p]
  BY <1>1, <1>3, <1>5, FewerRows
<1> QED
  BY <1>4 DEF o, rows

-----------------------------------------------------------------------------
(* UPDATE.                                                                 *)

(* The cells an UPDATE stores are cells of the table, in columns it sets;  *)
(* what it stores in them are texts.                                       *)
LEMMA TargetCells ==
  ASSUME Shape, NEW st \in Statements, NEW o \in DOMAIN objs, DOMAIN RowsOf(o) = DOMAIN objs[o].rows,
         NEW t \in Targets(o, st)
  PROVE  \E i \in DOMAIN objs[o].rows, k \in DOMAIN objs[o].cols :
           /\ t = <<objs[o].rows[i], k>>
           /\ Holds(st.where, objs[o].cols, RowsOf(o)[i])
           /\ objs[o].cols[k] \in DOMAIN st.set /\ ColIndex(objs[o].cols, objs[o].cols[k]) = k
           /\ objs[o].rows[i] \in DOMAIN cells /\ k \in DOMAIN cells[objs[o].rows[i]]
           /\ Stored(objs[o].cols, st.set)[k] = st.set[objs[o].cols[k]]
           /\ Stored(objs[o].cols, st.set)[k] \in Values
<1> DEFINE cols == objs[o].cols
           rows == objs[o].rows
<1>1. PICK i \in Hits(st.where, cols, RowsOf(o)), c \in DOMAIN st.set \cap ToSet(cols) : t = <<rows[i], ColIndex(cols, c)>>
  BY DEF Targets
<1>2. cols \in Seq(Columns) /\ i \in DOMAIN rows /\ Holds(st.where, cols, RowsOf(o)[i])
  BY <1>1, Objects DEF Hits
<1> DEFINE k == ColIndex(cols, c)
<1>3. k \in DOMAIN cols /\ cols[k] = c
  BY <1>1, <1>2, ColIndexFinds
<1>4. rows[i] \in DOMAIN cells /\ k \in DOMAIN cells[rows[i]]
  <2>1. rows[i] \in DOMAIN cells /\ Len(cells[rows[i]]) = Len(cols)
    BY <1>2 DEF Shape
  <2>2. DOMAIN cells[rows[i]] = 1 .. Len(cells[rows[i]]) /\ DOMAIN cols = 1 .. Len(cols)
    BY <2>1, Objects
  <2> QED
    BY <1>3, <2>1, <2>2
<1>5. \A d \in DOMAIN st.set : ColIndex(cols, d) = k => d = c
  <2>1. ASSUME NEW d \in DOMAIN st.set, ColIndex(cols, d) = k PROVE d = c
    <3>1. d \in ToSet(cols)
      BY <1>2, <1>3, <2>1, ColIndexFinds
    <3>2. cols[ColIndex(cols, d)] = d
      BY <1>2, <3>1, ColIndexFinds
    <3> QED
      BY <1>3, <2>1, <3>2
  <2> QED
    BY <2>1
<1>6. Stored(cols, st.set)[k] = st.set[c] /\ st.set[c] \in Values
  <2>1. k \in {ColIndex(cols, d) : d \in DOMAIN st.set}
    BY <1>1
  <2> DEFINE d0 == CHOOSE d \in DOMAIN st.set : ColIndex(cols, d) = k
  <2>2. d0 = c
    <3>1. d0 \in DOMAIN st.set /\ ColIndex(cols, d0) = k
      BY <1>1
    <3> QED
      BY <1>5, <3>1
  <2>3. Stored(cols, st.set)[k] = st.set[d0]
    BY <2>1 DEF Stored
  <2> QED
    BY <1>1, <2>2, <2>3, StatementsAssumption
<1> QED
  BY <1>1, <1>2, <1>3, <1>4, <1>6

(* One cell is stored.                                                     *)
Overwritten(r, k, v) ==
  /\ Shape' /\ DOMAIN cells' = DOMAIN cells
  /\ \A q \in DOMAIN cells : DOMAIN cells'[q] = DOMAIN cells[q]
  /\ \A q \in DOMAIN cells : \A j \in DOMAIN cells[q] : cells'[q][j] = IF q = r /\ j = k THEN v ELSE cells[q][j]

(* Storing one cell (state_store.go:319) changes no other cell and no      *)
(* slice's length.                                                         *)
LEMMA CellStored ==
  ASSUME Shape, UNCHANGED <<tables, objs>>, NEW r \in DOMAIN cells, NEW k \in DOMAIN cells[r], NEW v \in Texts,
         cells' = [cells EXCEPT ![r][k] = v]
  PROVE  Overwritten(r, k, v)
<1> DEFINE row == [cells[r] EXCEPT ![k] = v]
<1>1. cells \in Seq(Seq(Texts)) /\ cells[r] \in Seq(Texts) /\ cells' = [cells EXCEPT ![r] = row]
  BY Objects DEF Shape
<1>2. /\ row \in Seq(Texts) /\ Len(row) = Len(cells[r]) /\ DOMAIN row = DOMAIN cells[r]
      /\ row[k] = v /\ \A j \in DOMAIN cells[r] \ {k} : row[j] = cells[r][j]
  BY <1>1, OneReplaced
<1> HIDE DEF row
<1>3. /\ cells' \in Seq(Seq(Texts)) /\ DOMAIN cells' = DOMAIN cells
      /\ cells'[r] = row /\ \A q \in DOMAIN cells \ {r} : cells'[q] = cells[q]
  BY <1>1, <1>2, OneReplaced
<1>4. \A q \in DOMAIN cells : Len(cells'[q]) = Len(cells[q]) /\ DOMAIN cells'[q] = DOMAIN cells[q]
  BY <1>2, <1>3
<1>5. \A q \in DOMAIN cells : \A j \in DOMAIN cells[q] : cells'[q][j] = IF q = r /\ j = k THEN v ELSE cells[q][j]
  BY <1>2, <1>3
<1>6. Shape'
  BY <1>3, <1>4 DEF Shape
<1> QED
  BY <1>3, <1>4, <1>5, <1>6 DEF Overwritten

(* While nobody writes, a table shows the texts its slices hold.           *)
LEMMA UnlockedRows ==
  ASSUME Shape, Intact, Lock, Unlocked, NEW o \in DOMAIN objs
  PROVE  /\ RowsOf(o) = Contents(objs[o].rows)
         /\ RowsOf(o) \in Seq(Seq(Values)) /\ Len(RowsOf(o)) = Len(objs[o].rows)
         /\ \A i \in DOMAIN objs[o].rows : /\ RowsOf(o)[i] = cells[objs[o].rows[i]]
                                         /\ Len(RowsOf(o)[i]) = Len(objs[o].cols)
<1> DEFINE rows == objs[o].rows
           n == Len(rows)
<1>1. n \in Nat /\ DOMAIN rows = 1 .. n
  BY Objects
<1>2. RowsOf(o) = Contents(rows)
  BY DEF Unlocked, RowsOf
<1>3. \A i \in 1 .. n : rows[i] \in DOMAIN cells /\ Len(cells[rows[i]]) = Len(objs[o].cols)
  BY <1>1 DEF Shape
<1>4. ASSUME NEW r \in DOMAIN cells PROVE cells[r] \in Seq(Values)
  <2>1. cells[r] \in Seq(Texts) /\ Len(cells[r]) \in Nat /\ DOMAIN cells[r] = 1 .. Len(cells[r])
    BY Objects
  <2>2. update.half = {}
    BY DEF Lock, Unlocked, NoUpdate
  <2>3. \A k \in DOMAIN cells[r] : cells[r][k] \in Values
    <3>1. \A k \in DOMAIN cells[r] : cells[r][k] \in Texts /\ cells[r][k] # Torn
      BY <2>1, <2>2, ElementOfSeq DEF Intact
    <3> QED
      BY <3>1 DEF Texts
  <2>4. cells[r] \in [1 .. Len(cells[r]) -> Values]
    BY <2>1, <2>3
  <2> QED
    BY <2>1, <2>4, FunctionList
<1> DEFINE f == [i \in 1 .. n |-> cells[rows[i]]]
<1> HIDE DEF rows, n
<1>5. f \in [1 .. n -> Seq(Values)]
  BY <1>3, <1>4
<1>6. Contents(rows) = f
  BY <1>1 DEF Contents
<1>7. \A i \in 1 .. n : f[i] = cells[rows[i]]
  OBVIOUS
<1> HIDE DEF f
<1>8. f \in Seq(Seq(Values)) /\ Len(f) = n
  BY <1>1, <1>5, FunctionList
<1> QED
  BY <1>1, <1>2, <1>3, <1>6, <1>7, <1>8 DEF rows, n

(* UPDATE takes the lock: nothing is stored yet.                           *)
LEMMA BeginStep ==
  ASSUME Shape, Intact, Lock, NEW st \in Statements, BeginUpdate(st)
  PROVE  Shape' /\ Intact' /\ Lock'
<1> DEFINE o == tables[st.table]
<1>1. /\ st.op = "update" /\ st.table \in DOMAIN tables /\ o \in DOMAIN objs /\ Unlocked
      /\ UNCHANGED <<tables, objs, cells>>
      /\ update' = [on |-> TRUE, obj |-> o, before |-> RowsOf(o), todo |-> Targets(o, st), half |-> {},
                    set |-> Stored(objs[o].cols, st.set)]
  BY DEF BeginUpdate, Call, Shape
<1>2. /\ RowsOf(o) \in Seq(Seq(Values)) /\ Len(RowsOf(o)) = Len(objs[o].rows)
      /\ \A i \in DOMAIN objs[o].rows : /\ RowsOf(o)[i] = cells[objs[o].rows[i]]
                                      /\ Len(RowsOf(o)[i]) = Len(objs[o].cols)
      /\ DOMAIN objs[o].rows = 1 .. Len(objs[o].rows) /\ DOMAIN RowsOf(o) = 1 .. Len(RowsOf(o))
  BY <1>1, UnlockedRows, Objects, LenProperties
<1>3. Targets(update.obj, st)' = Targets(o, st)
  BY <1>1 DEF Targets, RowsOf
<1>4. Shape'
  BY <1>1 DEF Shape
<1>5. Intact'
  <2>1. update.half = {}
    BY <1>1 DEF Lock, Unlocked, NoUpdate
  <2> QED
    BY <1>1, <2>1 DEF Intact
<1>6. Progress(st)'
  <2> HIDE DEF o
  <2>1. update'.obj = o /\ update'.before = RowsOf(o) /\ update'.half = {} /\ update'.todo = Targets(o, st)
        /\ update'.set = Stored(objs[o].cols, st.set)
    BY <1>1
  <2>2. /\ (st.op = "update" /\ st.table \in DOMAIN tables /\ tables[st.table] = update.obj)'
        /\ (update.set = Stored(objs[update.obj].cols, st.set))'
        /\ (update.before \in Seq(Seq(Values)) /\ Len(update.before) = Len(objs[update.obj].rows))'
        /\ (\A i \in DOMAIN update.before : Len(update.before[i]) = Len(objs[update.obj].cols))'
    BY <1>1, <1>2, <2>1 DEF o
  <2>3. /\ (update.todo \cup update.half \subseteq Targets(update.obj, st))'
        /\ (update.todo \cap update.half = {} /\ \A t, u \in update.half : t = u)'
    BY <1>3, <2>1
  <2>4. (\A i \in DOMAIN update.before : \A k \in DOMAIN objs[update.obj].cols :
            cells[objs[update.obj].rows[i]][k] =
              CellNow(st, <<objs[update.obj].rows[i], k>>, update.before[i][k]))'
    BY <1>1, <1>2, <1>3, <2>1 DEF CellNow
  <2> QED
    BY <2>2, <2>3, <2>4 DEF Progress
<1>7. Lock'
  <2>1. DOMAIN update' = DOMAIN NoUpdate /\ update'.on = TRUE
    BY <1>1 DEF NoUpdate
  <2> QED
    BY <1>6, <2>1 DEF Lock
<1> QED
  BY <1>4, <1>5, <1>7

(* What an UPDATE that is going on knows.                                  *)
LEMMA Updating ==
  ASSUME Shape, Lock, update.todo # {} \/ update.half # {}
  PROVE  /\ update.on /\ update.obj \in DOMAIN objs /\ RowsOf(update.obj) = update.before
         /\ DOMAIN update.before = DOMAIN objs[update.obj].rows
         /\ \E st \in Statements : Progress(st)
<1>1. update.on
  BY DEF Lock, NoUpdate
<1>2. PICK st \in Statements : Progress(st)
  BY <1>1 DEF Lock
<1>3. update.obj \in DOMAIN objs /\ RowsOf(update.obj) = update.before
  BY <1>1, <1>2 DEF Progress, Shape, RowsOf
<1>4. DOMAIN update.before = DOMAIN objs[update.obj].rows
  BY <1>2, <1>3, Objects, LenProperties DEF Progress
<1> QED
  BY <1>1, <1>2, <1>3, <1>4

(* One cell of the UPDATE becomes v: it is torn and half written, or it is *)
(* written; no other cell changes and none changes its state.              *)
LEMMA StoreStep ==
  ASSUME Shape, Intact, Lock, NEW st \in Statements, Progress(st), update.on, update.obj \in DOMAIN objs,
         RowsOf(update.obj) = update.before, DOMAIN update.before = DOMAIN objs[update.obj].rows,
         NEW t \in Targets(update.obj, st), NEW v \in Texts,
         UNCHANGED <<tables, objs>>, cells' = [cells EXCEPT ![t[1]][t[2]] = v],
         update' = [update EXCEPT !.half = update'.half, !.todo = update'.todo],
         update'.half \subseteq {t}, update.half \subseteq {t}, update'.todo = update.todo \ {t},
         IF t \in update'.half THEN v = Torn ELSE v = Stored(objs[update.obj].cols, st.set)[t[2]]
  PROVE  Shape' /\ Intact' /\ Lock'
<1>0. PICK i0 \in DOMAIN objs[update.obj].rows, k0 \in DOMAIN objs[update.obj].cols :
         /\ t = <<objs[update.obj].rows[i0], k0>>
         /\ objs[update.obj].rows[i0] \in DOMAIN cells /\ k0 \in DOMAIN cells[objs[update.obj].rows[i0]]
         /\ Stored(objs[update.obj].cols, st.set)[k0] \in Values
  BY TargetCells
<1> DEFINE r == t[1]
           k == t[2]
<1>1. t = <<r, k>> /\ r \in DOMAIN cells /\ k \in DOMAIN cells[r]
  BY <1>0
<1>2. /\ Shape' /\ DOMAIN cells' = DOMAIN cells
      /\ \A q \in DOMAIN cells : DOMAIN cells'[q] = DOMAIN cells[q]
      /\ \A q \in DOMAIN cells : \A j \in DOMAIN cells[q] : cells'[q][j] = IF q = r /\ j = k THEN v ELSE cells[q][j]
  <2> HIDE DEF r, k
  <2>1. cells' = [cells EXCEPT ![r][k] = v]
    BY DEF r, k
  <2>2. Overwritten(r, k, v)
    BY <1>1, <2>1, CellStored
  <2> QED
    BY <2>2 DEF Overwritten
<1>3. /\ DOMAIN update' = DOMAIN NoUpdate /\ update'.on = TRUE /\ update'.obj = update.obj
      /\ update'.before = update.before /\ update'.set = update.set
  BY DEF Lock, NoUpdate
<1> HIDE DEF r, k
<1>4. Targets(update.obj, st)' = Targets(update.obj, st)
  BY <1>3 DEF Targets, RowsOf
<1>5. Intact'
  <2>1. ASSUME NEW q \in DOMAIN cells', NEW j \in DOMAIN cells'[q], cells'[q][j] = Torn
        PROVE  <<q, j>> \in update'.half
    <3>1. CASE q = r /\ j = k
      <4>1. v = Torn
        BY <1>1, <1>2, <2>1, <3>1
      <4>2. t \in update'.half
        BY <1>0, <4>1, TornAssumption DEF k
      <4> QED
        BY <1>1, <3>1, <4>2
    <3>2. CASE ~(q = r /\ j = k)
      <4>1. cells[q][j] = Torn
        BY <1>2, <2>1, <3>2
      <4>2. <<q, j>> = <<r, k>>
        BY <1>1, <1>2, <2>1, <4>1 DEF Intact
      <4> QED
        BY <3>2, <4>2
    <3> QED
      BY <3>1, <3>2
  <2> QED
    BY <2>1 DEF Intact
<1>6. Progress(st)'
  <2>1. /\ (st.op = "update" /\ st.table \in DOMAIN tables /\ tables[st.table] = update.obj)'
        /\ (update.set = Stored(objs[update.obj].cols, st.set))'
        /\ (update.before \in Seq(Seq(Values)) /\ Len(update.before) = Len(objs[update.obj].rows))'
        /\ (\A i \in DOMAIN update.before : Len(update.before[i]) = Len(objs[update.obj].cols))'
    BY <1>3 DEF Progress
  <2>2. /\ update.todo \cup update.half \subseteq Targets(update.obj, st)
        /\ update.set = Stored(objs[update.obj].cols, st.set)
    BY DEF Progress
  <2>3. /\ (update.todo \cup update.half \subseteq Targets(update.obj, st))'
        /\ (update.todo \cap update.half = {} /\ \A t1, t2 \in update.half : t1 = t2)'
    <3>1. update'.todo \cup update'.half \subseteq Targets(update.obj, st)
      BY <2>2
    <3>2. update'.todo \cap update'.half = {} /\ \A t1, t2 \in update'.half : t1 = t2
      OBVIOUS
    <3> QED
      BY <1>4, <3>1, <3>2
  <2>4. ASSUME NEW i \in DOMAIN update.before, NEW j \in DOMAIN objs[update.obj].cols, NEW mark,
               mark = <<objs[update.obj].rows[i], j>>
        PROVE  cells'[objs[update.obj].rows[i]][j] =
                 IF mark \in update'.half THEN Torn
                 ELSE IF mark \in update'.todo \/ mark \notin Targets(update.obj, st)
                      THEN update.before[i][j] ELSE update.set[j]
    <3> DEFINE q == objs[update.obj].rows[i]
    <3>1. q \in DOMAIN cells /\ j \in DOMAIN cells[q]
      <4>1. q \in DOMAIN cells /\ Len(cells[q]) = Len(objs[update.obj].cols)
        BY DEF Shape
      <4> QED
        BY <4>1, Objects
    <3>2. cells[q][j] = CellNow(st, mark, update.before[i][j])
      BY <2>4 DEF Progress
    <3>3. mark = t <=> (q = r /\ j = k)
      BY <1>1, <2>4
    <3> HIDE DEF q
    <3>4. CASE mark = t
      <4>1. cells'[q][j] = v
        BY <1>2, <3>1, <3>3, <3>4
      <4>2. mark \notin update'.todo /\ mark \in Targets(update.obj, st)
        BY <3>4
      <4>3. mark \notin update'.half => v = update.set[j]
        BY <2>2, <3>3, <3>4 DEF k
      <4>4. mark \in update'.half => v = Torn
        BY <3>4
      <4> QED
        BY <4>1, <4>2, <4>3, <4>4 DEF q
    <3>5. CASE mark # t
      <4>1. cells'[q][j] = cells[q][j]
        BY <1>2, <3>1, <3>3, <3>5
      <4>2. mark \notin update.half /\ mark \notin update'.half /\ (mark \in update'.todo <=> mark \in update.todo)
        BY <3>5
      <4>3. mark[2] = j
        BY <2>4
      <4> QED
        BY <3>2, <4>1, <4>2, <4>3 DEF q, CellNow
    <3> QED
      BY <3>4, <3>5
  <2>5. (\A i \in DOMAIN update.before : \A j \in DOMAIN objs[update.obj].cols :
            cells[objs[update.obj].rows[i]][j] =
              CellNow(st, <<objs[update.obj].rows[i], j>>, update.before[i][j]))'
    <3>1. \A i \in DOMAIN update.before : \A j \in DOMAIN objs[update.obj].cols :
            cells'[objs[update.obj].rows[i]][j] =
              IF <<objs[update.obj].rows[i], j>> \in update'.half THEN Torn
              ELSE IF <<objs[update.obj].rows[i], j>> \in update'.todo
                      \/ <<objs[update.obj].rows[i], j>> \notin Targets(update.obj, st)
                   THEN update.before[i][j] ELSE update.set[j]
      BY <2>4
    <3> QED
      BY <1>3, <1>4, <3>1 DEF CellNow
  <2> QED
    BY <2>1, <2>3, <2>5 DEF Progress
<1>7. Lock'
  BY <1>3, <1>6 DEF Lock
<1> QED
  BY <1>2, <1>5, <1>7

(* The first word of a cell.                                               *)
LEMMA HalfStep ==
  ASSUME Shape, Intact, Lock, StoreHalf
  PROVE  Shape' /\ Intact' /\ Lock'
<1>1. PICK t \in update.todo : /\ cells' = [cells EXCEPT ![t[1]][t[2]] = Torn]
                              /\ update' = [update EXCEPT !.half = {t}, !.todo = @ \ {t}]
  BY DEF StoreHalf
<1>2. update.half = {} /\ UNCHANGED <<tables, objs>>
  BY DEF StoreHalf
<1>3. /\ update.on /\ update.obj \in DOMAIN objs /\ RowsOf(update.obj) = update.before
      /\ DOMAIN update.before = DOMAIN objs[update.obj].rows
      /\ \E st \in Statements : Progress(st)
  BY <1>1, Updating
<1>4. PICK st \in Statements : Progress(st)
  BY <1>3
<1>5. t \in Targets(update.obj, st)
  BY <1>4 DEF Progress
<1>6. /\ update'.half = {t} /\ update'.todo = update.todo \ {t}
      /\ update' = [update EXCEPT !.half = update'.half, !.todo = update'.todo]
  BY <1>1 DEF Lock, NoUpdate
<1>7. Torn \in Texts /\ update'.half \subseteq {t} /\ update.half \subseteq {t} /\ t \in update'.half
  BY <1>2, <1>6 DEF Texts
<1> QED
  BY <1>1, <1>2, <1>3, <1>4, <1>5, <1>6, <1>7, StoreStep

(* The second word.                                                        *)
LEMMA RestStep ==
  ASSUME Shape, Intact, Lock, StoreRest
  PROVE  Shape' /\ Intact' /\ Lock'
<1>1. PICK t \in update.half : cells' = [cells EXCEPT ![t[1]][t[2]] = update.set[t[2]]]
  BY DEF StoreRest
<1>2. update' = [update EXCEPT !.half = {}] /\ UNCHANGED <<tables, objs>>
  BY DEF StoreRest
<1>3. /\ update.on /\ update.obj \in DOMAIN objs /\ RowsOf(update.obj) = update.before
      /\ DOMAIN update.before = DOMAIN objs[update.obj].rows
      /\ \E st \in Statements : Progress(st)
  BY <1>1, Updating
<1>4. PICK st \in Statements : Progress(st)
  BY <1>3
<1>5. /\ t \in Targets(update.obj, st) /\ update.half \subseteq {t} /\ t \notin update.todo
      /\ update.set = Stored(objs[update.obj].cols, st.set)
  BY <1>4 DEF Progress
<1>6. /\ update'.half = {} /\ update'.todo = update.todo
      /\ update' = [update EXCEPT !.half = update'.half, !.todo = update'.todo]
  BY <1>2 DEF Lock, NoUpdate
<1>7. /\ update.set[t[2]] \in Texts /\ update'.half \subseteq {t} /\ t \notin update'.half
      /\ update'.todo = update.todo \ {t}
  <2>1. \E k \in DOMAIN objs[update.obj].cols : t[2] = k /\ Stored(objs[update.obj].cols, st.set)[k] \in Values
    BY <1>3, <1>5, TargetCells
  <2> QED
    BY <1>5, <1>6, <2>1 DEF Texts
<1> DEFINE v == update.set[t[2]]
<1>8. v = Stored(objs[update.obj].cols, st.set)[t[2]] /\ v \in Texts /\ cells' = [cells EXCEPT ![t[1]][t[2]] = v]
  BY <1>1, <1>5, <1>7
<1> HIDE DEF v
<1> QED
  BY <1>2, <1>3, <1>4, <1>5, <1>6, <1>7, <1>8, StoreStep

(* UPDATE gives the lock back.                                             *)
LEMMA EndStep ==
  ASSUME Shape, Intact, Lock, EndUpdate
  PROVE  Shape' /\ Intact' /\ Lock'
BY DEF Shape, Intact, Lock, EndUpdate, NoUpdate

-----------------------------------------------------------------------------
(* What a step does to the contents of the objects.                        *)

(* No row of the object is written, and no UPDATE of it begins or ends.    *)
LEMMA Untouched ==
  ASSUME NEW p \in DOMAIN objs, objs'[p] = objs[p],
         \A i \in DOMAIN objs[p].rows : cells'[objs[p].rows[i]] = cells[objs[p].rows[i]],
         ~(update.on /\ update.obj = p), ~(update'.on /\ update'.obj = p)
  PROVE  NextTable(p) = Table(p)
<1>1. NextRows(p) = [i \in DOMAIN objs[p].rows |-> cells'[objs[p].rows[i]]]
  BY DEF NextRows
<1>2. RowsOf(p) = [i \in DOMAIN objs[p].rows |-> cells[objs[p].rows[i]]]
  BY DEF RowsOf, Contents
<1>3. NextRows(p) = RowsOf(p)
  BY <1>1, <1>2
<1> QED
  BY <1>3 DEF NextTable, Table

(* A step changes at most the contents of o, which a table points to, and  *)
(* makes no table point to another old object.                             *)
Tame(o) ==
  /\ DOMAIN objs \subseteq DOMAIN objs' /\ \A p \in DOMAIN objs \ {o} : NextTable(p) = Table(p)
  /\ o \in DOMAIN objs => \E n \in DOMAIN tables' : tables'[n] = o
  /\ \A n \in DOMAIN tables' : tables'[n] \in DOMAIN objs => n \in DOMAIN tables /\ tables[n] = tables'[n]

(* Then a session that does not move sees what it has seen.                *)
LEMMA TameSees ==
  ASSUME Seeing, Watch, NEW o, Tame(o), NEW s \in Sessions, call'[s] = call[s]
  PROVE  Sees(s)'
BY SeesOn DEF Tame

(* ... and Tables has a new table n.                                       *)
LEMMA TamePut ==
  ASSUME Shape, NEW n, NEW o, Tame(o), DOMAIN tables' = DOMAIN tables \cup {n}, tables'[n] = o,
         \A m \in DOMAIN tables \ {n} : tables'[m] = tables[m] /\ tables[m] # o
  PROVE  Abstract!Put(n, NextTable(o))
<1>1. \A m \in DOMAIN tables \ {n} : NextTable(tables'[m]) = Table(tables[m])
  BY DEF Tame, Shape
<1>2. Db' = [m \in DOMAIN tables' |-> NextTable(tables'[m])] /\ Db = [m \in DOMAIN tables |-> Table(tables[m])]
  BY NextDb DEF Db
<1>3. DOMAIN Db = DOMAIN tables /\ \A m \in DOMAIN tables : Db[m] = Table(tables[m])
  BY <1>2
<1>4. Db' = [m \in DOMAIN Db \cup {n} |-> IF m = n THEN NextTable(o) ELSE Db[m]]
  BY <1>1, <1>2, <1>3
<1> QED
  BY <1>4 DEF Abstract!Put

(* ... or what it had, if no content changes.                              *)
LEMMA TameStutter ==
  ASSUME Shape, Tame(0), tables' = tables
  PROVE  Db' = Db
<1>1. 0 \notin DOMAIN objs
  BY Objects
<1>2. \A m \in DOMAIN tables : NextTable(tables'[m]) = Table(tables[m])
  BY <1>1 DEF Tame, Shape
<1> QED
  BY <1>2, NextDb DEF Db

(* A statement that stores no cell leaves the lock alone.                  *)
LEMMA LockKept ==
  ASSUME Lock, Unlocked, UNCHANGED update
  PROVE  Lock' /\ ~update.on /\ ~update'.on
BY DEF Lock, Unlocked

(* A filter commutes with reading the rows.                                *)
LEMMA ThoseContents ==
  ASSUME NEW S, NEW slices \in Seq(S), NEW I, I \subseteq DOMAIN slices
  PROVE  Contents(Those(slices, I)) = Those(Contents(slices), I)
<1>1. /\ DOMAIN Those(slices, I) = 1 .. Cardinality(I)
      /\ \A k \in 1 .. Cardinality(I) : Nth(I, k) \in DOMAIN slices /\ Those(slices, I)[k] = slices[Nth(I, k)]
  BY ThoseAreMembers
<1>2. \A k \in 1 .. Cardinality(I) : Contents(slices)[Nth(I, k)] = cells[Those(slices, I)[k]]
  BY <1>1 DEF Contents
<1>3. Contents(Those(slices, I)) = [k \in 1 .. Cardinality(I) |-> cells[Those(slices, I)[k]]]
  BY <1>1 DEF Contents
<1>4. Those(Contents(slices), I) = [k \in 1 .. Cardinality(I) |-> Contents(slices)[Nth(I, k)]]
  BY DEF Those
<1> QED
  BY <1>2, <1>3, <1>4

(* Tables uses the operators of Statement.                                 *)
LEMMA SameOperators ==
  ASSUME NEW cols, NEW row, NEW rows, NEW where, NEW set, NEW list, NEW I, NEW st
  PROVE  /\ Abstract!Those(list, I) = Those(list, I)
         /\ Abstract!Hits(where, cols, rows) = Hits(where, cols, rows)
         /\ Abstract!Holds(where, cols, row) = Holds(where, cols, row)
         /\ Abstract!Assigned(cols, set, row) = Assigned(cols, set, row)
         /\ Abstract!FullRow(cols, row) = FullRow(cols, row)
         /\ Abstract!InsertColumns(st) = InsertColumns(st)
<1>1. \A c : Abstract!ColIndex(cols, c) = ColIndex(cols, c)
  BY DEF Abstract!ColIndex, ColIndex, Abstract!ToSet, ToSet
<1>2. Abstract!Those(list, I) = Those(list, I)
  BY DEF Abstract!Those, Those, Abstract!Nth, Nth, Abstract!Cardinality, Cardinality
<1>3. \A r : Abstract!Holds(where, cols, r) = Holds(where, cols, r)
  BY <1>1 DEF Abstract!Holds, Holds
<1>4. Abstract!Hits(where, cols, rows) = Hits(where, cols, rows)
  BY <1>3 DEF Abstract!Hits, Hits
<1>5. Abstract!Assigned(cols, set, row) = Assigned(cols, set, row)
  BY <1>1 DEF Abstract!Assigned, Assigned
<1>6. Abstract!FullRow(cols, row) = FullRow(cols, row)
  BY DEF Abstract!FullRow, FullRow
<1>7. Abstract!InsertColumns(st) = InsertColumns(st)
  BY DEF Abstract!InsertColumns, InsertColumns
<1> QED
  BY <1>2, <1>3, <1>4, <1>5, <1>6, <1>7

(* CREATE TABLE.                                                           *)
LEMMA CreateEffect ==
  ASSUME Shape, Lock, NEW st \in Statements, Create(st)
  PROVE  Lock' /\ Tame(Len(objs) + 1) /\ Abstract!Create(st)
<1> DEFINE o == Len(objs) + 1
<1>1. /\ Shape' /\ DOMAIN objs' = DOMAIN objs \cup {o} /\ o \notin DOMAIN objs
      /\ objs'[o] = [cols |-> st.cols, rows |-> <<>>] /\ \A p \in DOMAIN objs : objs'[p] = objs[p]
  BY CreateShape
<1>2. /\ st.op = "create" /\ Unlocked /\ UNCHANGED <<cells, update>>
      /\ tables' = [m \in DOMAIN tables \cup {st.table} |-> IF m = st.table THEN o ELSE tables[m]]
  BY DEF Create, Call, Point
<1> HIDE DEF o
<1>3. Lock' /\ ~update.on /\ ~update'.on
  BY <1>2, LockKept
<1>4. \A p \in DOMAIN objs : NextTable(p) = Table(p)
  BY <1>1, <1>2, <1>3, Untouched
<1>5. Tame(o)
  BY <1>1, <1>2, <1>4 DEF Tame
<1>6. NextTable(o) = [cols |-> st.cols, rows |-> <<>>]
  <2>1. NextRows(o) = [i \in {} |-> cells'[objs'[o].rows[i]]]
    BY <1>1, <1>3 DEF NextRows
  <2>2. NextRows(o) = <<>>
    BY <2>1
  <2> QED
    BY <1>1, <2>2 DEF NextTable
<1>7. Abstract!Put(st.table, NextTable(o))
  BY <1>1, <1>2, <1>5, TamePut DEF Shape
<1> QED
  BY <1>2, <1>3, <1>5, <1>6, <1>7 DEF Abstract!Create, o

(* DROP TABLE.                                                             *)
LEMMA DropEffect ==
  ASSUME Shape, Lock, NEW st \in Statements, Drop(st)
  PROVE  Lock' /\ Tame(0) /\ Abstract!Drop(st)
<1>1. /\ st.op = "drop" /\ Unlocked /\ UNCHANGED <<objs, cells, update>>
      /\ tables' = [m \in DOMAIN tables \ {st.table} |-> tables[m]]
  BY DEF Drop, Call
<1>2. Lock' /\ ~update.on /\ ~update'.on
  BY <1>1, LockKept
<1>3. \A p \in DOMAIN objs : NextTable(p) = Table(p)
  BY <1>1, <1>2, Untouched
<1>4. Tame(0)
  BY <1>1, <1>3, Objects DEF Tame
<1>5. Db' = [m \in DOMAIN tables' |-> NextTable(tables'[m])] /\ Db = [m \in DOMAIN tables |-> Table(tables[m])]
  BY NextDb DEF Db
<1>6. Db' = [m \in DOMAIN Db \ {st.table} |-> Db[m]]
  BY <1>1, <1>3, <1>5 DEF Shape
<1> QED
  BY <1>1, <1>2, <1>4, <1>6 DEF Abstract!Drop

(* TRUNCATE.                                                               *)
LEMMA TruncateEffect ==
  ASSUME Shape, Lock, NEW st \in Statements, Truncate(st), st.table \in DOMAIN tables
  PROVE  Lock' /\ Tame(tables[st.table]) /\ Abstract!Truncate(st)
<1> DEFINE o == tables[st.table]
<1>1. /\ Shape' /\ DOMAIN objs' = DOMAIN objs /\ \A p \in DOMAIN objs : objs'[p].cols = objs[p].cols
      /\ objs'[o].rows = <<>> /\ \A p \in DOMAIN objs \ {o} : objs'[p] = objs[p]
  BY TruncateShape
<1>2. st.op = "truncate" /\ Unlocked /\ UNCHANGED <<tables, cells, update>> /\ o \in DOMAIN objs
  BY DEF Truncate, Call, Shape
<1>3. tables'[st.table] = o /\ \A m \in DOMAIN tables \ {st.table} : tables[m] # o
  BY <1>2 DEF Shape
<1>8. Table(o) = [cols |-> objs[o].cols, rows |-> RowsOf(o)] /\ Db[st.table] = Table(o) /\ DOMAIN Db = DOMAIN tables
  BY DEF Table, Db
<1> HIDE DEF o
<1>4. Lock' /\ ~update.on /\ ~update'.on
  BY <1>2, LockKept
<1>5. Tame(o)
  <2>1. \A p \in DOMAIN objs \ {o} : NextTable(p) = Table(p)
    BY <1>1, <1>2, <1>4, Untouched
  <2> QED
    BY <1>1, <1>2, <1>3, <2>1 DEF Tame
<1>6. NextTable(o) = [cols |-> objs[o].cols, rows |-> <<>>]
  <2>1. NextRows(o) = [i \in {} |-> cells'[objs'[o].rows[i]]]
    BY <1>1, <1>4 DEF NextRows
  <2>2. NextRows(o) = <<>>
    BY <2>1
  <2> QED
    BY <1>1, <1>2, <2>2 DEF NextTable
<1>7. Abstract!Put(st.table, NextTable(o))
  BY <1>2, <1>3, <1>5, TamePut
<1>9. NextTable(o) = [Db[st.table] EXCEPT !.rows = <<>>]
  BY <1>6, <1>8
<1> QED
  BY <1>2, <1>4, <1>5, <1>7, <1>8, <1>9 DEF Abstract!Truncate, o

(* DELETE.                                                                 *)
LEMMA DeleteEffect ==
  ASSUME Shape, Lock, NEW st \in Statements, Delete(st)
  PROVE  Lock' /\ Tame(tables[st.table]) /\ Abstract!Delete(st)
<1> DEFINE o == tables[st.table]
           rows == objs[o].rows
<1>1. /\ Shape' /\ DOMAIN objs' = DOMAIN objs /\ \A p \in DOMAIN objs : objs'[p].cols = objs[p].cols
      /\ objs'[o].rows = Those(rows, Left(st)) /\ \A p \in DOMAIN objs \ {o} : objs'[p] = objs[p]
  BY DeleteShape
<1>2. /\ st.op = "delete" /\ Unlocked /\ st.table \in DOMAIN tables
      /\ UNCHANGED <<tables, cells, update>> /\ o \in DOMAIN objs
  BY DEF Delete, Call, Shape
<1>3. tables'[st.table] = o /\ \A m \in DOMAIN tables \ {st.table} : tables[m] # o
  BY <1>2 DEF Shape
<1>8. Table(o) = [cols |-> objs[o].cols, rows |-> RowsOf(o)] /\ Db[st.table] = Table(o) /\ DOMAIN Db = DOMAIN tables
  BY <1>2 DEF Table, Db
<1>10. Left(st) = DOMAIN rows \ Hits(st.where, objs[o].cols, Contents(rows)) /\ rows \in Seq(Nat)
  BY <1>2, Objects DEF Left
<1> HIDE DEF o
<1>4. Lock' /\ ~update.on /\ ~update'.on
  BY <1>2, LockKept
<1>5. Tame(o)
  <2>1. \A p \in DOMAIN objs \ {o} : NextTable(p) = Table(p)
    BY <1>1, <1>2, <1>4, Untouched
  <2> QED
    BY <1>1, <1>2, <1>3, <2>1 DEF Tame
<1>6. NextRows(o) = Those(RowsOf(o), DOMAIN RowsOf(o) \ Hits(st.where, objs[o].cols, RowsOf(o)))
  <2>1. RowsOf(o) = Contents(rows) /\ DOMAIN Contents(rows) = DOMAIN rows
    BY <1>4 DEF RowsOf, Contents
  <2>2. NextRows(o) = Contents(Those(rows, Left(st)))
    BY <1>1, <1>2, <1>4 DEF NextRows, Contents
  <2>3. Contents(Those(rows, Left(st))) = Those(Contents(rows), Left(st))
    <3> HIDE DEF rows
    <3> QED
      BY <1>10, ThoseContents
  <2> QED
    BY <1>10, <2>1, <2>2, <2>3
<1>7. Abstract!Put(st.table, NextTable(o))
  BY <1>2, <1>3, <1>5, TamePut
<1>9. NextTable(o) = [Db[st.table] EXCEPT !.rows = Those(@, DOMAIN @ \ Hits(st.where, Db[st.table].cols, @))]
  BY <1>1, <1>2, <1>6, <1>8 DEF NextTable
<1> QED
  BY <1>2, <1>4, <1>5, <1>7, <1>8, <1>9, SameOperators DEF Abstract!Delete, o

(* INSERT.                                                                 *)
LEMMA InsertEffect ==
  ASSUME Shape, Lock, NEW st \in Statements, Insert(st)
  PROVE  Lock' /\ Tame(InsertObject(st)) /\ Abstract!Insert(st)
<1> DEFINE o == InsertObject(st)
           old == InsertOld(st)
           n == Len(st.rows)
           l == Len(old.rows)
           known == st.table \in DOMAIN tables
           more == [i \in DOMAIN st.rows |-> FullRow(old.cols, st.rows[i])]
           was == IF known THEN RowsOf(o) ELSE <<>>
<1>1. Inserted(st, o, old, n)
  BY InsertParts
<1>2. /\ st.op = "insert" /\ Unlocked /\ UNCHANGED update
      /\ tables' = [m \in DOMAIN tables \cup {st.table} |-> IF m = st.table THEN o ELSE tables[m]]
  BY DEF Insert, Call, Point, InsertObject
<1>3. known <=> o \in DOMAIN objs
  BY Objects DEF InsertObject, Shape
<1>4. \A m \in DOMAIN tables \ {st.table} : tables[m] # o
  BY <1>3 DEF InsertObject, Shape
<1>5. DOMAIN Db = DOMAIN tables /\ (known => Db[st.table] = Table(o))
  BY DEF Db, InsertObject
<1>6. old = IF known THEN objs[o] ELSE [cols |-> InsertColumns(st), rows |-> <<>>]
  BY DEF InsertOld, InsertObject
<1> HIDE DEF o, old, n
<1>7. /\ n \in Nat /\ DOMAIN st.rows = 1 .. n
      /\ objs' \in Seq(Object) /\ DOMAIN objs' = DOMAIN objs \cup {o}
      /\ \A p \in DOMAIN objs \ {o} : objs'[p] = objs[p]
      /\ old \in Object
      /\ objs'[o].cols = old.cols
      /\ cells \in Seq(Seq(Texts)) /\ cells' \in Seq(Seq(Texts))
      /\ \A r \in DOMAIN cells : cells'[r] = cells[r]
      /\ \A i \in 1 .. n : cells'[Len(cells) + i] = FullRow(old.cols, st.rows[i]) /\ st.rows[i] \in Seq(Values)
  BY <1>1 DEF Inserted, Shape
<1>8. /\ l \in Nat /\ DOMAIN old.rows = 1 .. l /\ DOMAIN objs'[o].rows = 1 .. (l + n)
      /\ \A i \in 1 .. (l + n) : objs'[o].rows[i] = IF i <= l THEN old.rows[i] ELSE Len(cells) + (i - l)
  <2>1. PICK len : len = Len(old.rows)
    OBVIOUS
  <2>2. RowsAdded(o, old, n, len)
    BY <1>1, <2>1, InsertedRows
  <2> QED
    BY <2>1, <2>2 DEF RowsAdded
<1>9. Lock' /\ ~update.on /\ ~update'.on
  BY <1>2, LockKept
<1>10. \A p \in DOMAIN objs : \A i \in DOMAIN objs[p].rows : cells'[objs[p].rows[i]] = cells[objs[p].rows[i]]
  BY <1>7 DEF Shape
<1>11. Tame(o)
  <2>1. \A p \in DOMAIN objs \ {o} : NextTable(p) = Table(p)
    BY <1>7, <1>9, <1>10, Untouched
  <2>2. tables'[st.table] = o /\ st.table \in DOMAIN tables'
    BY <1>2
  <2>3. ASSUME NEW m \in DOMAIN tables', tables'[m] \in DOMAIN objs PROVE m \in DOMAIN tables /\ tables[m] = tables'[m]
    <3>1. CASE m = st.table
      BY <1>2, <1>3, <2>3, <3>1 DEF InsertObject, o
    <3>2. CASE m # st.table
      BY <1>2, <3>2
    <3> QED
      BY <3>1, <3>2
  <2> QED
    BY <1>7, <2>1, <2>2, <2>3 DEF Tame
<1>12. was \in Seq(Seq(Texts)) /\ Len(was) = l /\ \A i \in 1 .. l : was[i] = cells'[old.rows[i]]
  <2>1. CASE known
    <3>1. o \in DOMAIN objs /\ old = objs[o] /\ was = RowsOf(o) /\ old.rows \in Seq(Nat)
      BY <1>3, <1>6, <2>1, Objects
    <3>2. RowsOf(o) = [i \in 1 .. l |-> cells[old.rows[i]]]
      BY <1>8, <1>9, <3>1 DEF RowsOf, Contents
    <3>3. RowsOf(o) \in Seq(Seq(Texts))
      BY <3>1, TableIsTable DEF Table
    <3>4. Len(RowsOf(o)) = l
      <4> HIDE DEF l
      <4> QED
        BY <1>8, <3>2, <3>3, LenProperties
    <3>5. \A i \in 1 .. l : cells'[old.rows[i]] = cells[old.rows[i]]
      BY <1>8, <1>10, <3>1
    <3> QED
      BY <3>1, <3>2, <3>3, <3>4, <3>5
  <2>2. CASE ~known
    <3>1. <<>> \in Seq(Seq(Texts)) /\ Len(<<>>) = 0
      OBVIOUS
    <3>2. was = <<>> /\ l = 0
      BY <1>6, <2>2, <3>1
    <3>3. \A i \in 1 .. l : FALSE
      BY <3>2
    <3> HIDE DEF was, l
    <3> QED
      BY <3>1, <3>2, <3>3
  <2> QED
    BY <2>1, <2>2
<1>13. more \in Seq(Seq(Texts)) /\ Len(more) = n /\ \A i \in 1 .. n : more[i] = cells'[Len(cells) + i]
  <2>1. more = [i \in 1 .. n |-> FullRow(old.cols, st.rows[i])]
    BY <1>7
  <2>2. \A i \in 1 .. n : FullRow(old.cols, st.rows[i]) \in Seq(Values)
    BY <1>7, FullRows DEF Object
  <2>3. \A i \in 1 .. n : FullRow(old.cols, st.rows[i]) \in Seq(Texts)
    BY <2>2 DEF Texts
  <2>4. more \in [1 .. n -> Seq(Texts)]
    BY <2>1, <2>3
  <2>5. more \in Seq(Seq(Texts)) /\ Len(more) = n
    <3> HIDE DEF more
    <3> QED
      BY <1>7, <2>4, FunctionList
  <2> QED
    BY <1>7, <2>1, <2>5
<1> HIDE DEF was, more, l
<1>14. NextRows(o) = was \o more
  <2> DEFINE c == Len(cells)
             both == was \o more
             next == NextRows(o)
  <2>1. /\ both \in Seq(Seq(Texts)) /\ Len(both) = l + n
        /\ \A i \in 1 .. (l + n) : both[i] = IF i <= l THEN was[i] ELSE more[i - l]
    <3>1. /\ both \in Seq(Seq(Texts)) /\ Len(both) = Len(was) + Len(more)
          /\ \A i \in 1 .. Len(was) + Len(more) : both[i] = IF i <= Len(was) THEN was[i] ELSE more[i - Len(was)]
      BY <1>12, <1>13, ConcatProperties, Zenon
    <3> QED
      BY <1>12, <1>13, <3>1, Zenon
  <2>2. next = [i \in 1 .. (l + n) |-> cells'[objs'[o].rows[i]]]
    BY <1>8, <1>9 DEF NextRows
  <2>3. \A i \in 1 .. (l + n) : next[i] = cells'[IF i <= l THEN old.rows[i] ELSE c + (i - l)]
    BY <1>8, <2>2
  <2> HIDE DEF both, c, next
  <2>4. DOMAIN both = 1 .. (l + n) /\ DOMAIN next = 1 .. (l + n)
    BY <2>1, <2>2, LenProperties
  <2>5. ASSUME NEW i \in 1 .. (l + n) PROVE next[i] = both[i]
    <3>1. CASE i <= l
      <4>1. i \in 1 .. l
        BY <1>7, <1>8, <3>1
      <4> QED
        BY <1>12, <2>1, <2>3, <3>1, <4>1
    <3>2. CASE ~(i <= l)
      <4>1. i - l \in 1 .. n
        BY <1>7, <1>8, <3>2
      <4>2. more[i - l] = cells'[c + (i - l)]
        BY <1>13, <4>1 DEF c
      <4> QED
        BY <2>1, <2>3, <3>2, <4>2
    <3> QED
      BY <3>1, <3>2
  <2>6. both = [i \in 1 .. (l + n) |-> both[i]]
    BY <2>1, <2>4
  <2>7. next = both
    BY <2>2, <2>4, <2>5, <2>6
  <2> QED
    BY <2>7 DEF next, both
<1>15. Abstract!Put(st.table, NextTable(o))
  BY <1>2, <1>4, <1>11, TamePut
<1> DEFINE base == IF st.table \in DOMAIN Db THEN Db[st.table] ELSE [cols |-> InsertColumns(st), rows |-> <<>>]
<1>16. base = [cols |-> old.cols, rows |-> was]
  BY <1>5, <1>6 DEF was, Table
<1>17. [base EXCEPT !.rows = @ \o [i \in DOMAIN st.rows |-> FullRow(base.cols, st.rows[i])]] = NextTable(o)
  <2>1. NextTable(o) = [cols |-> old.cols, rows |-> was \o more]
    BY <1>7, <1>14 DEF NextTable
  <2> HIDE DEF base
  <2>2. base.cols = old.cols /\ base.rows = was
    BY <1>16
  <2>3. more = [i \in DOMAIN st.rows |-> FullRow(base.cols, st.rows[i])]
    BY <2>2 DEF more
  <2> DEFINE rows == base.rows \o [i \in DOMAIN st.rows |-> FullRow(base.cols, st.rows[i])]
  <2>4. rows = was \o more
    BY <2>2, <2>3
  <2> HIDE DEF rows
  <2>5. [base EXCEPT !.rows = rows] = [cols |-> old.cols, rows |-> rows]
    BY <1>16
  <2> QED
    BY <2>1, <2>4, <2>5 DEF rows
<1>18. Abstract!Put(st.table, [base EXCEPT !.rows = @ \o [i \in DOMAIN st.rows |-> FullRow(base.cols, st.rows[i])]])
  BY <1>15, <1>17
<1>19. \A cols, r : Abstract!FullRow(cols, r) = FullRow(cols, r)
  BY SameOperators
<1>20. Abstract!InsertColumns(st) = InsertColumns(st)
  BY SameOperators
<1> QED
  BY <1>2, <1>9, <1>11, <1>18, <1>19, <1>20 DEF Abstract!Insert, o

(* UPDATE that takes the lock keeps the contents it hides.                 *)
LEMMA BeginEffect ==
  ASSUME Shape, NEW st \in Statements, BeginUpdate(st)
  PROVE  Tame(0) /\ tables' = tables
<1> DEFINE o == tables[st.table]
<1>1. /\ ~update.on /\ UNCHANGED <<tables, objs, cells>> /\ o \in DOMAIN objs
      /\ update'.on /\ update'.obj = o /\ update'.before = RowsOf(o)
  BY DEF BeginUpdate, Call, Unlocked, Shape
<1> HIDE DEF o
<1>2. NextTable(o) = Table(o)
  BY <1>1 DEF NextTable, NextRows, Table
<1>3. \A p \in DOMAIN objs \ {o} : NextTable(p) = Table(p)
  BY <1>1, Untouched
<1> QED
  BY <1>1, <1>2, <1>3, Objects DEF Tame

(* A cell that is stored is none of another object.                        *)
LEMMA StoringEffect ==
  ASSUME Shape, Lock, NEW t, t \in update.todo \cup update.half, NEW v,
         cells' = [cells EXCEPT ![t[1]][t[2]] = v], UNCHANGED <<tables, objs>>,
         update'.on = update.on, update'.obj = update.obj, update'.before = update.before
  PROVE  Tame(0) /\ tables' = tables
<1> DEFINE o == update.obj
<1>1. /\ update.on /\ o \in DOMAIN objs /\ RowsOf(o) = update.before /\ DOMAIN update.before = DOMAIN objs[o].rows
      /\ \E st \in Statements : Progress(st)
  BY Updating
<1>2. PICK st \in Statements : t \in Targets(o, st)
  BY <1>1 DEF Progress
<1>3. PICK j \in DOMAIN objs[o].rows : t[1] = objs[o].rows[j]
  <2>1. \E j \in DOMAIN objs[o].rows, k \in DOMAIN objs[o].cols : t = <<objs[o].rows[j], k>>
    BY <1>1, <1>2, TargetCells
  <2> QED
    BY <2>1
<1>4. NextTable(o) = Table(o)
  BY <1>1 DEF NextTable, NextRows, Table
<1>5. ASSUME NEW p \in DOMAIN objs \ {o} PROVE NextTable(p) = Table(p)
  <2>1. \A i \in DOMAIN objs[p].rows : objs[p].rows[i] # t[1] /\ objs[p].rows[i] \in DOMAIN cells
    BY <1>1, <1>3 DEF Shape
  <2>2. \A i \in DOMAIN objs[p].rows : cells'[objs[p].rows[i]] = cells[objs[p].rows[i]]
    BY <2>1
  <2> QED
    BY <2>2, Untouched
<1> QED
  BY <1>4, <1>5, Objects DEF Tame

(* A cell is a target if the row satisfies WHERE and SET names the column. *)
LEMMA TargetIff ==
  ASSUME Shape, NEW st \in Statements, NEW o \in DOMAIN objs, DOMAIN RowsOf(o) = DOMAIN objs[o].rows,
         NEW i \in DOMAIN objs[o].rows, NEW k \in DOMAIN objs[o].cols
  PROVE  <<objs[o].rows[i], k>> \in Targets(o, st)
           <=> /\ Holds(st.where, objs[o].cols, RowsOf(o)[i])
               /\ objs[o].cols[k] \in DOMAIN st.set /\ ColIndex(objs[o].cols, objs[o].cols[k]) = k
<1> DEFINE t == <<objs[o].rows[i], k>>
<1>1. ASSUME t \in Targets(o, st)
      PROVE  /\ Holds(st.where, objs[o].cols, RowsOf(o)[i])
             /\ objs[o].cols[k] \in DOMAIN st.set /\ ColIndex(objs[o].cols, objs[o].cols[k]) = k
  <2>1. PICK i1 \in DOMAIN objs[o].rows, k1 \in DOMAIN objs[o].cols :
          /\ t = <<objs[o].rows[i1], k1>>
          /\ Holds(st.where, objs[o].cols, RowsOf(o)[i1])
          /\ objs[o].cols[k1] \in DOMAIN st.set /\ ColIndex(objs[o].cols, objs[o].cols[k1]) = k1
    BY <1>1, TargetCells
  <2>2. objs[o].rows[i] = objs[o].rows[i1] /\ k = k1
    BY <2>1
  <2>3. i = i1
    BY <2>2 DEF Shape
  <2> QED
    BY <2>1, <2>2, <2>3
<1>2. ASSUME /\ Holds(st.where, objs[o].cols, RowsOf(o)[i])
             /\ objs[o].cols[k] \in DOMAIN st.set /\ ColIndex(objs[o].cols, objs[o].cols[k]) = k
      PROVE  t \in Targets(o, st)
  <2>1. i \in Hits(st.where, objs[o].cols, RowsOf(o))
    BY <1>2 DEF Hits
  <2>2. objs[o].cols[k] \in DOMAIN st.set \cap ToSet(objs[o].cols)
    BY <1>2 DEF ToSet
  <2> QED
    BY <1>2, <2>1, <2>2 DEF Targets
<1> QED
  BY <1>1, <1>2

(* UPDATE that gives the lock back has assigned what SET says to the rows  *)
(* that satisfied WHERE.                                                   *)
LEMMA EndEffect ==
  ASSUME Shape, Lock, EndUpdate
  PROVE  \E st \in Statements : st.table \in DOMAIN tables /\ Tame(tables[st.table]) /\ Abstract!Update(st)
<1>1. update.on /\ update.todo = {} /\ update.half = {} /\ ~update'.on /\ UNCHANGED <<tables, objs, cells>>
  BY DEF EndUpdate, NoUpdate
<1>2. PICK st \in Statements : Progress(st)
  BY <1>1 DEF Lock
<1> DEFINE o == update.obj
           cols == objs[o].cols
           rows == objs[o].rows
           old == update.before
           n == Len(rows)
<1>3. /\ st.op = "update" /\ st.table \in DOMAIN tables /\ tables[st.table] = o /\ o \in DOMAIN objs
      /\ update.set = Stored(cols, st.set) /\ RowsOf(o) = old
      /\ old \in Seq(Seq(Values)) /\ \A i \in DOMAIN old : Len(old[i]) = Len(cols)
      /\ n \in Nat /\ DOMAIN rows = 1 .. n /\ DOMAIN old = 1 .. n
  <2>1. o \in DOMAIN objs
    BY <1>2 DEF Progress, Shape
  <2> QED
    BY <1>1, <1>2, <2>1, Objects, LenProperties DEF Progress, RowsOf
<1>4. \A m \in DOMAIN tables \ {st.table} : tables[m] # o
  BY <1>3 DEF Shape
<1>5. ASSUME NEW i \in 1 .. n, NEW k \in DOMAIN cols
      PROVE  cells[rows[i]][k] = IF /\ Holds(st.where, cols, old[i])
                                    /\ cols[k] \in DOMAIN st.set /\ ColIndex(cols, cols[k]) = k
                                 THEN st.set[cols[k]] ELSE old[i][k]
  <2>1. cells[rows[i]][k] = IF <<rows[i], k>> \notin Targets(o, st) THEN old[i][k] ELSE update.set[k]
    <3>1. cells[rows[i]][k] = CellNow(st, <<rows[i], k>>, old[i][k])
      BY <1>2, <1>3 DEF Progress
    <3>2. <<rows[i], k>>[2] = k
      OBVIOUS
    <3> QED
      BY <1>1, <3>1, <3>2 DEF CellNow
  <2>2. <<rows[i], k>> \in Targets(o, st)
          <=> /\ Holds(st.where, cols, old[i])
              /\ cols[k] \in DOMAIN st.set /\ ColIndex(cols, cols[k]) = k
    <3>1. RowsOf(o) = old /\ DOMAIN RowsOf(o) = DOMAIN rows /\ o \in DOMAIN objs /\ i \in DOMAIN rows
      BY <1>3
    <3> HIDE DEF o, old
    <3>2. <<rows[i], k>> \in Targets(o, st)
            <=> /\ Holds(st.where, cols, RowsOf(o)[i])
                /\ cols[k] \in DOMAIN st.set /\ ColIndex(cols, cols[k]) = k
      BY <3>1, TargetIff
    <3> QED
      BY <3>1, <3>2
  <2>3. ASSUME <<rows[i], k>> \in Targets(o, st) PROVE update.set[k] = st.set[cols[k]]
    <3>1. \E i1 \in DOMAIN rows, k1 \in DOMAIN cols :
            <<rows[i], k>> = <<rows[i1], k1>> /\ Stored(cols, st.set)[k1] = st.set[cols[k1]]
      BY <1>3, <2>3, TargetCells
    <3> QED
      BY <1>3, <3>1
  <2> QED
    BY <2>1, <2>2, <2>3
<1>6. \A i \in 1 .. n : /\ DOMAIN cells[rows[i]] = DOMAIN cols /\ DOMAIN old[i] = DOMAIN cols
                        /\ cells[rows[i]] \in Seq(Texts) /\ old[i] \in Seq(Values)
  <2>1. ASSUME NEW i \in 1 .. n
        PROVE  rows[i] \in DOMAIN cells /\ Len(cells[rows[i]]) = Len(cols) /\ DOMAIN cols = 1 .. Len(cols)
               /\ old[i] \in Seq(Values) /\ Len(old[i]) = Len(cols)
    BY <1>3, Objects, ElementOfSeq, LenProperties DEF Shape
  <2> QED
    BY <2>1, Objects, LenProperties
<1> HIDE DEF o, cols, rows, old, n
<1>7. ASSUME NEW i \in 1 .. n
      PROVE  cells[rows[i]] = IF Holds(st.where, cols, old[i]) THEN Assigned(cols, st.set, old[i]) ELSE old[i]
  <2>1. cells[rows[i]] = [k \in DOMAIN cols |-> cells[rows[i]][k]]
    BY <1>6
  <2>2. old[i] = [k \in DOMAIN cols |-> old[i][k]]
    BY <1>6
  <2>3. CASE Holds(st.where, cols, old[i])
    <3>1. Assigned(cols, st.set, old[i]) =
            [k \in DOMAIN cols |-> IF cols[k] \in DOMAIN st.set /\ ColIndex(cols, cols[k]) = k
                                   THEN st.set[cols[k]] ELSE old[i][k]]
      BY <1>6 DEF Assigned
    <3> QED
      BY <1>5, <2>1, <2>3, <3>1
  <2>4. CASE ~Holds(st.where, cols, old[i])
    BY <1>5, <2>1, <2>2, <2>4
  <2> QED
    BY <2>3, <2>4
<1>8. Tame(o)
  <2>1. \A p \in DOMAIN objs \ {o} : NextTable(p) = Table(p)
    BY <1>1, Untouched DEF o
  <2> QED
    BY <1>1, <1>3, <2>1 DEF Tame
<1>9. NextTable(o) =
        [cols |-> cols, rows |-> [i \in 1 .. n |-> IF Holds(st.where, cols, old[i])
                                                  THEN Assigned(cols, st.set, old[i]) ELSE old[i]]]
  <2>1. NextRows(o) = [i \in 1 .. n |-> cells[rows[i]]]
    BY <1>1, <1>3 DEF NextRows, rows
  <2> QED
    BY <1>1, <1>7, <2>1 DEF NextTable, cols
<1>10. Abstract!Put(st.table, NextTable(o))
  BY <1>1, <1>3, <1>4, <1>8, TamePut
<1>11. Db[st.table] = [cols |-> cols, rows |-> old] /\ DOMAIN Db = DOMAIN tables
  BY <1>3 DEF Db, Table, cols
<1> DEFINE base == Db[st.table]
           now == [i \in DOMAIN base.rows |-> IF Holds(st.where, base.cols, base.rows[i])
                                              THEN Assigned(base.cols, st.set, base.rows[i]) ELSE base.rows[i]]
<1>12. NextTable(o) = [base EXCEPT !.rows = now]
  <2> HIDE DEF base
  <2>1. base.cols = cols /\ base.rows = old
    BY <1>11 DEF base
  <2>2. now = [i \in 1 .. n |-> IF Holds(st.where, cols, old[i]) THEN Assigned(cols, st.set, old[i]) ELSE old[i]]
    BY <1>3, <2>1
  <2> HIDE DEF now
  <2>3. [base EXCEPT !.rows = now] = [cols |-> cols, rows |-> now]
    BY <1>11 DEF base
  <2> QED
    BY <1>9, <2>2, <2>3
<1>13. now = [i \in DOMAIN base.rows |->
                IF Abstract!Holds(st.where, base.cols, base.rows[i])
                THEN Abstract!Assigned(base.cols, st.set, base.rows[i]) ELSE base.rows[i]]
  BY SameOperators
<1> HIDE DEF now
<1>14. Abstract!Update(st)
  <2>1. Abstract!Put(st.table, [base EXCEPT !.rows = now])
    BY <1>10, <1>12
  <2> QED
    BY <1>3, <1>11, <1>13, <2>1 DEF Abstract!Update
<1> QED
  BY <1>3, <1>8, <1>14

-----------------------------------------------------------------------------
(* Steps.                                                                  *)

(* A step that leaves the store alone.                                     *)
LEMMA StoreKept ==
  ASSUME Shape, Intact, Lock, UNCHANGED store
  PROVE  Shape' /\ Intact' /\ Lock' /\ Tame(0) /\ tables' = tables
<1>1. UNCHANGED <<tables, objs, cells, update>>
  BY DEF store
<1>2. Shape' /\ Intact'
  BY <1>1 DEF Shape, Intact
<1>3. Lock'
  <2>1. ASSUME NEW st, Progress(st) PROVE Progress(st)'
    <3>1. Targets(update.obj, st)' = Targets(update.obj, st)
      BY <1>1 DEF Targets, RowsOf, Contents
    <3>2. \A mark, old : CellNow(st, mark, old)' = CellNow(st, mark, old)
      BY <1>1, <3>1 DEF CellNow
    <3> QED
      BY <1>1, <2>1, <3>1, <3>2 DEF Progress
  <2> QED
    BY <1>1, <2>1 DEF Lock
<1>4. \A p \in DOMAIN objs : NextTable(p) = Table(p)
  BY <1>1 DEF NextTable, NextRows, Table, RowsOf, Contents
<1> QED
  BY <1>1, <1>2, <1>3, <1>4, Objects DEF Tame

(* What a step of whoever has the lock does to the store.                  *)
Kept == Shape' /\ Intact' /\ Lock' /\ (\E o : Tame(o)) /\ (Abstract!Next \/ Db' = Db)

(* A statement that is not a SELECT.                                       *)
LEMMA WriteStep ==
  ASSUME Shape, Intact, Lock, NEW st \in Statements, Write(st)
  PROVE  Kept /\ call' = call
<1>1. CASE Create(st)
  <2>1. Shape' /\ Lock' /\ Tame(Len(objs) + 1) /\ Abstract!Create(st)
    BY <1>1, CreateShape, CreateEffect
  <2>2. Intact' /\ call' = call
    BY <1>1 DEF Create, Intact
  <2> QED
    BY <2>1, <2>2 DEF Kept, Abstract!Next
<1>2. CASE Drop(st)
  <2>1. Shape' /\ Lock' /\ Tame(0) /\ Abstract!Drop(st)
    BY <1>2, DropShape, DropEffect
  <2>2. Intact' /\ call' = call
    BY <1>2 DEF Drop, Intact
  <2> QED
    BY <2>1, <2>2 DEF Kept, Abstract!Next
<1>3. CASE Truncate(st)
  <2>1. CASE st.table \in DOMAIN tables
    <3>1. Shape' /\ Lock' /\ Tame(tables[st.table]) /\ Abstract!Truncate(st)
      BY <1>3, <2>1, TruncateShape, TruncateEffect
    <3>2. Intact' /\ call' = call
      BY <1>3 DEF Truncate, Intact
    <3> QED
      BY <3>1, <3>2 DEF Kept, Abstract!Next
  <2>2. CASE st.table \notin DOMAIN tables
    <3>1. UNCHANGED store /\ call' = call
      BY <1>3, <2>2 DEF Truncate, store
    <3>2. Shape' /\ Intact' /\ Lock' /\ Tame(0) /\ tables' = tables
      BY <3>1, StoreKept
    <3> QED
      BY <3>1, <3>2, TameStutter DEF Kept
  <2> QED
    BY <2>1, <2>2
<1>4. CASE Insert(st)
  <2>1. Shape' /\ Intact' /\ Lock' /\ Tame(InsertObject(st)) /\ Abstract!Insert(st)
    BY <1>4, InsertShape, InsertEffect
  <2>2. call' = call
    BY <1>4 DEF Insert
  <2> QED
    BY <2>1, <2>2 DEF Kept, Abstract!Next
<1>5. CASE Delete(st)
  <2>1. Shape' /\ Lock' /\ Tame(tables[st.table]) /\ Abstract!Delete(st)
    BY <1>5, DeleteShape, DeleteEffect
  <2>2. Intact' /\ call' = call
    BY <1>5 DEF Delete, Intact
  <2> QED
    BY <2>1, <2>2 DEF Kept, Abstract!Next
<1>6. CASE Missing(st)
  <2>1. UNCHANGED store /\ call' = call
    BY <1>6 DEF Missing
  <2>2. Shape' /\ Intact' /\ Lock' /\ Tame(0) /\ tables' = tables
    BY <2>1, StoreKept
  <2> QED
    BY <2>1, <2>2, TameStutter DEF Kept
<1>7. CASE BeginUpdate(st)
  <2>1. Shape' /\ Intact' /\ Lock' /\ Tame(0) /\ tables' = tables
    BY <1>7, BeginStep, BeginEffect
  <2>2. call' = call
    BY <1>7 DEF BeginUpdate
  <2> QED
    BY <2>1, <2>2, TameStutter DEF Kept
<1> QED
  BY <1>1, <1>2, <1>3, <1>4, <1>5, <1>6, <1>7 DEF Write

(* A step of the UPDATE that has the lock.                                 *)
LEMMA UpdateStep ==
  ASSUME Shape, Intact, Lock, StoreHalf \/ StoreRest \/ EndUpdate
  PROVE  Kept /\ call' = call
<1>1. CASE StoreHalf
  <2>1. PICK t \in update.todo : /\ cells' = [cells EXCEPT ![t[1]][t[2]] = Torn]
                                /\ update' = [update EXCEPT !.half = {t}, !.todo = @ \ {t}]
    BY <1>1 DEF StoreHalf
  <2>2. UNCHANGED <<tables, objs, call>>
    BY <1>1 DEF StoreHalf
  <2>3. update'.on = update.on /\ update'.obj = update.obj /\ update'.before = update.before
    BY <2>1
  <2>4. t \in update.todo \cup update.half
    OBVIOUS
  <2>5. Tame(0) /\ tables' = tables
    BY <2>1, <2>2, <2>3, <2>4, StoringEffect
  <2>6. Shape' /\ Intact' /\ Lock'
    BY <1>1, HalfStep
  <2> QED
    BY <2>2, <2>5, <2>6, TameStutter DEF Kept
<1>2. CASE StoreRest
  <2>1. PICK t \in update.half : cells' = [cells EXCEPT ![t[1]][t[2]] = update.set[t[2]]]
    BY <1>2 DEF StoreRest
  <2>2. UNCHANGED <<tables, objs, call>> /\ update' = [update EXCEPT !.half = {}]
    BY <1>2 DEF StoreRest
  <2>3. update'.on = update.on /\ update'.obj = update.obj /\ update'.before = update.before
    BY <2>2
  <2>4. t \in update.todo \cup update.half
    OBVIOUS
  <2>5. Tame(0) /\ tables' = tables
    BY <2>1, <2>2, <2>3, <2>4, StoringEffect
  <2>6. Shape' /\ Intact' /\ Lock'
    BY <1>2, RestStep
  <2> QED
    BY <2>2, <2>5, <2>6, TameStutter DEF Kept
<1>3. CASE EndUpdate
  <2>1. Shape' /\ Intact' /\ Lock'
    BY <1>3, EndStep
  <2>2. PICK st \in Statements : st.table \in DOMAIN tables /\ Tame(tables[st.table]) /\ Abstract!Update(st)
    BY <1>3, EndEffect
  <2>3. call' = call
    BY <1>3 DEF EndUpdate
  <2> QED
    BY <2>1, <2>2, <2>3 DEF Kept, Abstract!Next
<1> QED
  BY <1>1, <1>2, <1>3

(* The rows a SELECT finds are the answer to the content it finds them in. *)
LEMMA ScanAnswers ==
  ASSUME Shape, Unlocked, NEW s, call[s].obj \in DOMAIN objs,
         DOMAIN call[s] = DOMAIN NoCall
  PROVE  /\ Selected(s, objs[call[s].obj].rows).view = Answer(call[s].st, Table(call[s].obj))
         /\ Selected(s, objs[call[s].obj].rows).pc = "send"
         /\ Selected(s, objs[call[s].obj].rows).st = call[s].st
         /\ DOMAIN Selected(s, objs[call[s].obj].rows) = DOMAIN NoCall
<1> DEFINE o == call[s].obj
           st == call[s].st
           cols == objs[o].cols
           rows == objs[o].rows
           I == Hits(st.where, cols, Contents(rows))
           hit == Those(rows, I)
           view == [i \in DOMAIN hit |-> IF st.cols = <<>> THEN cells[hit[i]] ELSE Projected(cols, st.cols, cells[hit[i]])]
<1>1. Table(o) = [cols |-> cols, rows |-> Contents(rows)]
  BY DEF Unlocked, Table, RowsOf
<1>2. Those(Contents(rows), I) = Contents(hit)
  <2>1. rows \in Seq(Nat)
    BY Objects
  <2>2. I \subseteq DOMAIN rows
    BY DEF Hits, Contents
  <2> HIDE DEF rows, I
  <2> QED
    BY <2>1, <2>2, ThoseContents
<1>3. /\ Selected(s, rows).view = view
      /\ Selected(s, rows).pc = "send" /\ Selected(s, rows).st = st /\ DOMAIN Selected(s, rows) = DOMAIN NoCall
  BY DEF Selected, NoCall
<1> HIDE DEF hit
<1>4. view = IF st.cols = <<>> THEN Contents(hit)
             ELSE [i \in DOMAIN Contents(hit) |-> Projected(cols, st.cols, Contents(hit)[i])]
  BY DEF Contents
<1> HIDE DEF I, rows, cols, view
<1>5. Answer(st, Table(o)) =
        IF st.cols = <<>> THEN Contents(hit)
        ELSE [i \in DOMAIN Contents(hit) |-> Projected(cols, st.cols, Contents(hit)[i])]
  <2>1. Table(o).cols = cols /\ Table(o).rows = Contents(rows)
    BY <1>1
  <2>2. Those(Table(o).rows, Hits(st.where, Table(o).cols, Table(o).rows)) = Contents(hit)
    BY <1>2, <2>1 DEF I
  <2> QED
    BY <2>1, <2>2 DEF Answer
<1> QED
  BY <1>3, <1>4, <1>5 DEF rows

(* A step of a SELECT: session s moves, the store does not.                *)
LEMMA SelectStep ==
  ASSUME Inv, NEW s \in Sessions, Select(s), Watch
  PROVE  UNCHANGED store /\ Seeing'
<1>0. Shape /\ Intact /\ Lock /\ Seeing /\ Sees(s)
  BY DEF Inv, Seeing
<1>1. UNCHANGED store
  BY DEF Select, Lookup, Scan, SendCell, Finish
<1>2. Tame(0)
  BY <1>0, <1>1, StoreKept
<1>3. \E c : call' = [call EXCEPT ![s] = c]
  <2>1. CASE \E st \in Statements : Lookup(s, st)
    BY <2>1 DEF Lookup
  <2>2. CASE Scan(s)
    BY <2>2 DEF Scan
  <2>3. CASE SendCell(s)
    BY <2>3 DEF SendCell
  <2>4. CASE Finish(s)
    BY <2>4 DEF Finish
  <2> QED
    BY <2>1, <2>2, <2>3, <2>4 DEF Select
<1>4. /\ DOMAIN call = Sessions /\ DOMAIN call' = Sessions /\ call' = [t \in Sessions |-> call'[t]]
      /\ \A t \in Sessions \ {s} : call'[t] = call[t]
  BY <1>0, <1>3 DEF Seeing
<1>5. \A t \in Sessions \ {s} : Sees(t)'
  BY <1>0, <1>2, <1>4, TameSees
<1>6. call'[s].pc # "idle" => seen'[s] = seen[s] \cup {Content(call'[s].st.table, Db')}
  BY DEF Watch
<1>7. UNCHANGED <<tables, objs, cells, update>>
  BY <1>1 DEF store
<1>8. \A o : Table(o)' = Table(o)
  BY <1>7 DEF Table, RowsOf, Contents
<1>9. Sees(s)'
  <2>1. CASE \E st \in Statements : Lookup(s, st)
    <3>1. PICK st \in Statements : Lookup(s, st)
      BY <2>1
    <3>2. /\ call'[s] = [NoCall EXCEPT !.pc = "found", !.st = st, !.obj = tables[st.table]]
          /\ st.table \in DOMAIN tables
      BY <1>4, <3>1 DEF Lookup
    <3>3. /\ DOMAIN call'[s] = DOMAIN NoCall /\ call'[s].pc = "found" /\ call'[s].st = st
          /\ call'[s].obj = tables[st.table]
      BY <3>2 DEF NoCall
    <3>4. Content(st.table, Db') = NextTable(tables[st.table])
      BY <1>7, <3>2, NextDb DEF Content
    <3>5. NextTable(tables[st.table]) = Table(tables[st.table])'
      BY <1>7 DEF NextTable, NextRows, Table, RowsOf, Contents
    <3>6. Table(tables[st.table])' \in seen'[s]
      BY <1>6, <3>3, <3>4, <3>5
    <3>7. /\ tables[st.table] \in DOMAIN objs'
          /\ \A n \in DOMAIN tables' : tables'[n] = tables[st.table] => n = st.table
      BY <1>0, <1>7, <3>2 DEF Shape
    <3> QED
      BY <1>7, <3>3, <3>6, <3>7 DEF Sees
  <2>2. CASE Scan(s)
    <3>1. call[s].pc = "found" /\ Unlocked /\ call'[s] = Selected(s, objs[call[s].obj].rows)
      BY <1>4, <2>2 DEF Scan
    <3>2. /\ call[s].obj \in DOMAIN objs /\ Table(call[s].obj) \in seen[s] /\ DOMAIN call[s] = DOMAIN NoCall
      BY <1>0, <3>1 DEF Sees
    <3>3. /\ call'[s].view = Answer(call[s].st, Table(call[s].obj)) /\ call'[s].pc = "send"
          /\ call'[s].st = call[s].st /\ DOMAIN call'[s] = DOMAIN NoCall
      BY <1>0, <3>1, <3>2, ScanAnswers
    <3>4. Table(call[s].obj) \in seen'[s] \ {NoTable}
      BY <1>0, <1>6, <3>2, <3>3, TableIsTable
    <3> QED
      BY <3>3, <3>4 DEF Sees
  <2>3. CASE SendCell(s)
    <3>1. /\ call[s].pc = "send" /\ DOMAIN call'[s] = DOMAIN call[s] /\ call'[s].pc = call[s].pc
          /\ call'[s].st = call[s].st /\ call'[s].view = call[s].view
      <4>1. PICK x : call' = [call EXCEPT ![s].sent = x]
        BY <2>3 DEF SendCell
      <4>2. call'[s] = [call[s] EXCEPT !.sent = x] /\ DOMAIN call[s] = DOMAIN NoCall
        BY <1>0, <1>4, <4>1 DEF Sees
      <4>3. {"pc", "st", "view"} \subseteq DOMAIN call[s]
        BY <4>2 DEF NoCall
      <4>4. call[s].pc = "send"
        BY <2>3 DEF SendCell
      <4> QED
        BY <4>2, <4>3, <4>4
    <3> QED
      BY <1>0, <1>6, <3>1 DEF Sees
  <2>4. CASE Finish(s)
    <3>1. call'[s] = NoCall
      BY <1>4, <2>4 DEF Finish
    <3> QED
      BY <3>1 DEF Sees, NoCall
  <2> QED
    BY <2>1, <2>2, <2>3, <2>4 DEF Select
<1> QED
  BY <1>1, <1>4, <1>5, <1>9 DEF Seeing

(* Every step keeps the invariant and is one of Tables, or none.           *)
LEMMA StepInv ==
  ASSUME Inv, [Next]_vars
  PROVE  Inv' /\ (Abstract!Next \/ Db' = Db)
<1>0. Shape /\ Intact /\ Lock /\ Seeing
  BY DEF Inv
<1>1. ASSUME Kept /\ call' = call, Watch
      PROVE  Inv' /\ (Abstract!Next \/ Db' = Db)
  <2>1. PICK o : Tame(o)
    BY <1>1 DEF Kept
  <2>2. \A s \in Sessions : Sees(s)'
    BY <1>0, <1>1, <2>1, TameSees
  <2>3. Seeing'
    BY <1>0, <1>1, <2>2 DEF Seeing
  <2> QED
    BY <1>1, <2>3 DEF Inv, Kept
<1>2. ASSUME NEW st \in Statements, Write(st), Watch
      PROVE  Inv' /\ (Abstract!Next \/ Db' = Db)
  BY <1>0, <1>1, <1>2, WriteStep
<1>3. ASSUME StoreHalf \/ StoreRest \/ EndUpdate, Watch
      PROVE  Inv' /\ (Abstract!Next \/ Db' = Db)
  BY <1>0, <1>1, <1>3, UpdateStep
<1>4. ASSUME NEW s \in Sessions, Select(s), Watch
      PROVE  Inv' /\ (Abstract!Next \/ Db' = Db)
  <2>1. UNCHANGED store /\ Seeing'
    BY <1>4, SelectStep
  <2>2. Shape' /\ Intact' /\ Lock' /\ Tame(0) /\ tables' = tables
    BY <1>0, <2>1, StoreKept
  <2> QED
    BY <1>0, <2>1, <2>2, TameStutter DEF Inv
<1>5. ASSUME UNCHANGED vars
      PROVE  Inv' /\ (Abstract!Next \/ Db' = Db)
  <2>1. UNCHANGED store /\ UNCHANGED <<call, seen>>
    BY <1>5 DEF vars
  <2>2. Shape' /\ Intact' /\ Lock' /\ Tame(0) /\ tables' = tables
    BY <1>0, <2>1, StoreKept
  <2>3. Seeing'
    BY <1>0, <2>1 DEF store, Seeing, Sees, Table, RowsOf, Contents
  <2> QED
    BY <1>0, <2>2, <2>3, TameStutter DEF Inv
<1> QED
  BY <1>2, <1>3, <1>4, <1>5 DEF Next, Rest

-----------------------------------------------------------------------------
(* The theorems.                                                           *)

(* In every reachable state the tables share no row, only the UPDATE that  *)
(* has the lock tears a cell, and SELECTs have seen what they found.       *)
THEOREM StoreInvariance == Spec => []Inv
<1>1. Inv /\ [Next]_vars => Inv'
  BY StepInv
<1> QED
  BY <1>1, InitInv, PTL DEF Spec

(* Every table points to rows that exist, with a cell for every column;    *)
(* only under the write lock is one of them half written                   *)
(* (state_store.go:166-176, 314-322).                                      *)
THEOREM StoreTypes == Spec => []TypeOK
<1>1. Inv => TypeOK
  <2> SUFFICES ASSUME Inv PROVE TypeOK
    OBVIOUS
  <2>0. Shape /\ Intact /\ Seeing
    BY DEF Inv
  <2>1. DOMAIN tables \subseteq TableNames /\ \A n \in DOMAIN tables : tables[n] \in DOMAIN objs
    BY <2>0 DEF Shape
  <2>2. ASSUME NEW o \in DOMAIN objs
        PROVE  /\ objs[o].cols \in Seq(Columns) /\ objs[o].rows \in Seq(DOMAIN cells)
               /\ \A i \in DOMAIN objs[o].rows : Len(cells[objs[o].rows[i]]) = Len(objs[o].cols)
    <3> DEFINE rows == objs[o].rows
               n == Len(rows)
    <3>1. rows \in Seq(Nat) /\ n \in Nat /\ DOMAIN rows = 1 .. n /\ objs[o].cols \in Seq(Columns)
      BY <2>0, Objects
    <3>2. \A i \in 1 .. n : rows[i] \in DOMAIN cells /\ Len(cells[rows[i]]) = Len(objs[o].cols)
      BY <2>0, <3>1 DEF Shape
    <3> HIDE DEF rows, n
    <3>3. rows = [i \in 1 .. n |-> rows[i]]
      BY <3>1
    <3>4. rows \in [1 .. n -> DOMAIN cells]
      BY <3>2, <3>3
    <3>5. rows \in Seq(DOMAIN cells)
      BY <3>1, <3>4, FunctionList
    <3> QED
      BY <3>1, <3>2, <3>5 DEF rows
  <2>3. ASSUME NEW r \in DOMAIN cells
        PROVE  /\ cells[r] \in Seq(Values \cup {Torn})
               /\ Torn \in ToSet(cells[r]) => \E t \in update.half : t[1] = r
    <3>1. cells[r] \in Seq(Values \cup {Torn})
      BY <2>0, Objects DEF Texts
    <3>2. ASSUME Torn \in ToSet(cells[r]) PROVE \E t \in update.half : t[1] = r
      <4>1. PICK k \in DOMAIN cells[r] : cells[r][k] = Torn
        BY <3>2 DEF ToSet
      <4>2. <<r, k>> \in update.half
        BY <2>0, <4>1 DEF Intact
      <4> QED
        BY <4>2
    <3> QED
      BY <3>1, <3>2
  <2>4. \A s \in Sessions : call[s].pc \in {"idle", "found", "send"}
    BY <2>0 DEF Seeing, Sees
  <2> QED
    BY <2>1, <2>2, <2>3, <2>4 DEF TypeOK
<1> QED
  BY <1>1, StoreInvariance, PTL

(* The rows a SELECT finds are the answer to one content its table had     *)
(* during the call, whatever other sessions do between its lookup and its  *)
(* scan (state_store.go:203-228).                                          *)
THEOREM SelectsSeeOneState == Spec => []SelectSeesOneState
<1>1. Inv => SelectSeesOneState
  BY DEF Inv, Seeing, Sees, SelectSeesOneState
<1> QED
  BY <1>1, StoreInvariance, PTL

(* The store with its shared rows, overwritten in place, implements tables *)
(* that one statement at a time changes (state_store.go:51-378).           *)
THEOREM StoreRefines == Spec => StoreIsTables
<1>1. Init => Db = [n \in {} |-> <<>>]
  BY DEF Init, Db
<1>2. Inv /\ [Next]_vars => [Abstract!Next]_Db
  BY StepInv
<1> QED
  BY <1>1, <1>2, StoreInvariance, PTL DEF Spec, StoreIsTables, Abstract!Spec
=============================================================================
