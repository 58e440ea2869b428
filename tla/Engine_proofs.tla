---------------------------- MODULE Engine_proofs ----------------------------
(***************************************************************************)
(* Proofs about Engine, for any rules, queries, sessions and bounds: the   *)
(* slice header and every header a running Match has copied stay within    *)
(* their arrays and cover rules only, and Match returns only rules that    *)
(* were registered during the call; to the admin API the slice is an       *)
(* ordered list; an undisturbed Match returns the first rule that fits;    *)
(* and the hit counters agree with the log.                                *)
(***************************************************************************)
EXTENDS Engine, FiniteSetTheorems, SequenceTheorems, TLAPS

Slots   == Rules \cup {Nil}
Call    == [pc : MatchPC, q : Queries \cup {Nil}, arr : Nat, len : Nat, idx : Nat,
            found : Names \cup {Nil}, ts : Nat]
Watch   == [ever : SUBSET Rules, stay : SUBSET Rules, list : Seq(Rules), disturbed : BOOLEAN]

Typed ==
  /\ heap \in Seq(Seq(Slots))
  /\ rules \in [arr : Nat, len : Nat]
  /\ deletion \in [on : BOOLEAN, todo : SUBSET Nat, src : Seq(Rules)]
  /\ fresh \in SUBSET Rules
  /\ hits \in [Rules -> Nat]
  /\ logs \in Seq([by : Sessions, rule : Names, ts : Nat])
  /\ clock \in Nat
  /\ match \in [Sessions -> Call]
  /\ seen \in [Sessions -> Watch]
  /\ \A s \in Sessions : match[s].pc \in {"hit", "stamp", "append"} => match[s].found \in Names
  /\ \A s \in Sessions : match[s].pc # "idle" => match[s].q \in Queries

(* The current header covers rules; while DeleteRule shifts, every slot    *)
(* under it holds one of the rules that were there before.                 *)
Header ==
  /\ rules.arr \in 1 .. Len(heap)
  /\ rules.len <= Len(heap[rules.arr])
  /\ \A i \in 1 .. rules.len : heap[rules.arr][i] \in Rules
  /\ ~deletion.on => deletion.todo = {}
  /\ deletion.on =>
       /\ Len(deletion.src) = rules.len
       /\ rules.len >= 1
       /\ deletion.todo \subseteq 1 .. (rules.len - 1)
       /\ \A i \in 1 .. rules.len : heap[rules.arr][i] \in {deletion.src[j] : j \in 1 .. rules.len}

(* What a scanning Match can still read, and what it could come to read if *)
(* the array is shifted, was registered since it began.                    *)
Scan(s) ==
  match[s].pc = "scan" =>
    /\ match[s].arr \in 1 .. Len(heap)
    /\ match[s].len <= Len(heap[match[s].arr])
    /\ match[s].idx \in 1 .. (match[s].len + 1)
    /\ \A i \in 1 .. match[s].len : heap[match[s].arr][i] \in seen[s].ever
    /\ \A i \in 1 .. rules.len : Registered[i] \in seen[s].ever

Picked(s) ==
  match[s].pc = "hit" => /\ match[s].found \in seen[s].ever
                         /\ <<match[s].found, match[s].q>> \in RuleMatches

IInv == Typed /\ Header /\ \A s \in Sessions : Scan(s) /\ Picked(s)

-----------------------------------------------------------------------------
(* The registered rules form a sequence as long as the header says.        *)
LEMMA RegisteredSeq ==
  ASSUME Typed, Header
  PROVE  Registered \in Seq(Rules) /\ Len(Registered) = rules.len
<1>1. CASE deletion.on
  BY <1>1 DEF Typed, Header, Registered
<1>2. CASE ~deletion.on
  <2>1. Registered = [i \in 1 .. rules.len |-> heap[rules.arr][i]]
    BY <1>2 DEF Registered
  <2>2. rules.len \in Nat
    BY DEF Typed
  <2> QED
    BY <2>1, <2>2 DEF Header
<1> QED
  BY <1>1, <1>2

(* A new array holds the list, and spare empty slots behind it.            *)
LEMMA NewArrayFits ==
  ASSUME NEW list \in Seq(Rules), NEW spare \in Nat
  PROVE  /\ Array(list, spare) \in Seq(Slots)
         /\ Len(Array(list, spare)) = Len(list) + spare
         /\ \A i \in 1 .. Len(list) : Array(list, spare)[i] = list[i]
BY DEF Array, Slots

(* Storing one slot changes nothing else in the heap.                      *)
LEMMA StoreSlot ==
  ASSUME NEW h \in Seq(Seq(Slots)), NEW a \in 1 .. Len(h), NEW j \in 1 .. Len(h[a]), NEW v \in Slots,
         NEW g, g = [h EXCEPT ![a][j] = v]
  PROVE  /\ g \in Seq(Seq(Slots))
         /\ Len(g) = Len(h)
         /\ \A b \in 1 .. Len(h) :
              /\ Len(g[b]) = Len(h[b])
              /\ \A i \in 1 .. Len(h[b]) : g[b][i] = IF b = a /\ i = j THEN v ELSE h[b][i]
<1>1. h[a] \in Seq(Slots)
  OBVIOUS
<1>2. g = [h EXCEPT ![a] = [h[a] EXCEPT ![j] = v]]
  OBVIOUS
<1> DEFINE row == [h[a] EXCEPT ![j] = v]
<1>3. row \in Seq(Slots) /\ Len(row) = Len(h[a])
  BY <1>1
<1>4. \A i \in 1 .. Len(h[a]) : row[i] = IF i = j THEN v ELSE h[a][i]
  BY <1>1
<1>5. g = [h EXCEPT ![a] = row]
  BY <1>2
<1> HIDE DEF row
<1>6. g \in Seq(Seq(Slots)) /\ Len(g) = Len(h)
  BY <1>3, <1>5
<1>7. \A b \in 1 .. Len(h) : g[b] = IF b = a THEN row ELSE h[b]
  <2>1. h \in [1 .. Len(h) -> Seq(Slots)]
    OBVIOUS
  <2> QED
    BY <1>5, <2>1
<1>8. ASSUME NEW b \in 1 .. Len(h)
      PROVE  /\ Len(g[b]) = Len(h[b])
             /\ \A i \in 1 .. Len(h[b]) : g[b][i] = IF b = a /\ i = j THEN v ELSE h[b][i]
  <2>1. CASE b = a
    BY <1>3, <1>4, <1>7, <2>1
  <2>2. CASE b # a
    BY <1>7, <2>2
  <2> QED
    BY <2>1, <2>2
<1> QED
  BY <1>6, <1>8

(* Allocating an array leaves the others where they are.                   *)
LEMMA Allocate ==
  ASSUME NEW h \in Seq(Seq(Slots)), NEW row \in Seq(Slots), NEW g, g = Append(h, row)
  PROVE  /\ g \in Seq(Seq(Slots))
         /\ Len(g) = Len(h) + 1
         /\ g[Len(h) + 1] = row
         /\ \A b \in 1 .. Len(h) : g[b] = h[b]
OBVIOUS

-----------------------------------------------------------------------------
(* An operation that puts a list of registered rules in a new array keeps  *)
(* the header and every scan in order (append beyond capacity, make).      *)
LEMMA NewArrayStep ==
  ASSUME Typed, Header, \A s \in Sessions : Scan(s),
         ~deletion.on, deletion' = deletion, match' = match,
         NEW row \in Seq(Slots), NEW list \in Seq(Rules),
         Len(list) <= Len(row), \A i \in 1 .. Len(list) : row[i] = list[i],
         heap' = Append(heap, row),
         rules' = [arr |-> Len(heap) + 1, len |-> Len(list)],
         \A s \in Sessions : match[s].pc = "scan" =>
            /\ seen[s].ever \subseteq seen'[s].ever
            /\ \A i \in 1 .. Len(list) : list[i] \in seen'[s].ever
  PROVE  /\ heap' \in Seq(Seq(Slots))
         /\ rules' \in [arr : Nat, len : Nat]
         /\ Header'
         /\ \A s \in Sessions : Scan(s)'
<1>1. /\ heap' \in Seq(Seq(Slots))
      /\ Len(heap') = Len(heap) + 1
      /\ heap'[Len(heap) + 1] = row
      /\ \A b \in 1 .. Len(heap) : heap'[b] = heap[b]
  BY Allocate DEF Typed
<1>2. Len(heap) \in Nat /\ Len(list) \in Nat
  BY DEF Typed
<1>3. rules'.arr = Len(heap) + 1 /\ rules'.len = Len(list) /\ rules' \in [arr : Nat, len : Nat]
  BY <1>2
<1>4. Header'
  BY <1>1, <1>2, <1>3 DEF Header
<1>5. ASSUME NEW s \in Sessions PROVE Scan(s)'
  <2> SUFFICES ASSUME match[s].pc = "scan" PROVE Scan(s)'
    BY DEF Scan
  <2>1. \A i \in 1 .. rules'.len : Registered'[i] = list[i]
    BY <1>1, <1>2, <1>3 DEF Registered
  <2>2. match[s].arr \in 1 .. Len(heap) /\ heap'[match[s].arr] = heap[match[s].arr]
    BY <1>1 DEF Scan
  <2>3. match[s].arr \in 1 .. Len(heap')
    BY <1>1, <1>2, <2>2
  <2>4. \A i \in 1 .. match[s].len : heap'[match[s].arr][i] \in seen'[s].ever
    BY <2>2 DEF Scan
  <2>5. \A i \in 1 .. rules'.len : Registered'[i] \in seen'[s].ever
    BY <2>1, <1>3
  <2> QED
    BY <2>2, <2>3, <2>4, <2>5 DEF Scan
<1> QED
  BY <1>1, <1>3, <1>4, <1>5

(* Storing a rule every scan knows into a slot of the current array keeps  *)
(* every scan in order.                                                    *)
LEMMA StoreStep ==
  ASSUME Typed, Header, \A s \in Sessions : Scan(s), match' = match,
         NEW j \in 1 .. Len(heap[rules.arr]), NEW r \in Rules,
         heap' = [heap EXCEPT ![rules.arr][j] = r],
         \A s \in Sessions : match[s].pc = "scan" =>
            seen[s].ever \subseteq seen'[s].ever /\ r \in seen'[s].ever
  PROVE  /\ heap' \in Seq(Seq(Slots))
         /\ Len(heap') = Len(heap)
         /\ Len(heap'[rules.arr]) = Len(heap[rules.arr])
         /\ \A i \in 1 .. Len(heap[rules.arr]) :
              heap'[rules.arr][i] = IF i = j THEN r ELSE heap[rules.arr][i]
         /\ \A s \in Sessions : match[s].pc = "scan" =>
              /\ match[s].arr \in 1 .. Len(heap')
              /\ match[s].len <= Len(heap'[match[s].arr])
              /\ \A i \in 1 .. match[s].len : heap'[match[s].arr][i] \in seen'[s].ever
<1>1. heap \in Seq(Seq(Slots)) /\ rules.arr \in 1 .. Len(heap) /\ r \in Slots
  BY DEF Typed, Header, Slots
<1>2. /\ heap' \in Seq(Seq(Slots))
      /\ Len(heap') = Len(heap)
      /\ \A b \in 1 .. Len(heap) :
           /\ Len(heap'[b]) = Len(heap[b])
           /\ \A i \in 1 .. Len(heap[b]) :
                heap'[b][i] = IF b = rules.arr /\ i = j THEN r ELSE heap[b][i]
  BY <1>1, StoreSlot
<1>3. ASSUME NEW s \in Sessions, match[s].pc = "scan"
      PROVE  /\ match[s].arr \in 1 .. Len(heap')
             /\ match[s].len <= Len(heap'[match[s].arr])
             /\ \A i \in 1 .. match[s].len : heap'[match[s].arr][i] \in seen'[s].ever
  <2>1. /\ match[s].arr \in 1 .. Len(heap) /\ match[s].len <= Len(heap[match[s].arr])
        /\ \A i \in 1 .. match[s].len : heap[match[s].arr][i] \in seen[s].ever
    BY <1>3 DEF Scan
  <2>2. match[s].len \in Nat
    BY DEF Typed, Call
  <2>3. Len(heap[match[s].arr]) \in Nat
    BY <1>1, <2>1
  <2>4. Len(heap'[match[s].arr]) = Len(heap[match[s].arr])
    BY <1>2, <2>1
  <2>5. ASSUME NEW i \in 1 .. match[s].len PROVE heap'[match[s].arr][i] \in seen'[s].ever
    <3>1. i \in 1 .. Len(heap[match[s].arr])
      BY <2>1, <2>2, <2>3
    <3>2. heap'[match[s].arr][i] \in {r, heap[match[s].arr][i]}
      BY <1>2, <2>1, <3>1
    <3> QED
      BY <1>3, <2>1, <3>2
  <2> QED
    BY <1>2, <2>1, <2>4, <2>5
<1> QED
  BY <1>1, <1>2, <1>3

-----------------------------------------------------------------------------
(* History: what Joins and Parts do to what a scanning Match has seen.     *)
LEMMA JoinsSeen ==
  ASSUME Typed, NEW r \in Rules, Joins(r)
  PROVE  /\ seen' \in [Sessions -> Watch]
         /\ \A s \in Sessions :
              /\ match[s].pc = "scan" => seen'[s].ever = seen[s].ever \cup {r}
              /\ match[s].pc # "scan" => seen'[s] = seen[s]
BY ZenonT(30) DEF Typed, Joins, Scanning, Watch

(* The same for a rule that is taken out.                                  *)
LEMMA PartsSeen ==
  ASSUME Typed, NEW gone \in SUBSET Rules, NEW shifts \in BOOLEAN, Parts(gone, shifts)
  PROVE  /\ seen' \in [Sessions -> Watch]
         /\ \A s \in Sessions : seen'[s].ever = seen[s].ever
BY ZenonT(30) DEF Typed, Parts, Scanning, Watch

(* The startup rules satisfy the invariant (NewEngine, engine.go:31-38).   *)
LEMMA InitIInv == Init => IInv
<1> SUFFICES ASSUME Init PROVE IInv
  OBVIOUS
<1>1. PICK spare \in Slack : heap = <<Array(InitRules, spare)>>
  BY DEF Init
<1>2. spare \in Nat /\ InitRules \in Seq(Rules)
  BY SlackAssumption, InitAssumption
<1>3. /\ Array(InitRules, spare) \in Seq(Slots)
      /\ Len(Array(InitRules, spare)) = Len(InitRules) + spare
      /\ \A i \in 1 .. Len(InitRules) : Array(InitRules, spare)[i] = InitRules[i]
  BY <1>2, NewArrayFits
<1>4. heap \in Seq(Seq(Slots)) /\ Len(heap) = 1 /\ heap[1] = Array(InitRules, spare)
  BY <1>1, <1>3
<1>5. \A s \in Sessions : match[s] = NoMatch /\ seen[s] = NoWatch
  BY DEF Init
<1>6. NoMatch \in Call /\ NoWatch \in Watch /\ NoDeletion \in [on : BOOLEAN, todo : SUBSET Nat, src : Seq(Rules)]
  BY DEF NoMatch, NoWatch, NoDeletion, Call, Watch, MatchPC
<1>7. Typed
  BY <1>2, <1>4, <1>5, <1>6 DEF Typed, Init, NoMatch
<1>8. Header
  BY <1>2, <1>3, <1>4 DEF Header, Init, NoDeletion
<1>9. \A s \in Sessions : Scan(s) /\ Picked(s)
  BY <1>5 DEF Scan, Picked, NoMatch
<1> QED
  BY <1>7, <1>8, <1>9 DEF IInv

(* PrependRule and an AddRule that has to grow put the list in a new array.*)
LEMMA PrependStep == IInv /\ (\E r \in Rules : PrependRule(r)) => IInv'
<1> SUFFICES ASSUME IInv, NEW r \in Rules, PrependRule(r) PROVE IInv'
  OBVIOUS
<1>1. Typed /\ Header /\ \A s \in Sessions : Scan(s) /\ Picked(s)
  BY DEF IInv
<1> DEFINE list == <<r>> \o Registered
<1>2. ~deletion.on /\ deletion' = deletion /\ match' = match /\ NewArray(list) /\ Joins(r)
  BY DEF PrependRule, Operation, Unlocked
<1>3. Registered \in Seq(Rules) /\ Len(Registered) = rules.len
  BY <1>1, RegisteredSeq
<1>4. list \in Seq(Rules) /\ \A i \in 1 .. Len(list) : list[i] = r \/ \E k \in 1 .. rules.len : list[i] = Registered[k]
  <2>1. list \in Seq(Rules) /\ Len(list) = 1 + rules.len
    BY <1>3
  <2>2. ASSUME NEW i \in 1 .. Len(list), i # 1
        PROVE  i - 1 \in 1 .. rules.len /\ list[i] = Registered[i - 1]
    BY <1>3, <2>1, <2>2
  <2>3. list[1] = r
    BY <1>3
  <2> QED
    BY <2>1, <2>2, <2>3
<1>5. PICK spare \in Slack : heap' = Append(heap, Array(list, spare))
  BY <1>2 DEF NewArray
<1>6. rules' = [arr |-> Len(heap) + 1, len |-> Len(list)]
  BY <1>2 DEF NewArray
<1> HIDE DEF list
<1>7. /\ seen' \in [Sessions -> Watch]
      /\ \A s \in Sessions : /\ match[s].pc = "scan" => seen'[s].ever = seen[s].ever \cup {r}
                             /\ match[s].pc # "scan" => seen'[s] = seen[s]
  BY <1>1, <1>2, JoinsSeen
<1>8. ASSUME NEW s \in Sessions, match[s].pc = "scan"
      PROVE  seen[s].ever \subseteq seen'[s].ever /\ \A i \in 1 .. Len(list) : list[i] \in seen'[s].ever
  BY <1>1, <1>4, <1>7, <1>8 DEF Scan
<1>9. spare \in Nat
  BY SlackAssumption
<1>10. /\ Array(list, spare) \in Seq(Slots) /\ Len(list) <= Len(Array(list, spare))
       /\ \A i \in 1 .. Len(list) : Array(list, spare)[i] = list[i]
  <2>1. /\ Array(list, spare) \in Seq(Slots) /\ Len(Array(list, spare)) = Len(list) + spare
        /\ \A i \in 1 .. Len(list) : Array(list, spare)[i] = list[i]
    BY <1>4, <1>9, NewArrayFits
  <2>2. Len(list) \in Nat
    BY <1>4
  <2> QED
    BY <1>9, <2>1, <2>2
<1>11. /\ heap' \in Seq(Seq(Slots)) /\ rules' \in [arr : Nat, len : Nat]
       /\ Header' /\ \A s \in Sessions : Scan(s)'
  BY <1>1, <1>2, <1>4, <1>5, <1>6, <1>8, <1>10, NewArrayStep
<1>12. Typed'
  BY <1>1, <1>7, <1>11 DEF PrependRule, Typed, journal
<1>13. \A s \in Sessions : Picked(s)'
  BY <1>1, <1>2, <1>7 DEF Picked
<1> QED
  BY <1>11, <1>12, <1>13 DEF IInv

(* AddRule: into the spare slot behind the list, or into a new array.      *)
LEMMA AddStep == IInv /\ (\E r \in Rules : AddRule(r)) => IInv'
<1> SUFFICES ASSUME IInv, NEW r \in Rules, AddRule(r) PROVE IInv'
  OBVIOUS
<1>1. Typed /\ Header /\ \A s \in Sessions : Scan(s) /\ Picked(s)
  BY DEF IInv
<1>2. ~deletion.on /\ deletion' = deletion /\ match' = match /\ Joins(r)
  BY DEF AddRule, Operation, Unlocked
<1>3. Registered \in Seq(Rules) /\ Len(Registered) = rules.len
  BY <1>1, RegisteredSeq
<1>4. /\ seen' \in [Sessions -> Watch]
      /\ \A s \in Sessions : /\ match[s].pc = "scan" => seen'[s].ever = seen[s].ever \cup {r}
                             /\ match[s].pc # "scan" => seen'[s] = seen[s]
  BY <1>1, <1>2, JoinsSeen
<1>5. \A s \in Sessions : Picked(s)'
  BY <1>1, <1>2, <1>4 DEF Picked
<1>6. CASE /\ rules.len < Len(heap[rules.arr])
           /\ heap' = [heap EXCEPT ![rules.arr][NextSlot] = r]
           /\ rules' = [rules EXCEPT !.len = @ + 1]
  <2>1. NextSlot = rules.len + 1 /\ NextSlot \in 1 .. Len(heap[rules.arr])
    BY <1>1, <1>6 DEF NextSlot, Typed, Header
  <2>2. \A s \in Sessions : match[s].pc = "scan" => seen[s].ever \subseteq seen'[s].ever /\ r \in seen'[s].ever
    BY <1>4
  <2>3. /\ heap' \in Seq(Seq(Slots))
        /\ Len(heap') = Len(heap)
        /\ Len(heap'[rules.arr]) = Len(heap[rules.arr])
        /\ \A i \in 1 .. Len(heap[rules.arr]) :
             heap'[rules.arr][i] = IF i = NextSlot THEN r ELSE heap[rules.arr][i]
        /\ \A s \in Sessions : match[s].pc = "scan" =>
             /\ match[s].arr \in 1 .. Len(heap')
             /\ match[s].len <= Len(heap'[match[s].arr])
             /\ \A i \in 1 .. match[s].len : heap'[match[s].arr][i] \in seen'[s].ever
    BY <1>1, <1>2, <1>6, <2>1, <2>2, StoreStep
  <2>4. rules'.arr = rules.arr /\ rules'.len = rules.len + 1 /\ rules' \in [arr : Nat, len : Nat]
    <3>1. rules \in [arr : Nat, len : Nat]
      BY <1>1 DEF Typed
    <3> QED
      BY <1>6, <3>1
  <2>5. Header'
    BY <1>1, <1>2, <1>6, <2>1, <2>3, <2>4 DEF Header, Typed
  <2>6. ASSUME NEW s \in Sessions PROVE Scan(s)'
    <3> SUFFICES ASSUME match[s].pc = "scan" PROVE Scan(s)'
      BY <1>2 DEF Scan
    <3>1. \A i \in 1 .. rules'.len : Registered'[i] = heap'[rules.arr][i]
      BY <1>2, <2>4 DEF Registered
    <3>2. \A i \in 1 .. rules.len : Registered[i] = heap[rules.arr][i]
      BY <1>2 DEF Registered
    <3>3. \A i \in 1 .. rules'.len : Registered'[i] \in seen'[s].ever
      <4> SUFFICES ASSUME NEW i \in 1 .. rules'.len PROVE Registered'[i] \in seen'[s].ever
        OBVIOUS
      <4>1. CASE i = NextSlot
        BY <1>4, <2>1, <2>3, <3>1, <4>1
      <4>2. CASE i # NextSlot
        <5>1. rules.len \in Nat
          BY <1>1 DEF Typed
        <5>2. i \in 1 .. rules.len
          BY <2>1, <2>4, <4>2, <5>1
        <5>3. Registered'[i] = Registered[i]
          BY <1>6, <2>1, <2>3, <3>1, <3>2, <4>2, <5>1, <5>2, <1>1 DEF Header
        <5> QED
          BY <1>1, <1>4, <5>2, <5>3 DEF Scan
      <4> QED
        BY <4>1, <4>2
    <3> QED
      BY <1>1, <1>2, <2>3, <3>3 DEF Scan
  <2>7. Typed'
    BY <1>1, <1>4, <2>3, <2>4 DEF AddRule, Typed, journal
  <2> QED
    BY <1>5, <2>5, <2>6, <2>7 DEF IInv
<1>7. CASE rules.len = Len(heap[rules.arr]) /\ NewArray(Append(Registered, r))
  <2> DEFINE list == Append(Registered, r)
  <2>1. list \in Seq(Rules) /\ \A i \in 1 .. Len(list) : list[i] = r \/ \E k \in 1 .. rules.len : list[i] = Registered[k]
    <3>1. list \in Seq(Rules) /\ Len(list) = rules.len + 1
      BY <1>3
    <3>2. ASSUME NEW i \in 1 .. Len(list), i # Len(list)
          PROVE  i \in 1 .. rules.len /\ list[i] = Registered[i]
      BY <1>3, <3>1, <3>2
    <3>3. list[Len(list)] = r
      BY <1>3, <3>1
    <3> QED
      BY <3>1, <3>2, <3>3
  <2>2. PICK spare \in Slack : heap' = Append(heap, Array(list, spare))
    BY <1>7 DEF NewArray
  <2>3. rules' = [arr |-> Len(heap) + 1, len |-> Len(list)]
    BY <1>7 DEF NewArray
  <2> HIDE DEF list
  <2>4. ASSUME NEW s \in Sessions, match[s].pc = "scan"
        PROVE  seen[s].ever \subseteq seen'[s].ever /\ \A i \in 1 .. Len(list) : list[i] \in seen'[s].ever
    BY <1>1, <1>4, <2>1, <2>4 DEF Scan
  <2>5. spare \in Nat
    BY SlackAssumption
  <2>6. /\ Array(list, spare) \in Seq(Slots) /\ Len(list) <= Len(Array(list, spare))
        /\ \A i \in 1 .. Len(list) : Array(list, spare)[i] = list[i]
    <3>1. /\ Array(list, spare) \in Seq(Slots) /\ Len(Array(list, spare)) = Len(list) + spare
          /\ \A i \in 1 .. Len(list) : Array(list, spare)[i] = list[i]
      BY <2>1, <2>5, NewArrayFits
    <3>2. Len(list) \in Nat
      BY <2>1
    <3> QED
      BY <2>5, <3>1, <3>2
  <2>7. /\ heap' \in Seq(Seq(Slots)) /\ rules' \in [arr : Nat, len : Nat]
        /\ Header' /\ \A s \in Sessions : Scan(s)'
    BY <1>1, <1>2, <2>1, <2>2, <2>3, <2>4, <2>6, NewArrayStep
  <2>8. Typed'
    BY <1>1, <1>4, <2>7 DEF AddRule, Typed, journal
  <2> QED
    BY <1>5, <2>7, <2>8 DEF IInv
<1> QED
  BY <1>6, <1>7 DEF AddRule
(* ClearRules leaves the old array to whoever scans it.                    *)
LEMMA ClearStep == IInv /\ ClearRules => IInv'
<1> SUFFICES ASSUME IInv, ClearRules PROVE IInv'
  OBVIOUS
<1>1. Typed /\ Header /\ \A s \in Sessions : Scan(s) /\ Picked(s)
  BY DEF IInv
<1>2. /\ ~deletion.on /\ deletion' = deletion /\ match' = match
      /\ Parts(ToSet(Registered), FALSE)
      /\ heap' = Append(heap, <<>>) /\ rules' = [arr |-> Len(heap) + 1, len |-> 0]
  BY DEF ClearRules, Operation, Unlocked
<1>3. Registered \in Seq(Rules) /\ Len(Registered) = rules.len
  BY <1>1, RegisteredSeq
<1>4. ToSet(Registered) \in SUBSET Rules
  BY <1>3 DEF ToSet
<1>5. seen' \in [Sessions -> Watch] /\ \A s \in Sessions : seen'[s].ever = seen[s].ever
  BY <1>1, <1>2, <1>4, PartsSeen
<1> DEFINE none == <<>>
<1>6. /\ none \in Seq(Slots) /\ none \in Seq(Rules)
      /\ Len(none) <= Len(none) /\ \A i \in 1 .. Len(none) : FALSE
  OBVIOUS
<1>7. heap' = Append(heap, none) /\ rules' = [arr |-> Len(heap) + 1, len |-> Len(none)]
  BY <1>2
<1> HIDE DEF none
<1>8. /\ heap' \in Seq(Seq(Slots)) /\ rules' \in [arr : Nat, len : Nat]
      /\ Header' /\ \A s \in Sessions : Scan(s)'
  <2>1. \A i \in 1 .. Len(none) : none[i] = none[i]
    OBVIOUS
  <2>2. \A s \in Sessions : match[s].pc = "scan" =>
           seen[s].ever \subseteq seen'[s].ever /\ \A i \in 1 .. Len(none) : none[i] \in seen'[s].ever
    BY <1>5, <1>6
  <2> QED
    BY <1>1, <1>2, <1>6, <1>7, <2>1, <2>2, NewArrayStep
<1>9. Typed'
  BY <1>1, <1>5, <1>8 DEF ClearRules, Typed, journal
<1>10. \A s \in Sessions : Picked(s)'
  BY <1>1, <1>2, <1>5 DEF Picked
<1> QED
  BY <1>8, <1>9, <1>10 DEF IInv

(* DeleteRule: taking the lock and finding the rule.                       *)
LEMMA DeleteFoundStep == IInv /\ (\E id \in Ids : DeleteFound(id)) => IInv'
<1> SUFFICES ASSUME IInv, NEW id \in Ids, DeleteFound(id) PROVE IInv'
  OBVIOUS
<1>1. Typed /\ Header /\ \A s \in Sessions : Scan(s) /\ Picked(s)
  BY DEF IInv
<1>2. PICK i \in 1 .. rules.len :
        /\ deletion' = [on |-> TRUE, todo |-> Shifted(i, rules.len), src |-> Registered]
        /\ Parts({Registered[i]}, TRUE)
  BY DEF DeleteFound
<1>3. Registered \in Seq(Rules) /\ Len(Registered) = rules.len
  BY <1>1, RegisteredSeq
<1>4. {Registered[i]} \in SUBSET Rules
  BY <1>3
<1>5. seen' \in [Sessions -> Watch] /\ \A s \in Sessions : seen'[s].ever = seen[s].ever
  BY <1>1, <1>2, <1>4, PartsSeen
<1>6. rules.len \in Nat
  BY <1>1 DEF Typed
<1>7. /\ deletion' \in [on : BOOLEAN, todo : SUBSET Nat, src : Seq(Rules)]
      /\ deletion'.on /\ deletion'.src = Registered /\ deletion'.todo \subseteq 1 .. (rules.len - 1)
  BY <1>2, <1>3, <1>6 DEF Shifted
<1>8. heap' = heap /\ rules' = rules /\ match' = match /\ ~deletion.on
  BY DEF DeleteFound, Operation, Unlocked
<1>9. Registered' = Registered
  BY <1>7, <1>8 DEF Registered
<1>10. \A k \in 1 .. rules.len : heap[rules.arr][k] = Registered[k]
  BY <1>8 DEF Registered
<1>11. Header'
  BY <1>1, <1>3, <1>6, <1>7, <1>8, <1>10, SMTT(30) DEF Header
<1>12. Typed'
  BY <1>1, <1>5, <1>7, <1>8 DEF DeleteFound, Typed, journal
<1>13. \A s \in Sessions : Scan(s)' /\ Picked(s)'
  BY <1>1, <1>5, <1>8, <1>9 DEF Scan, Picked
<1> QED
  BY <1>11, <1>12, <1>13 DEF IInv

(* DeleteRule: one slot is stored; the rule stored is one that was there.  *)
LEMMA MoveSlotStep == IInv /\ MoveSlot => IInv'
<1> SUFFICES ASSUME IInv, MoveSlot PROVE IInv'
  OBVIOUS
<1>1. Typed /\ Header /\ \A s \in Sessions : Scan(s) /\ Picked(s)
  BY DEF IInv
<1>2. PICK j \in deletion.todo :
        /\ heap' = [heap EXCEPT ![rules.arr][j] = deletion.src[j + 1]]
        /\ deletion' = [deletion EXCEPT !.todo = @ \ {j}]
  BY DEF MoveSlot
<1>3. rules' = rules /\ match' = match /\ seen' = seen
  BY DEF MoveSlot, callers
<1>4. deletion \in [on : BOOLEAN, todo : SUBSET Nat, src : Seq(Rules)] /\ rules.len \in Nat
  BY <1>1 DEF Typed
<1>5. /\ deletion.on /\ Len(deletion.src) = rules.len
      /\ j \in 1 .. (rules.len - 1) /\ deletion.todo \subseteq 1 .. (rules.len - 1)
  BY <1>1, <1>2 DEF Header
<1> DEFINE r == deletion.src[j + 1]
<1>6. j + 1 \in 1 .. rules.len /\ r \in Rules /\ r \in {deletion.src[k] : k \in 1 .. rules.len}
  BY <1>4, <1>5
<1>7. /\ deletion' \in [on : BOOLEAN, todo : SUBSET Nat, src : Seq(Rules)]
      /\ deletion'.on /\ deletion'.src = deletion.src /\ deletion'.todo \subseteq 1 .. (rules.len - 1)
  BY <1>2, <1>4, <1>5
<1>8. Registered' = Registered /\ Registered = deletion.src
  BY <1>5, <1>7 DEF Registered
<1>9. Len(heap[rules.arr]) \in Nat /\ rules.len <= Len(heap[rules.arr])
  BY <1>1 DEF Typed, Header
<1>10. j \in 1 .. Len(heap[rules.arr])
  BY <1>4, <1>5, <1>9
<1>11. \A s \in Sessions : match[s].pc = "scan" => seen[s].ever \subseteq seen'[s].ever /\ r \in seen'[s].ever
  BY <1>1, <1>3, <1>6, <1>8 DEF Scan
<1>12. heap' = [heap EXCEPT ![rules.arr][j] = r]
  BY <1>2
<1> HIDE DEF r
<1>13. /\ heap' \in Seq(Seq(Slots))
       /\ Len(heap') = Len(heap)
       /\ Len(heap'[rules.arr]) = Len(heap[rules.arr])
       /\ \A i \in 1 .. Len(heap[rules.arr]) :
            heap'[rules.arr][i] = IF i = j THEN r ELSE heap[rules.arr][i]
       /\ \A s \in Sessions : match[s].pc = "scan" =>
            /\ match[s].arr \in 1 .. Len(heap')
            /\ match[s].len <= Len(heap'[match[s].arr])
            /\ \A i \in 1 .. match[s].len : heap'[match[s].arr][i] \in seen'[s].ever
  BY <1>1, <1>3, <1>6, <1>10, <1>11, <1>12, StoreStep
<1>14. \A i \in 1 .. rules.len : /\ heap'[rules.arr][i] \in Rules
                                 /\ heap'[rules.arr][i] \in {deletion.src[k] : k \in 1 .. rules.len}
  <2> SUFFICES ASSUME NEW i \in 1 .. rules.len
               PROVE  /\ heap'[rules.arr][i] \in Rules
                      /\ heap'[rules.arr][i] \in {deletion.src[k] : k \in 1 .. rules.len}
    OBVIOUS
  <2>1. i \in 1 .. Len(heap[rules.arr])
    BY <1>4, <1>9
  <2>2. heap[rules.arr][i] \in Rules /\ heap[rules.arr][i] \in {deletion.src[k] : k \in 1 .. rules.len}
    BY <1>1, <1>5 DEF Header
  <2> QED
    BY <1>6, <1>13, <2>1, <2>2
<1>15. Header'
  BY <1>1, <1>3, <1>5, <1>7, <1>13, <1>14 DEF Header
<1>16. Typed'
  BY <1>1, <1>3, <1>7, <1>13 DEF MoveSlot, Typed, journal, callers
<1>17. \A s \in Sessions : Scan(s)' /\ Picked(s)'
  BY <1>1, <1>3, <1>8, <1>13 DEF Scan, Picked
<1> QED
  BY <1>15, <1>16, <1>17 DEF IInv

(* DeleteRule: the header is shortened; what it still covers was there.    *)
LEMMA EndDeleteStep == IInv /\ EndDelete => IInv'
<1> SUFFICES ASSUME IInv, EndDelete PROVE IInv'
  OBVIOUS
<1>1. Typed /\ Header /\ \A s \in Sessions : Scan(s) /\ Picked(s)
  BY DEF IInv
<1>2. /\ deletion.on /\ rules' = [rules EXCEPT !.len = @ - 1] /\ deletion' = NoDeletion
      /\ heap' = heap /\ match' = match /\ seen' = seen
  BY DEF EndDelete, callers
<1>3. rules \in [arr : Nat, len : Nat] /\ rules.len >= 1
  BY <1>1, <1>2 DEF Typed, Header
<1>4. rules'.arr = rules.arr /\ rules'.len = rules.len - 1 /\ rules' \in [arr : Nat, len : Nat]
  BY <1>2, <1>3
<1>5. /\ NoDeletion \in [on : BOOLEAN, todo : SUBSET Nat, src : Seq(Rules)]
      /\ ~NoDeletion.on /\ NoDeletion.todo = {}
  BY DEF NoDeletion
<1>6. Len(heap[rules.arr]) \in Nat
  BY <1>1 DEF Typed, Header
<1>7. Header'
  BY <1>1, <1>2, <1>3, <1>4, <1>5, <1>6 DEF Header
<1>8. ASSUME NEW s \in Sessions, match[s].pc = "scan", NEW i \in 1 .. rules'.len
      PROVE  Registered'[i] \in seen'[s].ever
  <2>1. i \in 1 .. rules.len /\ Registered'[i] = heap[rules.arr][i]
    BY <1>2, <1>3, <1>4, <1>5 DEF Registered
  <2>2. PICK k \in 1 .. rules.len : heap[rules.arr][i] = deletion.src[k]
    BY <1>1, <1>2, <2>1 DEF Header
  <2>3. Registered[k] = deletion.src[k]
    BY <1>2 DEF Registered
  <2> QED
    BY <1>1, <1>2, <1>8, <2>1, <2>2, <2>3 DEF Scan
<1>9. \A s \in Sessions : Scan(s)' /\ Picked(s)'
  BY <1>1, <1>2, <1>8 DEF Scan, Picked
<1>10. Typed'
  BY <1>1, <1>2, <1>4, <1>5 DEF EndDelete, Typed, journal, callers
<1> QED
  BY <1>7, <1>9, <1>10 DEF IInv
-----------------------------------------------------------------------------
(* Match copies the header: what it covers is registered at this moment.   *)
LEMMA BeginStep == IInv /\ (\E s \in Sessions : \E q \in Queries : Begin(s, q)) => IInv'
<1> SUFFICES ASSUME IInv, NEW s \in Sessions, NEW q \in Queries, Begin(s, q) PROVE IInv'
  OBVIOUS
<1>1. Typed /\ Header /\ \A t \in Sessions : Scan(t) /\ Picked(t)
  BY DEF IInv
<1> DEFINE call  == [NoMatch EXCEPT !.pc = "scan", !.q = q, !.idx = 1, !.arr = rules.arr, !.len = rules.len]
           watch == [ever |-> ToSet(Registered), stay |-> ToSet(Registered),
                     list |-> Registered, disturbed |-> FALSE]
<1>2. /\ ~deletion.on /\ match' = [match EXCEPT ![s] = call] /\ seen' = [seen EXCEPT ![s] = watch]
      /\ UNCHANGED <<heap, rules, deletion, fresh, hits, logs, clock>>
  BY DEF Begin, Unlocked, registry, journal
<1>3. Registered \in Seq(Rules) /\ Len(Registered) = rules.len /\ rules \in [arr : Nat, len : Nat]
  BY <1>1, RegisteredSeq DEF Typed
<1>4. ToSet(Registered) \in SUBSET Rules /\ \A i \in 1 .. rules.len : Registered[i] \in ToSet(Registered)
  BY <1>3 DEF ToSet
<1>5. /\ call \in Call /\ call.pc = "scan" /\ call.q = q /\ call.idx = 1
      /\ call.arr = rules.arr /\ call.len = rules.len
  BY <1>3 DEF NoMatch, Call, MatchPC
<1>6. watch \in Watch /\ watch.ever = ToSet(Registered)
  BY <1>3, <1>4 DEF Watch
<1> HIDE DEF call, watch
<1>7. Registered' = Registered /\ \A i \in 1 .. rules.len : Registered[i] = heap[rules.arr][i]
  BY <1>2 DEF Registered
<1>8. /\ match' \in [Sessions -> Call] /\ seen' \in [Sessions -> Watch]
      /\ match'[s] = call /\ seen'[s] = watch
      /\ \A t \in Sessions \ {s} : match'[t] = match[t] /\ seen'[t] = seen[t]
  BY <1>1, <1>2, <1>5, <1>6 DEF Typed
<1>9. Typed'
  BY <1>1, <1>2, <1>5, <1>8 DEF Typed
<1>10. Header'
  BY <1>1, <1>2 DEF Header
<1>11. ASSUME NEW t \in Sessions PROVE Scan(t)' /\ Picked(t)'
  <2>1. CASE t = s
    BY <1>1, <1>2, <1>3, <1>4, <1>5, <1>6, <1>7, <1>8, <2>1 DEF Scan, Picked, Header
  <2>2. CASE t # s
    BY <1>1, <1>2, <1>7, <1>8, <2>2 DEF Scan, Picked
  <2> QED
    BY <2>1, <2>2
<1> QED
  BY <1>9, <1>10, <1>11 DEF IInv

(* A step of one running Match that changes its own record alone.          *)
LEMMA CallStep ==
  ASSUME IInv, NEW s \in Sessions, NEW call \in Call,
         match' = [match EXCEPT ![s] = call],
         UNCHANGED <<heap, rules, deletion, fresh, logs, seen>>,
         hits' \in [Rules -> Nat], clock' \in Nat,
         call.q = match[s].q, match[s].q \in Queries,
         call.pc \in {"hit", "stamp", "append"} => call.found \in Names,
         Scan(s)', Picked(s)'
  PROVE  IInv'
<1>1. Typed /\ Header /\ \A t \in Sessions : Scan(t) /\ Picked(t)
  BY DEF IInv
<1>2. /\ match' \in [Sessions -> Call] /\ match'[s] = call
      /\ \A t \in Sessions \ {s} : match'[t] = match[t]
  BY <1>1 DEF Typed
<1>3. Registered' = Registered
  BY DEF Registered
<1>4. Typed'
  BY <1>1, <1>2 DEF Typed
<1>5. Header'
  BY <1>1 DEF Header
<1>6. ASSUME NEW t \in Sessions, t # s PROVE Scan(t)' /\ Picked(t)'
  BY <1>1, <1>2, <1>3, <1>6 DEF Scan, Picked
<1> QED
  BY <1>4, <1>5, <1>6 DEF IInv

(* The loop of Match: the slot it reads holds a rule it may return.        *)
LEMMA ScanStep == IInv /\ (\E s \in Sessions : Skip(s) \/ Pick(s) \/ FallBack(s)) => IInv'
<1> SUFFICES ASSUME IInv, NEW s \in Sessions, Skip(s) \/ Pick(s) \/ FallBack(s) PROVE IInv'
  OBVIOUS
<1>1. Typed /\ Header /\ Scan(s) /\ match[s] \in Call /\ hits \in [Rules -> Nat] /\ clock \in Nat
  BY DEF IInv, Typed
<1>2. /\ match[s].pc = "scan" /\ match[s].q \in Queries
      /\ UNCHANGED <<heap, rules, deletion, fresh, logs, seen, hits, clock>>
  BY <1>1 DEF Skip, Pick, FallBack, registry, journal, Typed
<1>3. Registered' = Registered
  BY <1>2 DEF Registered
<1>4. CASE Skip(s)
  <2> DEFINE call == [match[s] EXCEPT !.idx = @ + 1]
  <2>1. match' = [match EXCEPT ![s] = call] /\ match[s].idx <= match[s].len
    BY <1>4 DEF Skip
  <2>2. /\ call \in Call /\ call.pc = "scan" /\ call.q = match[s].q /\ call.idx = match[s].idx + 1
        /\ call.arr = match[s].arr /\ call.len = match[s].len
    BY <1>1, <1>2 DEF Call
  <2> HIDE DEF call
  <2>3. match'[s] = call
    BY <1>1, <2>1 DEF Typed
  <2>4. Scan(s)' /\ Picked(s)'
    <3>1. call.idx \in 1 .. (call.len + 1)
      BY <1>1, <1>2, <2>1, <2>2 DEF Scan, Call
    <3> QED
      BY <1>1, <1>2, <1>3, <2>2, <2>3, <3>1 DEF Scan, Picked
  <2> QED
    BY <1>1, <1>2, <2>1, <2>2, <2>4, CallStep
<1>5. CASE Pick(s)
  <2> DEFINE call == [match[s] EXCEPT !.pc = "hit", !.found = Slot(s)]
  <2>1. /\ match' = [match EXCEPT ![s] = call] /\ match[s].idx <= match[s].len
        /\ <<Slot(s), match[s].q>> \in RuleMatches
    BY <1>5 DEF Pick
  <2>2. match[s].idx \in 1 .. match[s].len
    BY <1>1, <1>2, <2>1 DEF Scan, Call
  <2>3. Slot(s) \in seen[s].ever /\ Slot(s) \in Rules
    BY <1>1, <1>2, <2>2 DEF Scan, Slot, Typed, Watch
  <2>4. call \in Call /\ call.pc = "hit" /\ call.q = match[s].q /\ call.found = Slot(s)
    BY <1>1, <2>3 DEF Call, MatchPC, Names
  <2> HIDE DEF call
  <2>5. match'[s] = call
    BY <1>1, <2>1 DEF Typed
  <2>6. Scan(s)' /\ Picked(s)' /\ call.found \in Names
    BY <1>2, <2>1, <2>3, <2>4, <2>5 DEF Scan, Picked, Names
  <2> QED
    BY <1>1, <1>2, <2>1, <2>4, <2>6, CallStep
<1>6. CASE FallBack(s)
  <2> DEFINE call == [match[s] EXCEPT !.pc = "stamp", !.found = AnswerOf[match[s].q]]
  <2>1. match' = [match EXCEPT ![s] = call]
    BY <1>6 DEF FallBack
  <2>2. /\ call \in Call /\ call.pc = "stamp" /\ call.q = match[s].q /\ call.found \in Names
    BY <1>1, <1>2, AnswerAssumption DEF Call, MatchPC, Names
  <2> HIDE DEF call
  <2>3. match'[s] = call
    BY <1>1, <2>1 DEF Typed
  <2>4. Scan(s)' /\ Picked(s)'
    BY <2>2, <2>3 DEF Scan, Picked
  <2> QED
    BY <1>1, <1>2, <2>1, <2>2, <2>4, CallStep
<1> QED
  BY <1>4, <1>5, <1>6
(* Counting the hit and stamping the entry.                                *)
LEMMA CountStep == IInv /\ (\E s \in Sessions : IncrementHits(s) \/ Stamp(s)) => IInv'
<1> SUFFICES ASSUME IInv, NEW s \in Sessions, IncrementHits(s) \/ Stamp(s) PROVE IInv'
  OBVIOUS
<1>1. Typed /\ match[s] \in Call /\ hits \in [Rules -> Nat] /\ clock \in Nat
  BY DEF IInv, Typed
<1>2. /\ match[s].pc \in {"hit", "stamp"} /\ match[s].q \in Queries /\ match[s].found \in Names
      /\ UNCHANGED <<heap, rules, deletion, fresh, logs, seen>>
  BY <1>1 DEF IncrementHits, Stamp, registry, Typed
<1>3. CASE IncrementHits(s)
  <2> DEFINE call == [match[s] EXCEPT !.pc = "stamp"]
  <2>1. /\ match' = [match EXCEPT ![s] = call] /\ clock' = clock
        /\ hits' = [hits EXCEPT ![match[s].found] = @ + 1]
    BY <1>3 DEF IncrementHits
  <2>2. call \in Call /\ call.pc = "stamp" /\ call.q = match[s].q /\ call.found \in Names
    BY <1>1, <1>2 DEF Call, MatchPC
  <2> HIDE DEF call
  <2>3a. match'[s] = call
    BY <1>1, <2>1 DEF Typed
  <2>3b. hits' \in [Rules -> Nat]
    <3> DEFINE r == match[s].found
    <3>1. hits' = [hits EXCEPT ![r] = hits[r] + 1] /\ hits \in [Rules -> Nat]
      BY <1>1, <2>1
    <3> HIDE DEF r
    <3>2. \A x \in Rules : hits'[x] = IF x = r THEN hits[r] + 1 ELSE hits[x]
      BY <3>1
    <3>3. hits' = [x \in Rules |-> hits'[x]]
      BY <3>1
    <3>4. \A x \in Rules : hits'[x] \in Nat
      BY <3>1, <3>2
    <3> QED
      BY <3>3, <3>4
  <2>3. match'[s] = call /\ hits' \in [Rules -> Nat]
    BY <2>3a, <2>3b
  <2>4. Scan(s)' /\ Picked(s)'
    BY <2>2, <2>3 DEF Scan, Picked
  <2> QED
    BY <1>1, <1>2, <2>1, <2>2, <2>3, <2>4, CallStep
<1>4. CASE Stamp(s)
  <2> DEFINE call == [match[s] EXCEPT !.pc = "append", !.ts = clock]
  <2>1. match' = [match EXCEPT ![s] = call] /\ clock' = clock + 1 /\ hits' = hits
    BY <1>4 DEF Stamp
  <2>2. call \in Call /\ call.pc = "append" /\ call.q = match[s].q /\ call.found \in Names
    BY <1>1, <1>2 DEF Call, MatchPC
  <2> HIDE DEF call
  <2>3. match'[s] = call /\ clock' \in Nat
    BY <1>1, <2>1 DEF Typed
  <2>4. Scan(s)' /\ Picked(s)'
    BY <2>2, <2>3 DEF Scan, Picked
  <2> QED
    BY <1>1, <1>2, <2>1, <2>2, <2>3, <2>4, CallStep
<1> QED
  BY <1>3, <1>4

(* The entry goes into the log and the call ends.                          *)
LEMMA LogStep == IInv /\ (\E s \in Sessions : LogQuery(s)) => IInv'
<1> SUFFICES ASSUME IInv, NEW s \in Sessions, LogQuery(s) PROVE IInv'
  OBVIOUS
<1>1. Typed /\ Header /\ \A t \in Sessions : Scan(t) /\ Picked(t)
  BY DEF IInv
<1>2. /\ match[s].pc = "append" /\ logs' = Append(logs, Entry(s))
      /\ match' = [match EXCEPT ![s] = NoMatch] /\ seen' = [seen EXCEPT ![s] = NoWatch]
      /\ UNCHANGED <<heap, rules, deletion, fresh, hits, clock>>
  BY DEF LogQuery, registry
<1>3. NoMatch \in Call /\ NoMatch.pc = "idle" /\ NoWatch \in Watch
  BY DEF NoMatch, NoWatch, Call, Watch, MatchPC
<1>4. Entry(s) \in [by : Sessions, rule : Names, ts : Nat]
  BY <1>1, <1>2 DEF Entry, Typed, Call
<1>5. /\ match' \in [Sessions -> Call] /\ match'[s] = NoMatch
      /\ seen' \in [Sessions -> Watch]
      /\ \A t \in Sessions \ {s} : match'[t] = match[t] /\ seen'[t] = seen[t]
  BY <1>1, <1>2, <1>3 DEF Typed
<1>6. Registered' = Registered
  BY <1>2 DEF Registered
<1>7. logs' \in Seq([by : Sessions, rule : Names, ts : Nat])
  BY <1>1, <1>2, <1>4 DEF Typed
<1>8. Typed'
  BY <1>1, <1>2, <1>3, <1>5, <1>7 DEF Typed
<1>9. Header'
  BY <1>1, <1>2 DEF Header
<1>10. ASSUME NEW t \in Sessions PROVE Scan(t)' /\ Picked(t)'
  <2>1. CASE t = s
    BY <1>3, <1>5, <2>1 DEF Scan, Picked
  <2>2. CASE t # s
    BY <1>1, <1>2, <1>5, <1>6, <2>2 DEF Scan, Picked
  <2> QED
    BY <2>1, <2>2
<1> QED
  BY <1>8, <1>9, <1>10 DEF IInv

(* Steps that touch neither the registry nor a running call.               *)
LEMMA AsideStep ==
  ASSUME IInv, UNCHANGED <<heap, rules, deletion, fresh, hits, clock, match, seen>>,
         logs' \in Seq([by : Sessions, rule : Names, ts : Nat])
  PROVE  IInv'
BY SMTT(30) DEF IInv, Typed, Header, Scan, Picked, Registered

(* Every step keeps the invariant.                                         *)
LEMMA StepIInv == IInv /\ [Next]_vars => IInv'
<1> SUFFICES ASSUME IInv, [Next]_vars PROVE IInv'
  OBVIOUS
<1>1. CASE \E r \in Rules : PrependRule(r)
  BY <1>1, PrependStep
<1>2. CASE \E r \in Rules : AddRule(r)
  BY <1>2, AddStep
<1>3. CASE \E id \in Ids : DeleteFound(id)
  BY <1>3, DeleteFoundStep
<1>4. CASE MoveSlot
  BY <1>4, MoveSlotStep
<1>5. CASE EndDelete
  BY <1>5, EndDeleteStep
<1>6. CASE ClearRules
  BY <1>6, ClearStep
<1>7. CASE \E id \in Ids : DeleteNotFound(id)
  BY <1>7, AsideStep DEF DeleteNotFound, journal, callers, IInv, Typed
<1>8. CASE ResetLogs
  BY <1>8, AsideStep DEF ResetLogs, registry, callers, IInv, Typed
<1>9. CASE UNCHANGED vars
  BY <1>9, AsideStep DEF vars, registry, journal, callers, IInv, Typed
<1>10. CASE \E s \in Sessions : \E q \in Queries : Begin(s, q)
  BY <1>10, BeginStep
<1>11. CASE \E s \in Sessions : Skip(s) \/ Pick(s) \/ FallBack(s)
  BY <1>11, ScanStep
<1>12. CASE \E s \in Sessions : IncrementHits(s) \/ Stamp(s)
  BY <1>12, CountStep
<1>13. CASE \E s \in Sessions : LogQuery(s)
  BY <1>13, LogStep
<1> QED
  BY <1>1, <1>2, <1>3, <1>4, <1>5, <1>6, <1>7, <1>8, <1>9, <1>10, <1>11, <1>12, <1>13
  DEF Next, Admin, Session, Idle

(* The invariant holds in every reachable state.                           *)
THEOREM Invariance == Spec => []IInv
BY InitIInv, StepIInv, PTL DEF Spec

-----------------------------------------------------------------------------
(* No header ever covers a slot without a rule, neither the current one nor*)
(* one a Match took before the array was shifted, grown or replaced        *)
(* (engine.go:60-101, 155-165).                                            *)
THEOREM TypeCorrect == Spec => []TypeOK
<1>1. IInv => TypeOK
  <2> SUFFICES ASSUME IInv PROVE TypeOK
    OBVIOUS
  <2>1. Typed /\ Header /\ \A s \in Sessions : Scan(s)
    BY DEF IInv
  <2>2. \A a \in DOMAIN heap : heap[a] \in Seq(Rules \cup {Nil})
    BY <2>1 DEF Typed, Slots
  <2>3. /\ rules.arr \in DOMAIN heap /\ rules.len \in 0 .. Len(heap[rules.arr])
        /\ deletion.todo \subseteq 1 .. (rules.len - 1)
    BY <2>1 DEF Typed, Header
  <2>4. ASSUME NEW s \in Sessions
        PROVE  /\ match[s].pc \in MatchPC /\ match[s].q \in Queries \cup {Nil}
               /\ match[s].found \in Names \cup {Nil}
               /\ match[s].pc = "scan" =>
                    /\ match[s].arr \in DOMAIN heap
                    /\ match[s].len \in 0 .. Len(heap[match[s].arr])
                    /\ match[s].idx \in 1 .. (match[s].len + 1)
                    /\ \A i \in 1 .. match[s].len : heap[match[s].arr][i] \in Rules
    BY <2>1, SMTT(30) DEF Typed, Call, Scan, Watch
  <2> QED
    BY <2>1, <2>2, <2>3, <2>4 DEF TypeOK, Typed, Header
<1> QED
  BY Invariance, <1>1, PTL

(* Match considers and returns only rules registered during the call, for  *)
(* any order in which memmove stores the slots (engine.go:75-85, 155-165). *)
THEOREM NoStrayRule == Spec => []OnlyRegistered
<1>1. IInv => OnlyRegistered
  BY SMTT(30) DEF IInv, Scan, Picked, OnlyRegistered, Slot, Typed, Call
<1> QED
  BY Invariance, <1>1, PTL

-----------------------------------------------------------------------------
(* The registry as a list.                                                 *)

(* No rule is registered that is still to be created, and a deletion under *)
(* way has found the first rule with its id, has left alone what stands    *)
(* before it, and has moved up what is not to do any more.                 *)
Distinct == \A i \in 1 .. rules.len : Registered[i] \notin fresh

Deletes(i) ==
  /\ i \in 1 .. rules.len
  /\ \A j \in 1 .. (i - 1) : IdOf[deletion.src[j]] # IdOf[deletion.src[i]]
  /\ deletion.todo \subseteq i .. (rules.len - 1)
  /\ \A j \in 1 .. (i - 1) : heap[rules.arr][j] = deletion.src[j]
  /\ \A j \in i .. (rules.len - 1) : j \notin deletion.todo => heap[rules.arr][j] = deletion.src[j + 1]

Order == Distinct /\ (deletion.on => \E i \in 1 .. rules.len : Deletes(i))

(* A list in a new array is what is registered from then on.               *)
LEMMA NewArrayList ==
  ASSUME IInv, ~deletion.on, deletion' = deletion, NEW list \in Seq(Rules), NewArray(list)
  PROVE  Registered' = list /\ rules'.len = Len(list)
<1>1. PICK spare \in Slack : heap' = Append(heap, Array(list, spare))
  BY DEF NewArray
<1>2. rules' = [arr |-> Len(heap) + 1, len |-> Len(list)]
  BY DEF NewArray
<1>3. /\ spare \in Nat /\ Array(list, spare) \in Seq(Slots)
      /\ \A i \in 1 .. Len(list) : Array(list, spare)[i] = list[i]
  BY SlackAssumption, NewArrayFits
<1>4. heap'[Len(heap) + 1] = Array(list, spare)
  BY <1>1, <1>3, Allocate DEF IInv, Typed
<1>5. Registered' = [i \in 1 .. Len(list) |-> Array(list, spare)[i]]
  BY <1>2, <1>4 DEF Registered
<1>6. list = [i \in 1 .. Len(list) |-> list[i]]
  BY LenProperties
<1> QED
  BY <1>2, <1>3, <1>5, <1>6

(* PrependRule is the Insert of the list (engine.go:67-72).                *)
LEMMA PrependIsInsert ==
  ASSUME IInv, Order, NEW r \in Rules, PrependRule(r)
  PROVE  Order' /\ List!Insert(r)
<1>1. Registered \in Seq(Rules) /\ Len(Registered) = rules.len /\ rules.len \in Nat
  BY RegisteredSeq DEF IInv, Typed
<1>2. /\ ~deletion.on /\ deletion' = deletion /\ NewArray(<<r>> \o Registered)
      /\ r \in fresh /\ fresh' = fresh \ {r}
  BY DEF PrependRule, Operation, Unlocked
<1>3. <<r>> \o Registered \in Seq(Rules)
  BY <1>1
<1>4. Registered' = <<r>> \o Registered /\ rules'.len = Len(<<r>> \o Registered)
  BY <1>2, <1>3, NewArrayList
<1>5. r \notin List!ToSet(Registered)
  BY <1>1, <1>2 DEF Order, Distinct, List!ToSet
<1>6. Distinct'
  <2> SUFFICES ASSUME NEW i \in 1 .. rules'.len
               PROVE  Registered'[i] \notin fresh'
    BY DEF Distinct
  <2>1. CASE i = 1
    BY <1>1, <1>2, <1>4, <2>1
  <2>2. CASE i # 1
    <3>1. i - 1 \in 1 .. rules.len /\ Registered'[i] = Registered[i - 1]
      BY <1>1, <1>4, <2>2
    <3> QED
      BY <1>2, <3>1 DEF Order, Distinct
  <2> QED
    BY <2>1, <2>2
<1> QED
  BY <1>2, <1>4, <1>5, <1>6 DEF Order, List!Insert

(* AddRule is its Add, into a spare slot or a new array (engine.go:61-65). *)
LEMMA AddIsAdd ==
  ASSUME IInv, Order, NEW r \in Rules, AddRule(r)
  PROVE  Order' /\ List!Add(r)
<1>1. Registered \in Seq(Rules) /\ Len(Registered) = rules.len /\ rules.len \in Nat
  BY RegisteredSeq DEF IInv, Typed
<1>2. /\ ~deletion.on /\ deletion' = deletion /\ r \in fresh /\ fresh' = fresh \ {r}
  BY DEF AddRule, Operation, Unlocked
<1>3. Registered' = Append(Registered, r) /\ rules'.len = rules.len + 1
  <2>1. CASE NewArray(Append(Registered, r))
    <3>1. Append(Registered, r) \in Seq(Rules) /\ Len(Append(Registered, r)) = rules.len + 1
      BY <1>1, AppendProperties
    <3> QED
      BY <1>2, <2>1, <3>1, NewArrayList
  <2>2. CASE /\ rules.len < Len(heap[rules.arr])
             /\ heap' = [heap EXCEPT ![rules.arr][NextSlot] = r]
             /\ rules' = [rules EXCEPT !.len = @ + 1]
    <3>1. /\ heap \in Seq(Seq(Slots)) /\ rules.arr \in 1 .. Len(heap)
          /\ rules \in [arr : Nat, len : Nat] /\ r \in Slots
      BY DEF IInv, Typed, Header, Slots
    <3>2. Len(heap[rules.arr]) \in Nat
      BY <3>1
    <3>3. rules.len + 1 \in 1 .. Len(heap[rules.arr])
      BY <1>1, <2>2, <3>2
    <3>4. \A i \in 1 .. Len(heap[rules.arr]) :
            heap'[rules.arr][i] = IF i = rules.len + 1 THEN r ELSE heap[rules.arr][i]
      BY <2>2, <3>1, <3>3, StoreSlot DEF NextSlot
    <3>5. rules'.arr = rules.arr /\ rules'.len = rules.len + 1
      BY <2>2, <3>1
    <3>6. Registered' = [i \in 1 .. (rules.len + 1) |-> heap'[rules.arr][i]]
      BY <1>2, <3>5 DEF Registered
    <3>7. \A i \in 1 .. rules.len : Registered[i] = heap[rules.arr][i]
      BY <1>2 DEF Registered
    <3>8. \A i \in 1 .. (rules.len + 1) : heap'[rules.arr][i] = IF i = rules.len + 1 THEN r ELSE Registered[i]
      BY <1>1, <3>2, <3>3, <3>4, <3>7
    <3>9. /\ Append(Registered, r) \in Seq(Rules) /\ Len(Append(Registered, r)) = rules.len + 1
          /\ \A i \in 1 .. (rules.len + 1) : Append(Registered, r)[i] = IF i = rules.len + 1 THEN r ELSE Registered[i]
      BY <1>1, AppendProperties
    <3>10. Append(Registered, r) = [i \in 1 .. (rules.len + 1) |-> Append(Registered, r)[i]]
      BY <3>9, LenProperties
    <3> QED
      BY <3>5, <3>6, <3>8, <3>9, <3>10
  <2> QED
    BY <2>1, <2>2 DEF AddRule
<1>4. r \notin List!ToSet(Registered)
  BY <1>1, <1>2 DEF Order, Distinct, List!ToSet
<1>5. Distinct'
  BY <1>1, <1>2, <1>3 DEF Order, Distinct
<1> QED
  BY <1>2, <1>3, <1>4, <1>5 DEF Order, List!Add

(* ClearRules is its Clear (engine.go:94-101).                             *)
LEMMA ClearIsClear ==
  ASSUME IInv, Order, ClearRules
  PROVE  Order' /\ List!Clear
<1>1. ~deletion.on /\ deletion' = deletion /\ rules' = [arr |-> Len(heap) + 1, len |-> 0]
  BY DEF ClearRules, Operation, Unlocked
<1>2. Registered' = <<>>
  BY <1>1 DEF Registered
<1> QED
  BY <1>1, <1>2 DEF Order, Distinct, List!Clear

(* DeleteRule changes nothing seen from outside mu until it unlocks.       *)
LEMMA DeleteFoundOrder ==
  ASSUME IInv, Order, NEW id \in Ids, DeleteFound(id)
  PROVE  Order' /\ Registered' = Registered
<1>1. rules.len \in Nat /\ ~deletion.on
  BY DEF IInv, Typed, DeleteFound, Operation, Unlocked
<1>2. PICK i \in 1 .. rules.len :
        /\ IdOf[Registered[i]] = id
        /\ \A j \in 1 .. (i - 1) : IdOf[Registered[j]] # id
        /\ deletion' = [on |-> TRUE, todo |-> Shifted(i, rules.len), src |-> Registered]
  BY DEF DeleteFound
<1>3. UNCHANGED <<heap, rules, fresh>>
  BY DEF DeleteFound
<1>4. Registered' = Registered
  BY <1>2, <1>3 DEF Registered
<1>5. \A j \in 1 .. rules.len : heap[rules.arr][j] = Registered[j]
  BY <1>1 DEF Registered
<1>6. Deletes(i)'
  BY <1>1, <1>2, <1>3, <1>5 DEF Deletes, Shifted
<1>7. Distinct'
  BY <1>3, <1>4 DEF Order, Distinct
<1> QED
  BY <1>3, <1>4, <1>6, <1>7 DEF Order

(* A slot that DeleteRule's memmove has shifted (engine.go:80) keeps the   *)
(* order, and the admin API, which waits for the lock, still sees the list *)
(* of before.                                                              *)
LEMMA MoveSlotOrder ==
  ASSUME IInv, Order, MoveSlot
  PROVE  Order' /\ Registered' = Registered
<1>1. PICK j \in deletion.todo :
        /\ heap' = [heap EXCEPT ![rules.arr][j] = deletion.src[j + 1]]
        /\ deletion' = [deletion EXCEPT !.todo = @ \ {j}]
  BY DEF MoveSlot
<1>2. UNCHANGED <<rules, fresh>>
  BY DEF MoveSlot
<1>3. /\ deletion \in [on : BOOLEAN, todo : SUBSET Nat, src : Seq(Rules)]
      /\ heap \in Seq(Seq(Slots)) /\ rules.arr \in 1 .. Len(heap) /\ rules.len \in Nat
      /\ rules.len <= Len(heap[rules.arr])
  BY DEF IInv, Typed, Header
<1>4. deletion.on /\ j \in 1 .. (rules.len - 1) /\ Len(deletion.src) = rules.len
  BY DEF IInv, Header
<1>5. deletion'.on /\ deletion'.src = deletion.src /\ deletion'.todo = deletion.todo \ {j}
  BY <1>1, <1>3, <1>4
<1>6. Registered' = Registered
  BY <1>4, <1>5 DEF Registered
<1>7. PICK i \in 1 .. rules.len : Deletes(i)
  BY <1>4 DEF Order
<1>8. \A k \in 1 .. rules.len : heap'[rules.arr][k] = IF k = j THEN deletion.src[j + 1] ELSE heap[rules.arr][k]
  <2>1. deletion.src[j + 1] \in Slots
    BY <1>3, <1>4 DEF Slots
  <2>2. Len(heap[rules.arr]) \in Nat
    BY <1>3
  <2>3. j \in 1 .. Len(heap[rules.arr])
    BY <1>3, <1>4, <2>2
  <2>4. \A k \in 1 .. Len(heap[rules.arr]) :
          heap'[rules.arr][k] = IF k = j THEN deletion.src[j + 1] ELSE heap[rules.arr][k]
    BY <1>1, <1>3, <2>1, <2>3, StoreSlot
  <2> QED
    BY <1>3, <2>2, <2>4
<1>9. Deletes(i)'
  <2>1. j \in i .. (rules.len - 1) /\ i \in Int
    BY <1>3, <1>7 DEF Deletes
  <2>2. ASSUME NEW k \in 1 .. (i - 1)
        PROVE  heap'[rules.arr][k] = deletion.src[k]
    <3>1. k \in 1 .. rules.len /\ k # j
      BY <1>3, <2>1
    <3> QED
      BY <1>7, <1>8, <3>1 DEF Deletes
  <2>3. ASSUME NEW k \in i .. (rules.len - 1), k \notin deletion'.todo
        PROVE  heap'[rules.arr][k] = deletion.src[k + 1]
    <3>1. k \in 1 .. rules.len
      BY <1>3, <2>1
    <3>2. CASE k = j
      BY <1>8, <3>1, <3>2
    <3>3. CASE k # j
      BY <1>5, <1>7, <1>8, <2>3, <3>1, <3>3 DEF Deletes
    <3> QED
      BY <3>2, <3>3
  <2> QED
    BY <1>2, <1>5, <1>7, <2>2, <2>3 DEF Deletes
<1>10. Distinct'
  BY <1>2, <1>6 DEF Order, Distinct
<1> QED
  BY <1>2, <1>6, <1>9, <1>10 DEF Order

(* When it unlocks, what it has found is taken out (engine.go:74-92).      *)
LEMMA EndDeleteIsDelete ==
  ASSUME IInv, Order, EndDelete
  PROVE  Order' /\ \E id \in Ids : List!Delete(id)
<1>1. /\ deletion.on /\ deletion.todo = {} /\ rules' = [rules EXCEPT !.len = @ - 1]
      /\ deletion' = NoDeletion /\ UNCHANGED <<heap, fresh>>
  BY DEF EndDelete
<1>2. /\ rules \in [arr : Nat, len : Nat] /\ deletion.src \in Seq(Rules)
      /\ Len(deletion.src) = rules.len /\ rules.len >= 1
  BY <1>1 DEF IInv, Typed, Header
<1>3. PICK i \in 1 .. rules.len : Deletes(i)
  BY <1>1 DEF Order
<1>4. Registered = deletion.src
  BY <1>1 DEF Registered
<1>5. rules'.len = rules.len - 1 /\ rules'.arr = rules.arr /\ ~deletion'.on
  BY <1>1, <1>2 DEF NoDeletion
<1>6. Registered' = [k \in 1 .. (rules.len - 1) |-> heap[rules.arr][k]]
  BY <1>1, <1>5 DEF Registered
<1>7. \A k \in 1 .. (rules.len - 1) : heap[rules.arr][k] = IF k < i THEN deletion.src[k] ELSE deletion.src[k + 1]
  BY <1>1, <1>2, <1>3 DEF Deletes
<1> DEFINE before == SubSeq(deletion.src, 1, i - 1)
           behind == SubSeq(deletion.src, i + 1, rules.len)
<1>8. /\ before \in Seq(Rules) /\ Len(before) = i - 1 /\ \A k \in 1 .. (i - 1) : before[k] = deletion.src[k]
      /\ behind \in Seq(Rules) /\ Len(behind) = rules.len - i
      /\ \A k \in 1 .. (rules.len - i) : behind[k] = deletion.src[i + k]
  <2>1. \A k \in 1 .. rules.len : deletion.src[k] \in Rules
    BY <1>2
  <2>2. i - 1 \in Int /\ i + 1 \in Int /\ rules.len \in Int /\ 1 \in Int
    BY <1>2
  <2>3. /\ \A k \in 1 .. (i - 1) : deletion.src[k] \in Rules
        /\ \A k \in (i + 1) .. rules.len : deletion.src[k] \in Rules
    BY <1>2, <2>1
  <2>4. /\ before \in Seq(Rules) /\ Len(before) = (IF 1 <= i - 1 THEN i - 1 - 1 + 1 ELSE 0)
        /\ \A k \in 1 .. (i - 1 - 1 + 1) : before[k] = deletion.src[1 + k - 1]
    BY <2>2, <2>3, SubSeqProperties
  <2>5. /\ behind \in Seq(Rules) /\ Len(behind) = (IF i + 1 <= rules.len THEN rules.len - (i + 1) + 1 ELSE 0)
        /\ \A k \in 1 .. (rules.len - (i + 1) + 1) : behind[k] = deletion.src[(i + 1) + k - 1]
    BY <2>2, <2>3, SubSeqProperties
  <2> HIDE DEF before, behind
  <2>6. i \in Int /\ rules.len \in Int /\ 1 <= i /\ i <= rules.len
    BY <1>2
  <2>7. Len(before) = i - 1 /\ \A k \in 1 .. (i - 1) : before[k] = deletion.src[k]
    <3>1. ASSUME NEW k \in 1 .. (i - 1)
          PROVE  before[k] = deletion.src[k]
      <4>1. k \in 1 .. (i - 1 - 1 + 1) /\ 1 + k - 1 = k
        BY <2>6
      <4> QED
        BY <2>4, <4>1, Zenon
    <3>2. Len(before) = i - 1
      BY <2>4, <2>6
    <3> QED
      BY <3>1, <3>2
  <2>8. Len(behind) = rules.len - i /\ \A k \in 1 .. (rules.len - i) : behind[k] = deletion.src[i + k]
    <3>1. ASSUME NEW k \in 1 .. (rules.len - i)
          PROVE  behind[k] = deletion.src[i + k]
      <4>1. k \in 1 .. (rules.len - (i + 1) + 1) /\ (i + 1) + k - 1 = i + k
        BY <2>6
      <4> QED
        BY <2>5, <4>1, Zenon
    <3>2. Len(behind) = rules.len - i
      BY <2>5, <2>6
    <3> QED
      BY <3>1, <3>2
  <2> QED
    BY <2>4, <2>5, <2>7, <2>8
<1>9. List!RemoveAt(Registered, i) = before \o behind
  BY <1>2, <1>4 DEF List!RemoveAt
<1> HIDE DEF before, behind
<1>10. /\ before \o behind \in Seq(Rules) /\ Len(before \o behind) = rules.len - 1
       /\ \A k \in 1 .. (rules.len - 1) :
            (before \o behind)[k] = IF k < i THEN deletion.src[k] ELSE deletion.src[k + 1]
  <2>1. /\ before \o behind \in Seq(Rules) /\ Len(before \o behind) = Len(before) + Len(behind)
        /\ \A k \in 1 .. (Len(before) + Len(behind)) :
             (before \o behind)[k] = IF k <= Len(before) THEN before[k] ELSE behind[k - Len(before)]
    BY <1>8, ConcatProperties
  <2>2. Len(before) + Len(behind) = rules.len - 1
    BY <1>2, <1>8
  <2>3. ASSUME NEW k \in 1 .. (rules.len - 1)
        PROVE  (before \o behind)[k] = IF k < i THEN deletion.src[k] ELSE deletion.src[k + 1]
    <3>1. CASE k < i
      BY <1>2, <1>8, <2>1, <2>2, <3>1
    <3>2. CASE k >= i
      <4>1. k - (i - 1) \in 1 .. (rules.len - i) /\ i + (k - (i - 1)) = k + 1
        BY <1>2, <3>2
      <4>2. behind[k - (i - 1)] = deletion.src[k + 1]
        BY <1>8, <4>1
      <4>3. (before \o behind)[k] = behind[k - (i - 1)]
        BY <1>2, <1>8, <2>1, <2>2, <3>2
      <4> QED
        BY <1>2, <3>2, <4>2, <4>3
    <3>3. k < i \/ k >= i
      BY <1>2
    <3> QED
      BY <3>1, <3>2, <3>3
  <2> QED
    BY <2>1, <2>2, <2>3
<1>11. before \o behind = [k \in 1 .. (rules.len - 1) |-> (before \o behind)[k]]
  BY <1>10, LenProperties
<1>12. Registered' = List!RemoveAt(Registered, i)
  BY <1>6, <1>7, <1>9, <1>10, <1>11
<1>13. Registered[i] \in Rules /\ i \in DOMAIN Registered /\ \A j \in 1 .. (i - 1) : IdOf[Registered[j]] # IdOf[Registered[i]]
  BY <1>2, <1>3, <1>4 DEF Deletes
<1>14. List!Delete(IdOf[Registered[i]]) /\ IdOf[Registered[i]] \in Ids
  BY <1>12, <1>13, IdOfAssumption DEF List!Delete
<1>15. Distinct'
  <2> SUFFICES ASSUME NEW k \in 1 .. (rules.len - 1)
               PROVE  Registered'[k] \notin fresh
    BY <1>1, <1>5 DEF Distinct
  <2>1. Registered'[k] = IF k < i THEN Registered[k] ELSE Registered[k + 1]
    BY <1>4, <1>6, <1>7
  <2>2. k \in 1 .. rules.len /\ k + 1 \in 1 .. rules.len
    BY <1>2
  <2> QED
    BY <2>1, <2>2 DEF Order, Distinct
<1> QED
  BY <1>5, <1>14, <1>15 DEF Order

(* All other steps leave the registry alone.                               *)
LEMMA OtherOrder ==
  ASSUME Order, UNCHANGED <<heap, rules, deletion, fresh>>
  PROVE  Order' /\ Registered' = Registered
<1>1. Registered' = Registered
  BY DEF Registered
<1> QED
  BY <1>1 DEF Order, Distinct, Deletes

(* Every step keeps the order of the slots and is, on the registered list, *)
(* a step of RuleList or none.                                             *)
LEMMA StepOrder == IInv /\ Order /\ [Next]_vars => Order' /\ [List!Next]_Registered
<1> SUFFICES ASSUME IInv, Order, [Next]_vars
             PROVE  Order' /\ (List!Next \/ Registered' = Registered)
  OBVIOUS
<1>1. ASSUME NEW r \in Rules, PrependRule(r) \/ AddRule(r)
      PROVE  Order' /\ List!Next
  BY <1>1, PrependIsInsert, AddIsAdd DEF List!Next
<1>2. CASE ClearRules
  BY <1>2, ClearIsClear DEF List!Next
<1>3. ASSUME NEW id \in Ids, DeleteFound(id)
      PROVE  Order' /\ Registered' = Registered
  BY <1>3, DeleteFoundOrder
<1>4. CASE MoveSlot
  BY <1>4, MoveSlotOrder
<1>5. CASE EndDelete
  BY <1>5, EndDeleteIsDelete DEF List!Next
<1>6. CASE UNCHANGED <<heap, rules, deletion, fresh>>
  BY <1>6, OtherOrder
<1> QED
  BY <1>1, <1>2, <1>3, <1>4, <1>5, <1>6
  DEF Next, Admin, Session, Idle, vars, registry, DeleteNotFound, ResetLogs,
      Begin, Skip, Pick, FallBack, IncrementHits, Stamp, LogQuery

(* At the start the array holds the initial rules in their order.          *)
LEMMA InitOrder == Init => Order /\ Registered = InitRules
<1> SUFFICES ASSUME Init
             PROVE  Order /\ Registered = InitRules
  OBVIOUS
<1>1. PICK spare \in Slack : heap = <<Array(InitRules, spare)>>
  BY DEF Init
<1>2. /\ spare \in Nat /\ InitRules \in Seq(Rules)
      /\ \A i \in 1 .. Len(InitRules) : Array(InitRules, spare)[i] = InitRules[i]
  BY SlackAssumption, InitAssumption, NewArrayFits
<1>3. rules.arr = 1 /\ rules.len = Len(InitRules) /\ ~deletion.on /\ fresh = Rules \ ToSet(InitRules)
  BY DEF Init, NoDeletion
<1>4. Registered = [i \in 1 .. Len(InitRules) |-> InitRules[i]]
  BY <1>1, <1>2, <1>3 DEF Registered
<1>5. Registered = InitRules
  BY <1>2, <1>4, LenProperties
<1>6. Distinct
  BY <1>2, <1>3, <1>5 DEF Distinct, ToSet
<1> QED
  BY <1>3, <1>5, <1>6 DEF Order

(* Seen from outside mu, the slices that append, memmove and Match share   *)
(* are an ordered list that one operation at a time changes, for any rules,*)
(* ids and any growth of arrays (engine.go:60-101).                        *)
THEOREM RegistryRefines == Spec => RegistryIsList
<1>1. Init => Order /\ Registered = InitRules
  BY InitOrder
<1>2. IInv /\ Order /\ [Next]_vars => Order' /\ [List!Next]_Registered
  BY StepOrder
<1> QED
  BY <1>1, <1>2, Invariance, PTL DEF Spec, RegistryIsList, List!Spec

-----------------------------------------------------------------------------
(* The first match.                                                        *)

(* A Match that no DeleteRule overlaps reads the list it started with:     *)
(* what is appended meanwhile to its array goes behind its last slot, and  *)
(* no rule it has passed matched.                                          *)
Reads(s) ==
  /\ ~deletion.on
  /\ match[s].arr = rules.arr => match[s].len <= rules.len
  /\ match[s].len = Len(seen[s].list)
  /\ \A i \in 1 .. match[s].len : heap[match[s].arr][i] = seen[s].list[i]
  /\ \A i \in 1 .. (match[s].idx - 1) : <<seen[s].list[i], match[s].q>> \notin RuleMatches

Steady(s) ==
  ~seen[s].disturbed =>
    /\ match[s].pc = "scan" => Reads(s)
    /\ match[s].pc \in {"hit", "stamp"} => match[s].found = FirstMatch(seen[s].list, match[s].q)

(* The first match is where the loop of Match stops.                       *)
LEMMA FirstMatchFound ==
  ASSUME NEW list \in Seq(Rules), NEW q, NEW n \in 1 .. (Len(list) + 1),
         \A i \in 1 .. (n - 1) : <<list[i], q>> \notin RuleMatches
  PROVE  /\ n <= Len(list) /\ <<list[n], q>> \in RuleMatches => FirstMatch(list, q) = list[n]
         /\ n = Len(list) + 1 => FirstMatch(list, q) = AnswerOf[q]
<1> DEFINE hit == {i \in DOMAIN list : <<list[i], q>> \in RuleMatches}
<1>1. DOMAIN list = 1 .. Len(list) /\ Len(list) \in Nat
  BY LenProperties
<1>2. FirstMatch(list, q) = IF hit = {} THEN AnswerOf[q] ELSE list[CHOOSE i \in hit : \A j \in hit : i <= j]
  BY DEF FirstMatch
<1>3. \A i \in hit : i \in 1 .. Len(list) /\ n <= i
  BY <1>1
<1>4. ASSUME n <= Len(list), <<list[n], q>> \in RuleMatches
      PROVE  FirstMatch(list, q) = list[n]
  <2>1. n \in hit
    BY <1>1, <1>4
  <2> DEFINE c == CHOOSE i \in hit : \A j \in hit : i <= j
  <2> HIDE DEF hit
  <2>2. c \in hit /\ \A j \in hit : c <= j
    BY <1>3, <2>1
  <2>3. FirstMatch(list, q) = list[c]
    BY <1>2, <2>1
  <2> HIDE DEF c
  <2>4. c = n
    BY <1>1, <1>3, <2>1, <2>2
  <2> QED
    BY <2>3, <2>4
<1>5. n = Len(list) + 1 => hit = {}
  BY <1>1, <1>3
<1> QED
  BY <1>2, <1>4, <1>5

(* What a call has read stays so if its slots do.                          *)
LEMMA KeepSteady ==
  ASSUME NEW s \in Sessions, Steady(s), match'[s] = match[s], seen'[s].list = seen[s].list,
         seen[s].disturbed => seen'[s].disturbed,
         match[s].pc = "scan" /\ ~seen'[s].disturbed /\ Reads(s) =>
           /\ ~deletion'.on
           /\ match[s].arr = rules'.arr => match[s].len <= rules'.len
           /\ \A i \in 1 .. match[s].len : heap'[match[s].arr][i] = heap[match[s].arr][i]
  PROVE  Steady(s)'
BY DEF Steady, Reads

(* What the steps that add rules or take them away (engine.go:60-92) do to *)
(* the history of a running Match.                                         *)
LEMMA SeenKept ==
  ASSUME IInv, NEW s \in Sessions
  PROVE  /\ \A r \in Rules : Joins(r) => seen'[s].list = seen[s].list /\ seen'[s].disturbed = seen[s].disturbed
         /\ \A gone : Parts(gone, FALSE) => /\ seen'[s].list = seen[s].list
                                            /\ seen'[s].disturbed = seen[s].disturbed
         /\ \A gone : Parts(gone, TRUE) => /\ seen'[s].list = seen[s].list
                                           /\ seen[s].disturbed => seen'[s].disturbed
                                           /\ match[s].pc = "scan" => seen'[s].disturbed
<1>1. seen[s] \in Watch
  BY DEF IInv, Typed
<1> QED
  BY <1>1 DEF Joins, Parts, Scanning, Watch

(* A new array is nobody's yet.                                            *)
LEMMA NewArraySteady ==
  ASSUME IInv, NEW s \in Sessions, Steady(s), UNCHANGED <<match, deletion>>,
         seen'[s].list = seen[s].list, seen'[s].disturbed = seen[s].disturbed,
         NEW row \in Seq(Slots), heap' = Append(heap, row), rules'.arr = Len(heap) + 1
  PROVE  Steady(s)'
<1>1. \A b \in 1 .. Len(heap) : heap'[b] = heap[b]
  BY Allocate DEF IInv, Typed
<1>2. match[s].pc = "scan" => match[s].arr \in 1 .. Len(heap) /\ Len(heap) \in Nat
  BY DEF IInv, Typed, Scan
<1> QED
  BY <1>1, <1>2, KeepSteady DEF Reads

(* Registry operations.                                                    *)
LEMMA AdminSteady ==
  ASSUME IInv, \A s \in Sessions : Steady(s), Admin
  PROVE  \A s \in Sessions : Steady(s)'
<1> SUFFICES ASSUME NEW s \in Sessions
             PROVE  Steady(s)'
  OBVIOUS
<1>1. /\ Registered \in Seq(Rules) /\ Len(Registered) = rules.len /\ rules.len \in Nat
      /\ heap \in Seq(Seq(Slots)) /\ rules.arr \in 1 .. Len(heap)
  BY RegisteredSeq DEF IInv, Typed, Header
<1>2. ASSUME NEW list \in Seq(Rules), NewArray(list), UNCHANGED <<match, deletion>>,
             seen'[s].list = seen[s].list, seen'[s].disturbed = seen[s].disturbed
      PROVE  Steady(s)'
  <2>1. PICK spare \in Slack : heap' = Append(heap, Array(list, spare))
    BY <1>2 DEF NewArray
  <2>2. Array(list, spare) \in Seq(Slots)
    BY SlackAssumption, NewArrayFits
  <2>3. rules'.arr = Len(heap) + 1
    BY <1>2 DEF NewArray
  <2> QED
    BY <1>2, <2>1, <2>2, <2>3, NewArraySteady
<1>3. ASSUME NEW r \in Rules, PrependRule(r)
      PROVE  Steady(s)'
  <2>1. NewArray(<<r>> \o Registered) /\ Joins(r) /\ UNCHANGED <<match, deletion>>
    BY <1>3 DEF PrependRule
  <2>2. <<r>> \o Registered \in Seq(Rules)
    BY <1>1
  <2> QED
    BY <1>2, <2>1, <2>2, SeenKept
<1>4. ASSUME NEW r \in Rules, AddRule(r)
      PROVE  Steady(s)'
  <2>1. Joins(r) /\ UNCHANGED <<match, deletion>> /\ ~deletion.on
    BY <1>4 DEF AddRule, Operation, Unlocked
  <2>2. seen'[s].list = seen[s].list /\ seen'[s].disturbed = seen[s].disturbed
    BY <2>1, SeenKept
  <2>3. CASE NewArray(Append(Registered, r))
    <3>1. Append(Registered, r) \in Seq(Rules)
      BY <1>1, AppendProperties
    <3> QED
      BY <1>2, <2>1, <2>2, <2>3, <3>1
  <2>4. CASE /\ rules.len < Len(heap[rules.arr])
             /\ heap' = [heap EXCEPT ![rules.arr][NextSlot] = r]
             /\ rules' = [rules EXCEPT !.len = @ + 1]
    <3>1. r \in Slots /\ Len(heap[rules.arr]) \in Nat /\ rules'.arr = rules.arr /\ rules'.len = rules.len + 1
      BY <1>1, <2>4 DEF IInv, Typed, Slots
    <3>2. rules.len + 1 \in 1 .. Len(heap[rules.arr])
      BY <1>1, <2>4, <3>1
    <3>3. \A b \in 1 .. Len(heap) : \A i \in 1 .. Len(heap[b]) :
            heap'[b][i] = IF b = rules.arr /\ i = rules.len + 1 THEN r ELSE heap[b][i]
      BY <1>1, <2>4, <3>1, <3>2, StoreSlot DEF NextSlot
    <3>4. ASSUME match[s].pc = "scan", Reads(s)
          PROVE  /\ match[s].arr = rules'.arr => match[s].len <= rules'.len
                 /\ \A i \in 1 .. match[s].len : heap'[match[s].arr][i] = heap[match[s].arr][i]
      <4>1. /\ match[s].arr \in 1 .. Len(heap) /\ match[s].len \in Nat
            /\ match[s].len <= Len(heap[match[s].arr])
        BY <3>4 DEF IInv, Typed, Call, Scan
      <4>2. Len(heap[match[s].arr]) \in Nat
        BY <1>1, <4>1
      <4>3. match[s].arr = rules.arr => match[s].len <= rules.len
        BY <3>4 DEF Reads
      <4>4. ASSUME NEW i \in 1 .. match[s].len
            PROVE  heap'[match[s].arr][i] = heap[match[s].arr][i]
        <5>1. i \in 1 .. Len(heap[match[s].arr]) /\ ~(match[s].arr = rules.arr /\ i = rules.len + 1)
          BY <1>1, <4>1, <4>2, <4>3
        <5> QED
          BY <3>3, <4>1, <5>1
      <4> QED
        BY <1>1, <3>1, <4>1, <4>3, <4>4
    <3> QED
      BY <2>1, <2>2, <3>4, KeepSteady
  <2> QED
    BY <1>4, <2>3, <2>4 DEF AddRule
<1>5. CASE ClearRules
  <2>1. /\ heap' = Append(heap, <<>>) /\ rules'.arr = Len(heap) + 1 /\ UNCHANGED <<match, deletion>>
        /\ Parts(ToSet(Registered), FALSE)
    BY <1>5 DEF ClearRules
  <2>2. <<>> \in Seq(Slots)
    OBVIOUS
  <2> QED
    BY <2>1, <2>2, SeenKept, NewArraySteady
<1>6. ASSUME NEW id \in Ids, DeleteFound(id)
      PROVE  Steady(s)'
  <2>1. PICK i \in 1 .. rules.len : Parts({Registered[i]}, TRUE)
    BY <1>6 DEF DeleteFound
  <2>2. match' = match
    BY <1>6 DEF DeleteFound
  <2> QED
    BY <2>1, <2>2, SeenKept, KeepSteady
<1>7. CASE MoveSlot \/ EndDelete
  <2>1. deletion.on /\ UNCHANGED <<match, seen>>
    BY <1>7 DEF MoveSlot, EndDelete, callers, IInv, Header
  <2> QED
    BY <2>1, KeepSteady DEF Reads
<1>8. CASE ResetLogs \/ \E id \in Ids : DeleteNotFound(id)
  <2>1. UNCHANGED <<heap, rules, deletion, match, seen>>
    BY <1>8 DEF ResetLogs, DeleteNotFound, registry, callers
  <2> QED
    BY <2>1, KeepSteady DEF Reads
<1> QED
  BY <1>3, <1>4, <1>5, <1>6, <1>7, <1>8 DEF Admin

(* A step of the call itself: it starts from the list, passes one slot at a*)
(* time and stops at the first that matches.                               *)
LEMMA SessionSteady ==
  ASSUME IInv, NEW s \in Sessions, Steady(s), Session(s)
  PROVE  Steady(s)'
<1>1. /\ Registered \in Seq(Rules) /\ Len(Registered) = rules.len /\ rules.len \in Nat
      /\ match \in [Sessions -> Call] /\ match[s] \in Call
      /\ seen \in [Sessions -> Watch] /\ seen[s] \in Watch
  BY RegisteredSeq DEF IInv, Typed
<1>2. ASSUME NEW q \in Queries, Begin(s, q)
      PROVE  Steady(s)'
  <2>1. /\ match'[s].pc = "scan" /\ match'[s].idx = 1
        /\ match'[s].arr = rules.arr /\ match'[s].len = rules.len
    BY <1>1, <1>2 DEF Begin, NoMatch, Call
  <2>2. seen'[s].list = Registered
    BY <1>1, <1>2 DEF Begin
  <2>3. UNCHANGED <<heap, rules, deletion>> /\ ~deletion.on
    BY <1>2 DEF Begin, registry, Unlocked
  <2>4. \A i \in 1 .. rules.len : heap[rules.arr][i] = Registered[i]
    BY <2>3 DEF Registered
  <2> QED
    BY <1>1, <2>1, <2>2, <2>3, <2>4 DEF Steady, Reads
<1>3. ASSUME UNCHANGED <<heap, rules, deletion, seen>>, ~seen[s].disturbed, match[s].pc = "scan"
      PROVE  /\ seen[s].list \in Seq(Rules) /\ match[s].len = Len(seen[s].list)
             /\ match[s].idx \in 1 .. (Len(seen[s].list) + 1)
             /\ \A i \in 1 .. (match[s].idx - 1) : <<seen[s].list[i], match[s].q>> \notin RuleMatches
             /\ match[s].idx <= match[s].len => Slot(s) = seen[s].list[match[s].idx]
             /\ match[s].idx \in Nat /\ Reads(s)
  BY <1>1, <1>3 DEF Steady, Reads, IInv, Scan, Slot, Watch, Call
<1>4. CASE Skip(s)
  <2>1. /\ match'[s].pc = "scan" /\ match'[s].idx = match[s].idx + 1 /\ match'[s].q = match[s].q
        /\ match'[s].arr = match[s].arr /\ match'[s].len = match[s].len
        /\ UNCHANGED <<heap, rules, deletion, seen>>
    BY <1>1, <1>4 DEF Skip, Call, registry
  <2> SUFFICES ASSUME ~seen[s].disturbed
               PROVE  Reads(s)'
    BY <2>1 DEF Steady
  <2>2. match[s].pc = "scan" /\ match[s].idx <= match[s].len /\ <<Slot(s), match[s].q>> \notin RuleMatches
    BY <1>4 DEF Skip
  <2>3. <<seen[s].list[match[s].idx], match[s].q>> \notin RuleMatches
    BY <1>3, <2>1, <2>2
  <2>4. \A i \in 1 .. match[s].idx : <<seen[s].list[i], match[s].q>> \notin RuleMatches
    BY <1>3, <2>1, <2>2, <2>3
  <2>5. match[s].idx \in Nat /\ Reads(s)
    BY <1>3, <2>1, <2>2
  <2>6. match'[s].idx - 1 = match[s].idx
    BY <2>1, <2>5
  <2> QED
    BY <2>1, <2>4, <2>5, <2>6 DEF Reads
<1>5. CASE Pick(s)
  <2>1. /\ match'[s].pc = "hit" /\ match'[s].found = Slot(s) /\ match'[s].q = match[s].q
        /\ UNCHANGED <<heap, rules, deletion, seen>>
    BY <1>1, <1>5 DEF Pick, Call, registry
  <2>2. match[s].pc = "scan" /\ match[s].idx <= match[s].len /\ <<Slot(s), match[s].q>> \in RuleMatches
    BY <1>5 DEF Pick
  <2> SUFFICES ASSUME ~seen[s].disturbed
               PROVE  Slot(s) = FirstMatch(seen[s].list, match[s].q)
    BY <2>1 DEF Steady
  <2> QED
    BY <1>3, <2>1, <2>2, FirstMatchFound
<1>6. CASE FallBack(s)
  <2>1. /\ match'[s].pc = "stamp" /\ match'[s].found = AnswerOf[match[s].q] /\ match'[s].q = match[s].q
        /\ UNCHANGED <<heap, rules, deletion, seen>>
    BY <1>1, <1>6 DEF FallBack, Call, registry
  <2>2. match[s].pc = "scan" /\ match[s].idx > match[s].len
    BY <1>6 DEF FallBack
  <2> SUFFICES ASSUME ~seen[s].disturbed
               PROVE  AnswerOf[match[s].q] = FirstMatch(seen[s].list, match[s].q)
    BY <2>1 DEF Steady
  <2>3. Len(seen[s].list) \in Nat /\ match[s].idx = Len(seen[s].list) + 1
    BY <1>3, <2>1, <2>2
  <2> QED
    BY <1>3, <2>1, <2>2, <2>3, FirstMatchFound
<1>7. CASE IncrementHits(s)
  <2>1. /\ match[s].pc = "hit" /\ match'[s].pc = "stamp" /\ match'[s].found = match[s].found
        /\ match'[s].q = match[s].q /\ seen' = seen
    BY <1>1, <1>7 DEF IncrementHits, Call
  <2> QED
    BY <2>1 DEF Steady
<1>8. CASE Stamp(s)
  <2>1. match'[s].pc = "append"
    BY <1>1, <1>8 DEF Stamp, Call
  <2> QED
    BY <2>1 DEF Steady
<1>9. CASE LogQuery(s)
  <2>1. match'[s].pc = "idle"
    BY <1>1, <1>9 DEF LogQuery, NoMatch
  <2> QED
    BY <2>1 DEF Steady
<1> QED
  BY <1>2, <1>4, <1>5, <1>6, <1>7, <1>8, <1>9 DEF Session

(* A step of another session changes nothing this one reads.               *)
LEMMA OtherSessionSteady ==
  ASSUME IInv, NEW s \in Sessions, NEW t \in Sessions, s # t, Steady(s), Session(t)
  PROVE  Steady(s)'
<1>1. match'[s] = match[s] /\ seen'[s] = seen[s] /\ UNCHANGED registry
  BY DEF Session, Begin, Skip, Pick, FallBack, IncrementHits, Stamp, LogQuery, IInv, Typed
<1> QED
  BY <1>1, KeepSteady DEF Reads, registry

(* A Match no DeleteRule overlaps returns the first matching rule of the   *)
(* list at its start, for any rules, queries and sessions, whatever is     *)
(* prepended, appended or cleared meanwhile (engine.go:155-165).           *)
THEOREM UndisturbedMatch == Spec => []FirstMatchWins
<1> DEFINE AllSteady == \A s \in Sessions : Steady(s)
<1>1. Init => AllSteady
  BY DEF Init, NoMatch, Steady
<1>2. IInv /\ AllSteady /\ [Next]_vars => AllSteady'
  <2> SUFFICES ASSUME IInv, AllSteady, [Next]_vars
               PROVE  AllSteady'
    OBVIOUS
  <2>1. CASE Admin
    BY <2>1, AdminSteady
  <2>2. ASSUME NEW t \in Sessions, Session(t)
        PROVE  AllSteady'
    BY <2>2, SessionSteady, OtherSessionSteady
  <2>3. CASE UNCHANGED vars
    BY <2>3 DEF vars, registry, journal, callers, Steady, Reads
  <2> QED
    BY <2>1, <2>2, <2>3 DEF Next, Idle
<1>3. AllSteady => FirstMatchWins
  BY DEF Steady, FirstMatchWins
<1> QED
  BY <1>1, <1>2, <1>3, Invariance, PTL DEF Spec

-----------------------------------------------------------------------------
(* Hit counters and log.                                                   *)

Entries   == [by : Sessions, rule : Names, ts : Nat]
Own(s)    == {i \in DOMAIN Journal : Journal[i].by = s}
Logged(r) == {i \in DOMAIN Journal : Journal[i].rule = r}
Counted(r) == {s \in Sessions : match[s].pc \in {"stamp", "append"} /\ match[s].found = r}
InMatch   == {s \in Sessions : match[s].pc # "idle"}

(* Every entry is older than the clock, and the one a session is about to  *)
(* append is younger than all it has in the log.                           *)
Dated ==
  /\ \A i \in DOMAIN Journal : Journal[i].ts < clock
  /\ \A s \in Sessions : match[s].pc = "append" =>
       /\ match[s].ts < clock
       /\ \A i \in Own(s) : Journal[i].ts < match[s].ts

(* However many sessions there may be, those inside Match are finitely many*)
Ledger ==
  /\ cleared \in Seq(Entries)
  /\ calls \in [Sessions -> Nat]
  /\ IsFiniteSet(InMatch)
  /\ Dated

(* The indexes of the entries that satisfy a condition, given as a set.    *)
Where(J, E) == {i \in DOMAIN J : J[i] \in E}

(* Appending an entry adds its index if it satisfies the condition.        *)
LEMMA CountAppend ==
  ASSUME NEW J \in Seq(Entries), NEW e \in Entries, NEW E
  PROVE  /\ Cardinality(Where(J, E)) \in Nat
         /\ Where(Append(J, e), E) = IF e \in E THEN Where(J, E) \cup {Len(J) + 1} ELSE Where(J, E)
         /\ Cardinality(Where(Append(J, e), E)) = Cardinality(Where(J, E)) + IF e \in E THEN 1 ELSE 0
<1> DEFINE K == Append(J, e)
<1>1. /\ DOMAIN J = 1 .. Len(J) /\ Len(J) \in Nat
      /\ DOMAIN K = 1 .. (Len(J) + 1) /\ K[Len(J) + 1] = e
      /\ \A i \in 1 .. Len(J) : K[i] = J[i]
  BY AppendProperties, LenProperties
<1> HIDE DEF K
<1>2. Where(J, E) \subseteq 1 .. Len(J) /\ Len(J) + 1 \notin Where(J, E)
  BY <1>1 DEF Where
<1>3. Where(K, E) = IF e \in E THEN Where(J, E) \cup {Len(J) + 1} ELSE Where(J, E)
  BY <1>1 DEF Where
<1>4. IsFiniteSet(1 .. Len(J))
  BY <1>1, FS_Interval
<1>5. IsFiniteSet(Where(J, E))
  BY <1>2, <1>4, FS_Subset
<1>6. Cardinality(Where(J, E)) \in Nat
  BY <1>5, FS_CardinalityType
<1>7. Cardinality(Where(K, E)) = Cardinality(Where(J, E)) + IF e \in E THEN 1 ELSE 0
  <2>1. CASE e \in E
    BY <1>2, <1>3, <1>5, <1>6, <2>1, FS_AddElement
  <2>2. CASE e \notin E
    BY <1>3, <1>6, <2>2
  <2> QED
    BY <2>1, <2>2
<1> QED
  BY <1>3, <1>6, <1>7 DEF K

(* The journal is a sequence of entries; LogQuery appends to it, ResetLogs *)
(* only moves what is in it.                                               *)
LEMMA JournalSteps ==
  ASSUME IInv, Ledger
  PROVE  /\ Journal \in Seq(Entries)
         /\ \A s \in Sessions : LogQuery(s) => /\ Journal' = Append(Journal, Entry(s))
                                              /\ Entry(s) \in Entries
         /\ ResetLogs => Journal' = Journal /\ cleared' \in Seq(Entries)
<1>1. cleared \in Seq(Entries) /\ logs \in Seq(Entries)
  BY DEF IInv, Typed, Ledger, Entries
<1>2. Journal \in Seq(Entries)
  BY <1>1, ConcatProperties DEF Journal
<1>3. ASSUME NEW s \in Sessions, LogQuery(s)
      PROVE  Journal' = Append(Journal, Entry(s)) /\ Entry(s) \in Entries
  <2>1. match[s] \in Call /\ match[s].pc = "append" /\ match[s].found \in Names
    BY <1>3 DEF LogQuery, IInv, Typed
  <2>2. Entry(s) \in Entries
    BY <2>1 DEF Entry, Entries, Call
  <2>3. logs' = Append(logs, Entry(s)) /\ cleared' = cleared
    BY <1>3 DEF LogQuery
  <2>4. cleared \o Append(logs, Entry(s)) = Append(cleared \o logs, Entry(s))
    BY <1>1, <2>2
  <2> QED
    BY <2>2, <2>3, <2>4 DEF Journal
<1>4. ASSUME ResetLogs
      PROVE  Journal' = Journal /\ cleared' \in Seq(Entries)
  <2>1. cleared' = Journal /\ logs' = <<>>
    BY <1>4 DEF ResetLogs, Journal
  <2>2. Journal \o <<>> = Journal
    BY <1>2
  <2> QED
    BY <1>2, <2>1, <2>2 DEF Journal
<1> QED
  BY <1>2, <1>3, <1>4

(* What LogQuery does to the entries of a session and of a rule.           *)
LEMMA LogQueryCounts ==
  ASSUME IInv, Ledger, NEW s \in Sessions, LogQuery(s)
  PROVE  LET n == Len(Journal) + 1
         IN  /\ \A t \in Sessions :
                  /\ Own(t)' = IF t = s THEN Own(t) \cup {n} ELSE Own(t)
                  /\ Cardinality(Own(t)) \in Nat
                  /\ Cardinality(Own(t)') = Cardinality(Own(t)) + IF t = s THEN 1 ELSE 0
             /\ \A r \in Rules :
                  /\ Cardinality(Logged(r)) \in Nat
                  /\ Cardinality(Logged(r)') = Cardinality(Logged(r)) + IF match[s].found = r THEN 1 ELSE 0
<1>1. /\ Journal \in Seq(Entries) /\ Entry(s) \in Entries /\ Journal' = Append(Journal, Entry(s))
      /\ Journal' \in Seq(Entries)
      /\ Entry(s).by = s /\ Entry(s).rule = match[s].found
  BY JournalSteps, AppendProperties DEF Entry
<1>2. \A E : /\ Cardinality(Where(Journal, E)) \in Nat
             /\ Where(Journal, E)' = IF Entry(s) \in E THEN Where(Journal, E) \cup {Len(Journal) + 1}
                                                      ELSE Where(Journal, E)
             /\ Cardinality(Where(Journal, E)') = Cardinality(Where(Journal, E)) + IF Entry(s) \in E THEN 1 ELSE 0
  BY <1>1, CountAppend
<1>3. ASSUME NEW t \in Sessions
      PROVE  /\ Own(t)' = IF t = s THEN Own(t) \cup {Len(Journal) + 1} ELSE Own(t)
             /\ Cardinality(Own(t)) \in Nat
             /\ Cardinality(Own(t)') = Cardinality(Own(t)) + IF t = s THEN 1 ELSE 0
  <2> DEFINE E == {e \in Entries : e.by = t}
  <2>1. Own(t) = Where(Journal, E) /\ Own(t)' = Where(Journal, E)'
    BY <1>1 DEF Own, Where
  <2>2. Entry(s) \in E <=> t = s
    BY <1>1
  <2> HIDE DEF E
  <2> QED
    BY <1>2, <2>1, <2>2
<1>4. ASSUME NEW r \in Rules
      PROVE  /\ Cardinality(Logged(r)) \in Nat
             /\ Cardinality(Logged(r)') = Cardinality(Logged(r)) + IF match[s].found = r THEN 1 ELSE 0
  <2> DEFINE E == {e \in Entries : e.rule = r}
  <2>1. Logged(r) = Where(Journal, E) /\ Logged(r)' = Where(Journal, E)'
    BY <1>1 DEF Logged, Where
  <2>2. Entry(s) \in E <=> match[s].found = r
    BY <1>1
  <2> HIDE DEF E
  <2> QED
    BY <1>2, <2>1, <2>2
<1> QED
  BY <1>3, <1>4

(* A step of session s moves only s among the calls that count.            *)
LEMMA SessionCounts ==
  ASSUME IInv, Ledger, NEW s \in Sessions, \A t \in Sessions \ {s} : match'[t] = match[t]
  PROVE  /\ IsFiniteSet(InMatch')
         /\ \A r \in Rules :
              /\ IsFiniteSet(Counted(r)) /\ Cardinality(Counted(r)) \in Nat
              /\ Counted(r)' = IF match'[s].pc \in {"stamp", "append"} /\ match'[s].found = r
                               THEN Counted(r) \cup {s} ELSE Counted(r) \ {s}
              /\ s \in Counted(r) <=> match[s].pc \in {"stamp", "append"} /\ match[s].found = r
<1>1. IsFiniteSet(InMatch) /\ InMatch' \subseteq InMatch \cup {s}
  BY DEF Ledger, InMatch
<1>2. IsFiniteSet(InMatch')
  BY <1>1, FS_AddElement, FS_Subset
<1>3. ASSUME NEW r \in Rules
      PROVE  IsFiniteSet(Counted(r)) /\ Cardinality(Counted(r)) \in Nat
  <2>1. Counted(r) \subseteq InMatch
    BY DEF Counted, InMatch
  <2> QED
    BY <1>1, <2>1, FS_Subset, FS_CardinalityType
<1> QED
  BY <1>2, <1>3 DEF Counted

(* A rule has finitely many entries in the log.                            *)
LEMMA LoggedCount ==
  ASSUME IInv, Ledger, NEW r
  PROVE  Cardinality(Logged(r)) \in Nat
<1> DEFINE E == {e \in Entries : e.rule = r}
<1>1. Journal \in Seq(Entries)
  BY JournalSteps
<1>2. Logged(r) = Where(Journal, E)
  BY <1>1 DEF Logged, Where
<1>3. Cardinality(Where(Journal, E)) \in Nat
  <2>1. DOMAIN Journal = 1 .. Len(Journal) /\ Len(Journal) \in Nat
    BY <1>1, LenProperties
  <2>2. IsFiniteSet(1 .. Len(Journal)) /\ Where(Journal, E) \subseteq 1 .. Len(Journal)
    BY <2>1, FS_Interval DEF Where
  <2> HIDE DEF E
  <2> QED
    BY <2>2, FS_Subset, FS_CardinalityType
<1> QED
  BY <1>2, <1>3

(* What a step does to the ledger, when it does not append to the log.     *)
LEMMA LedgerKept ==
  ASSUME IInv, Ledger, UNCHANGED <<cleared, logs, clock>>, calls' \in [Sessions -> Nat],
         IsFiniteSet(InMatch'),
         \A t \in Sessions : match'[t].pc = "append" => match'[t] = match[t]
  PROVE  Ledger' /\ Journal' = Journal
<1>1. Journal' = Journal
  BY DEF Journal
<1>2. \A t \in Sessions : Own(t)' = Own(t)
  BY <1>1 DEF Own
<1> QED
  BY <1>1, <1>2 DEF Ledger, Dated

(* The log of every session is complete and in order; every hit is either  *)
(* logged or about to be.                                                  *)
Books == Ledger /\ HitsMatchLog /\ SessionOrder

(* HitsMatchLog and SessionOrder in the words of this section.             *)
LEMMA BooksMean ==
  /\ HitsMatchLog <=> \A r \in Rules : hits[r] = Cardinality(Logged(r)) + Cardinality(Counted(r))
  /\ SessionOrder <=> \A s \in Sessions :
                        /\ Cardinality(Own(s)) = calls[s] - InCall(s)
                        /\ \A i, j \in Own(s) : i < j => Journal[i].ts < Journal[j].ts
BY DEF HitsMatchLog, SessionOrder, Logged, Counted, Own

(* The same after a step.                                                  *)
LEMMA BooksMeanNext ==
  /\ HitsMatchLog' <=> \A r \in Rules : hits'[r] = Cardinality(Logged(r)') + Cardinality(Counted(r)')
  /\ SessionOrder' <=> \A s \in Sessions :
                         /\ Cardinality(Own(s)') = calls'[s] - InCall(s)'
                         /\ \A i, j \in Own(s)' : i < j => Journal'[i].ts < Journal'[j].ts
BY DEF HitsMatchLog, SessionOrder, Logged, Counted, Own

(* Steps that leave journal and counters alone and do not move a call into *)
(* or out of the counted ones.                                             *)
LEMMA QuietStep ==
  ASSUME IInv, Books, NEW s \in Sessions, UNCHANGED <<cleared, logs, clock, hits>>,
         \A t \in Sessions \ {s} : match'[t] = match[t] /\ calls'[t] = calls[t],
         calls' \in [Sessions -> Nat], match'[s].pc # "append",
         calls'[s] - InCall(s)' = calls[s] - InCall(s),
         \A r \in Rules : match'[s].pc \in {"stamp", "append"} /\ match'[s].found = r
                         <=> match[s].pc \in {"stamp", "append"} /\ match[s].found = r
  PROVE  Books'
<1>1. /\ IsFiniteSet(InMatch')
      /\ \A r \in Rules :
           /\ Counted(r)' = IF match'[s].pc \in {"stamp", "append"} /\ match'[s].found = r
                            THEN Counted(r) \cup {s} ELSE Counted(r) \ {s}
           /\ s \in Counted(r) <=> match[s].pc \in {"stamp", "append"} /\ match[s].found = r
  BY SessionCounts DEF Books
<1>2. Ledger' /\ Journal' = Journal
  BY <1>1, LedgerKept DEF Books
<1>3. \A r \in Rules : Counted(r)' = Counted(r) /\ Logged(r)' = Logged(r)
  <2>1. ASSUME NEW r \in Rules
        PROVE  Counted(r)' = Counted(r)
    <3>1. PICK old, now : old = Counted(r) /\ now = Counted(r)'
      OBVIOUS
    <3>2. IF s \in old THEN now = old \cup {s} ELSE now = old \ {s}
      BY <1>1, <3>1, Zenon
    <3>3. now = old
      BY <3>2
    <3> QED
      BY <3>1, <3>3
  <2>2. \A r \in Rules : Logged(r)' = Logged(r)
    BY <1>2 DEF Logged
  <2> QED
    BY <2>1, <2>2
<1>4. HitsMatchLog'
  BY <1>3, BooksMean, BooksMeanNext DEF Books
<1>5. \A t \in Sessions : Own(t)' = Own(t) /\ calls'[t] - InCall(t)' = calls[t] - InCall(t)
  BY <1>2 DEF Own, InCall
<1>6. SessionOrder'
  BY <1>2, <1>5, BooksMean, BooksMeanNext DEF Books
<1> QED
  BY <1>2, <1>4, <1>6 DEF Books

(* IncrementHits counts the hit of a call that is not counted yet.         *)
LEMMA IncrementHitsBooks ==
  ASSUME IInv, Books, NEW s \in Sessions, IncrementHits(s)
  PROVE  Books'
<1>1. /\ match \in [Sessions -> Call] /\ match[s].pc = "hit" /\ match[s].found \in Rules
      /\ hits \in [Rules -> Nat]
  <2>1. match[s].found \in seen[s].ever /\ seen[s] \in Watch /\ match[s].pc = "hit"
    BY DEF IncrementHits, IInv, Picked, Typed
  <2> QED
    BY <2>1 DEF IInv, Typed, Watch
<1>2. /\ match'[s].pc = "stamp" /\ match'[s].found = match[s].found
      /\ \A t \in Sessions \ {s} : match'[t] = match[t]
      /\ UNCHANGED <<cleared, logs, clock, calls>>
      /\ \A r \in Rules : hits'[r] = hits[r] + IF r = match[s].found THEN 1 ELSE 0
  BY <1>1 DEF IncrementHits, Call
<1>3. /\ IsFiniteSet(InMatch')
      /\ \A r \in Rules :
           /\ IsFiniteSet(Counted(r)) /\ Cardinality(Counted(r)) \in Nat
           /\ Counted(r)' = IF match[s].found = r THEN Counted(r) \cup {s} ELSE Counted(r) \ {s}
           /\ s \notin Counted(r)
  BY <1>1, <1>2, SessionCounts DEF Books
<1>4. Ledger' /\ Journal' = Journal
  BY <1>2, <1>3, LedgerKept DEF Books, Ledger
<1>5. HitsMatchLog'
  <2> SUFFICES ASSUME NEW r \in Rules
               PROVE  hits'[r] = Cardinality(Logged(r)') + Cardinality(Counted(r)')
    BY BooksMeanNext
  <2>1. Logged(r)' = Logged(r) /\ hits[r] = Cardinality(Logged(r)) + Cardinality(Counted(r)) /\ hits[r] \in Nat
    BY <1>1, <1>4, BooksMean DEF Logged, Books
  <2>2. Cardinality(Counted(r)') = Cardinality(Counted(r)) + IF r = match[s].found THEN 1 ELSE 0
    <3>1. CASE r = match[s].found
      BY <1>3, <3>1, FS_AddElement
    <3>2. CASE r # match[s].found
      <4>1. Counted(r)' = Counted(r)
        BY <1>3, <3>2
      <4> QED
        BY <1>3, <3>2, <4>1
    <3> QED
      BY <3>1, <3>2
  <2>3. Cardinality(Logged(r)) \in Int
    BY <1>3, <1>4, LoggedCount DEF Books
  <2> QED
    BY <1>2, <1>3, <2>1, <2>2, <2>3
<1>6. SessionOrder'
  <2>1. \A t \in Sessions : Own(t)' = Own(t) /\ calls'[t] - InCall(t)' = calls[t] - InCall(t)
    BY <1>1, <1>2, <1>4 DEF Own, InCall
  <2> QED
    BY <1>4, <2>1, BooksMean, BooksMeanNext DEF Books
<1> QED
  BY <1>4, <1>5, <1>6 DEF Books

(* Stamp dates the entry later than all there are.                         *)
LEMMA StampBooks ==
  ASSUME IInv, Books, NEW s \in Sessions, Stamp(s)
  PROVE  Books'
<1>1. match \in [Sessions -> Call] /\ match[s].pc = "stamp" /\ clock \in Nat
  BY DEF Stamp, IInv, Typed
<1>2. /\ match'[s].pc = "append" /\ match'[s].found = match[s].found /\ match'[s].ts = clock
      /\ \A t \in Sessions \ {s} : match'[t] = match[t]
      /\ UNCHANGED <<cleared, logs, calls, hits>> /\ clock' = clock + 1
  BY <1>1 DEF Stamp, Call
<1>3. Journal' = Journal /\ Journal \in Seq(Entries) /\ DOMAIN Journal = 1 .. Len(Journal)
  BY <1>2, JournalSteps, LenProperties DEF Journal, Books
<1>4. \A i \in DOMAIN Journal : Journal[i].ts < clock /\ Journal[i].ts \in Nat
  <2>1. \A i \in DOMAIN Journal : Journal[i] \in Entries
    BY <1>3
  <2> QED
    BY <2>1 DEF Books, Ledger, Dated, Entries
<1>5. \A t \in Sessions : Own(t)' = Own(t)
  BY <1>3 DEF Own
<1>6. \A t \in Sessions : match[t].ts \in Nat
  BY <1>1 DEF Call
<1>7. /\ IsFiniteSet(InMatch')
      /\ \A r \in Rules :
           /\ Counted(r)' = IF match[s].found = r THEN Counted(r) \cup {s} ELSE Counted(r) \ {s}
           /\ s \in Counted(r) <=> match[s].found = r
  BY <1>1, <1>2, SessionCounts DEF Books
<1>8. Dated'
  <2>1. \A i \in DOMAIN Journal : Journal[i].ts < clock + 1
    BY <1>1, <1>4
  <2>2. ASSUME NEW t \in Sessions, match'[t].pc = "append"
        PROVE  /\ match'[t].ts < clock + 1
               /\ \A i \in Own(t) : Journal[i].ts < match'[t].ts
    <3>1. CASE t = s
      BY <1>1, <1>2, <1>4, <3>1 DEF Own
    <3>2. CASE t # s
      <4>1. match[t].ts < clock /\ match'[t] = match[t] /\ \A i \in Own(t) : Journal[i].ts < match[t].ts
        BY <1>2, <2>2, <3>2 DEF Books, Ledger, Dated
      <4> QED
        BY <1>1, <1>6, <4>1
    <3> QED
      BY <3>1, <3>2
  <2> QED
    BY <1>2, <1>3, <1>5, <2>1, <2>2 DEF Dated
<1>9. Ledger'
  BY <1>2, <1>7, <1>8 DEF Books, Ledger
<1>10. HitsMatchLog'
  <2>1. \A r \in Rules : Counted(r)' = Counted(r) /\ Logged(r)' = Logged(r)
    BY <1>3, <1>7 DEF Logged
  <2> QED
    BY <1>2, <2>1, BooksMean, BooksMeanNext DEF Books
<1>11. SessionOrder'
  <2>1. \A t \in Sessions : calls'[t] - InCall(t)' = calls[t] - InCall(t)
    BY <1>1, <1>2 DEF InCall
  <2> QED
    BY <1>3, <1>5, <2>1, BooksMean, BooksMeanNext DEF Books
<1> QED
  BY <1>9, <1>10, <1>11 DEF Books

(* LogQuery turns a counted call into an entry, the last of its session.   *)
LEMMA LogQueryBooks ==
  ASSUME IInv, Books, NEW s \in Sessions, LogQuery(s)
  PROVE  Books'
<1>1. match \in [Sessions -> Call] /\ match[s].pc = "append" /\ calls \in [Sessions -> Nat]
  BY DEF LogQuery, IInv, Typed, Books, Ledger
<1>2. /\ match'[s].pc = "idle"
      /\ \A t \in Sessions \ {s} : match'[t] = match[t]
      /\ UNCHANGED <<cleared, calls, hits, clock>>
  BY <1>1 DEF LogQuery, NoMatch
<1> DEFINE n == Len(Journal) + 1
<1>3. /\ Journal \in Seq(Entries) /\ Len(Journal) \in Nat /\ DOMAIN Journal = 1 .. Len(Journal)
      /\ Journal' = Append(Journal, Entry(s)) /\ Entry(s) \in Entries
  BY JournalSteps, LenProperties DEF Books
<1>4. /\ DOMAIN Journal' = 1 .. n /\ Journal'[n] = Entry(s)
      /\ \A i \in 1 .. Len(Journal) : Journal'[i] = Journal[i]
  BY <1>3, AppendProperties, LenProperties
<1>5. /\ \A t \in Sessions :
           /\ Own(t)' = IF t = s THEN Own(t) \cup {n} ELSE Own(t)
           /\ Own(t) \subseteq 1 .. Len(Journal)
           /\ Cardinality(Own(t)) \in Nat
           /\ Cardinality(Own(t)') = Cardinality(Own(t)) + IF t = s THEN 1 ELSE 0
      /\ \A r \in Rules :
           /\ Cardinality(Logged(r)) \in Nat
           /\ Cardinality(Logged(r)') = Cardinality(Logged(r)) + IF match[s].found = r THEN 1 ELSE 0
  BY <1>3, LogQueryCounts DEF Books, Own
<1> HIDE DEF n
<1>6. /\ IsFiniteSet(InMatch')
      /\ \A r \in Rules :
           /\ IsFiniteSet(Counted(r)) /\ Cardinality(Counted(r)) \in Nat
           /\ Counted(r)' = Counted(r) \ {s}
           /\ s \in Counted(r) <=> match[s].found = r
  BY <1>1, <1>2, SessionCounts DEF Books
<1>7. /\ Entry(s).ts = match[s].ts /\ match[s].ts < clock
      /\ \A i \in Own(s) : Journal[i].ts < match[s].ts
      /\ \A i \in DOMAIN Journal : Journal[i].ts < clock
  BY <1>1 DEF Entry, Books, Ledger, Dated
<1>8. Ledger'
  <2>1. \A i \in DOMAIN Journal' : Journal'[i].ts < clock
    BY <1>3, <1>4, <1>7 DEF n
  <2>2. ASSUME NEW t \in Sessions, match'[t].pc = "append"
        PROVE  match'[t].ts < clock /\ \A i \in Own(t)' : Journal'[i].ts < match'[t].ts
    <3>1. t # s /\ match'[t] = match[t]
      BY <1>2, <2>2
    <3>2. match[t].ts < clock /\ \A i \in Own(t) : Journal[i].ts < match[t].ts
      BY <2>2, <3>1 DEF Books, Ledger, Dated
    <3>3. Own(t)' = Own(t) /\ \A i \in Own(t) : Journal'[i] = Journal[i]
      BY <1>4, <1>5, <3>1
    <3> QED
      BY <3>1, <3>2, <3>3
  <2>3. Dated'
    BY <1>2, <2>1, <2>2 DEF Dated
  <2> QED
    BY <1>1, <1>2, <1>6, <2>3 DEF Books, Ledger
<1>9. HitsMatchLog'
  <2> SUFFICES ASSUME NEW r \in Rules
               PROVE  hits'[r] = Cardinality(Logged(r)') + Cardinality(Counted(r)')
    BY BooksMeanNext
  <2>1. hits'[r] = Cardinality(Logged(r)) + Cardinality(Counted(r))
    BY <1>2, BooksMean DEF Books
  <2>2. CASE match[s].found = r
    <3>1. Cardinality(Counted(r)') = Cardinality(Counted(r)) - 1
      BY <1>6, <2>2, FS_RemoveElement
    <3> QED
      BY <1>5, <1>6, <2>1, <2>2, <3>1
  <2>3. CASE match[s].found # r
    <3>1. Counted(r)' = Counted(r)
      BY <1>6, <2>3
    <3> QED
      BY <1>5, <2>1, <2>3, <3>1
  <2> QED
    BY <2>2, <2>3
<1>10. SessionOrder'
  <2> SUFFICES ASSUME NEW t \in Sessions
               PROVE  /\ Cardinality(Own(t)') = calls'[t] - InCall(t)'
                      /\ \A i, j \in Own(t)' : i < j => Journal'[i].ts < Journal'[j].ts
    BY BooksMeanNext
  <2>1. Cardinality(Own(t)) = calls[t] - InCall(t) /\ \A i, j \in Own(t) : i < j => Journal[i].ts < Journal[j].ts
    BY BooksMean DEF Books
  <2>2. \A i \in Own(t) : i \in 1 .. Len(Journal) /\ Journal'[i] = Journal[i]
    BY <1>4, <1>5
  <2>3. CASE t = s
    <3>1. InCall(s) = 1 /\ InCall(s)' = 0 /\ calls'[s] = calls[s] /\ calls[s] \in Nat
      BY <1>1, <1>2 DEF InCall
    <3>2. Own(s)' = Own(s) \cup {n} /\ Cardinality(Own(s)') = Cardinality(Own(s)) + 1
      BY <1>5
    <3>3. ASSUME NEW i \in Own(s)', NEW j \in Own(s)', i < j
          PROVE  Journal'[i].ts < Journal'[j].ts
      <4>1. i \in Own(s)
        BY <1>3, <2>2, <2>3, <3>2, <3>3 DEF n
      <4>2. CASE j = n
        BY <1>4, <1>7, <2>2, <2>3, <4>1, <4>2
      <4>3. CASE j \in Own(s)
        BY <2>1, <2>2, <2>3, <3>3, <4>1, <4>3
      <4> QED
        BY <3>2, <4>2, <4>3
    <3> QED
      BY <2>1, <2>3, <3>1, <3>2, <3>3
  <2>4. CASE t # s
    <3>1. Own(t)' = Own(t) /\ InCall(t)' = InCall(t) /\ calls'[t] = calls[t]
      BY <1>2, <1>5, <2>4 DEF InCall
    <3> QED
      BY <2>1, <2>2, <3>1
  <2> QED
    BY <2>3, <2>4
<1> QED
  BY <1>8, <1>9, <1>10 DEF Books

(* A step that leaves log, clock, counters and calls alone.                *)
LEMMA BooksKept ==
  ASSUME Books, Journal' = Journal, cleared' \in Seq(Entries), UNCHANGED <<clock, hits, match, calls>>
  PROVE  Books'
<1>1. /\ \A r \in Rules : Logged(r)' = Logged(r) /\ Counted(r)' = Counted(r)
      /\ \A s \in Sessions : Own(s)' = Own(s) /\ InCall(s)' = InCall(s)
      /\ InMatch' = InMatch
  BY DEF Logged, Counted, Own, InCall, InMatch
<1>2. Ledger'
  BY <1>1 DEF Books, Ledger, Dated
<1> QED
  BY <1>1, <1>2, BooksMean, BooksMeanNext DEF Books

(* Every step of a session's Match keeps the books: the hits of a rule are *)
(* its log entries and the calls between the two.                          *)
LEMMA SessionBooks ==
  ASSUME IInv, Books, NEW s \in Sessions, Session(s)
  PROVE  Books'
<1>1. /\ match \in [Sessions -> Call] /\ calls \in [Sessions -> Nat]
      /\ match[s] \in Call /\ match[s].pc # "idle" => match[s].q \in Queries
  BY DEF IInv, Typed, Books, Ledger
<1>2. ASSUME NEW q \in Queries, Begin(s, q)
      PROVE  Books'
  <2>1. /\ match[s].pc = "idle" /\ match'[s].pc = "scan"
        /\ \A t \in Sessions \ {s} : match'[t] = match[t] /\ calls'[t] = calls[t]
        /\ calls' \in [Sessions -> Nat] /\ calls'[s] = calls[s] + 1
        /\ UNCHANGED <<cleared, logs, clock, hits>>
    BY <1>1, <1>2 DEF Begin, NoMatch, journal
  <2>2. calls'[s] - InCall(s)' = calls[s] - InCall(s)
    BY <1>1, <2>1 DEF InCall
  <2> QED
    BY <2>1, <2>2, QuietStep
<1>3. CASE Skip(s) \/ Pick(s) \/ FallBack(s)
  <2>1. /\ match[s].pc = "scan" /\ match[s].q \in Queries
        /\ \A t \in Sessions \ {s} : match'[t] = match[t] /\ calls'[t] = calls[t]
        /\ calls' \in [Sessions -> Nat] /\ calls'[s] = calls[s]
        /\ UNCHANGED <<cleared, logs, clock, hits>>
    BY <1>1, <1>3 DEF Skip, Pick, FallBack, journal
  <2>2. /\ match'[s].pc \in {"scan", "hit", "stamp"}
        /\ match'[s].pc = "stamp" => match'[s].found = AnswerOf[match[s].q]
    BY <1>1, <1>3 DEF Skip, Pick, FallBack, Call
  <2>3. AnswerOf[match[s].q] \notin Rules
    BY <2>1, AnswerAssumption, RulesAssumption
  <2>4. calls'[s] - InCall(s)' = calls[s] - InCall(s)
    BY <2>1, <2>2 DEF InCall
  <2>5. \A r \in Rules : match'[s].pc \in {"stamp", "append"} /\ match'[s].found = r
                       <=> match[s].pc \in {"stamp", "append"} /\ match[s].found = r
    BY <2>1, <2>2, <2>3
  <2> QED
    BY <2>1, <2>2, <2>4, <2>5, QuietStep
<1> QED
  BY <1>2, <1>3, IncrementHitsBooks, StampBooks, LogQueryBooks DEF Session

(* Every step keeps the books, ResetLogs (engine.go:147-152) included.     *)
LEMMA StepBooks == IInv /\ Books /\ [Next]_vars => Books'
<1> SUFFICES ASSUME IInv, Books, [Next]_vars
             PROVE  Books'
  OBVIOUS
<1>1. CASE ResetLogs
  <2>1. UNCHANGED <<clock, hits, match, calls>>
    BY <1>1 DEF ResetLogs, callers
  <2> QED
    BY <1>1, <2>1, JournalSteps, BooksKept DEF Books
<1>2. ASSUME UNCHANGED <<journal, match, calls>>
      PROVE  Books'
  <2>1. Journal' = Journal /\ cleared' \in Seq(Entries) /\ UNCHANGED <<clock, hits, match, calls>>
    BY <1>2 DEF journal, Journal, Books, Ledger
  <2> QED
    BY <2>1, BooksKept
<1>3. CASE Admin
  <2>1. ResetLogs \/ UNCHANGED <<journal, match, calls>>
    BY <1>3 DEF Admin, PrependRule, AddRule, ClearRules, DeleteFound, DeleteNotFound, MoveSlot,
                EndDelete, callers
  <2> QED
    BY <1>1, <1>2, <2>1
<1>4. ASSUME NEW s \in Sessions, Session(s)
      PROVE  Books'
  BY <1>4, SessionBooks
<1>5. CASE UNCHANGED vars
  BY <1>2, <1>5 DEF vars, callers
<1> QED
  BY <1>3, <1>4, <1>5 DEF Next, Idle

(* With an empty log and no call begun the books agree.                    *)
LEMMA InitBooks == Init => Books
<1> SUFFICES ASSUME Init
             PROVE  Books
  OBVIOUS
<1>1. Journal = <<>> /\ \A s \in Sessions : match[s].pc = "idle" /\ calls[s] = 0
  BY DEF Init, Journal, NoMatch
<1>2. /\ \A r \in Rules : Logged(r) = {} /\ Counted(r) = {}
      /\ \A s \in Sessions : Own(s) = {}
      /\ InMatch = {}
  BY <1>1 DEF Logged, Counted, Own, InMatch
<1>3. IsFiniteSet({}) /\ Cardinality({}) = 0
  BY FS_EmptySet
<1>4. Ledger
  <2>1. cleared \in Seq(Entries) /\ calls \in [Sessions -> Nat]
    BY DEF Init
  <2>2. Dated
    BY <1>1, <1>2 DEF Dated
  <2> QED
    BY <1>2, <1>3, <2>1, <2>2 DEF Ledger
<1>5. HitsMatchLog
  <2>1. \A r \in Rules : hits[r] = 0 /\ Cardinality(Logged(r)) = 0 /\ Cardinality(Counted(r)) = 0
    BY <1>2, <1>3, Zenon DEF Init
  <2> QED
    BY <2>1, BooksMean
<1>6. SessionOrder
  <2>1. \A s \in Sessions : InCall(s) = 0 /\ Cardinality(Own(s)) = 0 /\ Own(s) = {}
    BY <1>1, <1>2, <1>3, Zenon DEF InCall
  <2> QED
    BY <1>1, <2>1, BooksMean
<1> QED
  BY <1>4, <1>5, <1>6 DEF Books

(* No hit is lost or counted twice, and ResetLogs leaves the counters      *)
(* alone, for any number of concurrent calls (engine.go:162-163, 113-123,  *)
(* 148-152).                                                               *)
THEOREM HitsAreLogged == Spec => []HitsMatchLog
<1>1. Init => Books
  BY InitBooks
<1>2. IInv /\ Books /\ [Next]_vars => Books'
  BY StepBooks
<1>3. Books => HitsMatchLog
  BY DEF Books
<1> QED
  BY <1>1, <1>2, <1>3, Invariance, PTL DEF Spec

(* Every finished call is in the log once, and the entries of a session    *)
(* are in the order of its calls, for any number of sessions, though       *)
(* LogQuery takes the time before it takes the lock (engine.go:113-123).   *)
THEOREM LogIsOrdered == Spec => []SessionOrder
<1>1. Init => Books
  BY InitBooks
<1>2. IInv /\ Books /\ [Next]_vars => Books'
  BY StepBooks
<1>3. Books => SessionOrder
  BY DEF Books
<1> QED
  BY <1>1, <1>2, <1>3, Invariance, PTL DEF Spec
=============================================================================
