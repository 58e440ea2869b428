---------------------------- MODULE Faults_proofs ----------------------------
(***************************************************************************)
(* Proofs about Faults, for any sessions, rules, budgets and bounds: the   *)
(* fault layer takes only steps of Engine, and a rule with fail_after_n    *)
(* never serves more than that many successes, nor withholds more of them  *)
(* than there are other sessions.                                          *)
(***************************************************************************)
EXTENDS Faults, Engine_proofs

ReactPC == {"idle", "match", "matched", "awake"}
React   == [pc : ReactPC, purpose : Purposes, rule : Names \cup {Nil}, ticket : Nat]

(* A session is inside Match exactly while its handler waits for Match.    *)
Linked ==
  /\ react \in [Sessions -> React]
  /\ \A s \in Sessions : match[s].pc # "idle" <=> react[s].pc = "match"
  /\ \A s \in Sessions : react[s].pc \in {"idle", "match"} => react[s].rule = Nil

(* Session s owns ticket react[s].ticket of the hit counter of rule r.     *)
Owns(s, r) == \/ match[s].pc \in {"stamp", "append"} /\ match[s].found = r
              \/ react[s].pc \in {"matched", "awake"} /\ react[s].rule = r

(* The tickets of a rule, spent or owned, are drawn from its counter and   *)
(* all different.                                                          *)
TicketsOf(r) ==
  /\ \A o \in outcomes : o.rule = r => o.ticket \in 1 .. hits[r]
  /\ \A s \in Sessions : Owns(s, r) => react[s].ticket \in 1 .. hits[r]
  /\ \A o, p \in outcomes : o.rule = r /\ p.rule = r /\ o.ticket = p.ticket => o = p
  /\ \A o \in outcomes, s \in Sessions : o.rule = r /\ Owns(s, r) => o.ticket # react[s].ticket
  /\ \A s, t \in Sessions : Owns(s, r) /\ Owns(t, r) /\ react[s].ticket = react[t].ticket => s = t

(* A success was within the budget when it was decided.                    *)
WithinBudget == \A r \in Budgeted : \A o \in OutcomesOf(r, "rows") : o.ticket <= FailAfterN[r]

(* The calls that drew a ticket within the budget: those that got the error*)
(* all the same, and those that may still.                                 *)
Early(r)   == {o \in OutcomesOf(r, "error") : o.ticket <= FailAfterN[r]}
Waiting(r) == {s \in Sessions : Owns(s, r) /\ react[s].ticket <= FailAfterN[r]}

(* None fails early before the budget is spent, and the session that spends*)
(* it is not among those that can.                                         *)
FewEarly(r) ==
  /\ IsFiniteSet(Early(r))
  /\ hits[r] <= FailAfterN[r] => Early(r) = {}
  /\ hits[r] > FailAfterN[r] => Cardinality(Early(r)) + Cardinality(Waiting(r)) < Cardinality(Sessions)
FewFail == \A r \in Budgeted : FewEarly(r)

FInv == IInv /\ Linked /\ (\A r \in Rules : TicketsOf(r)) /\ WithinBudget /\ FewFail

-----------------------------------------------------------------------------
(* Every step of the fault layer is a step of the engine or leaves it alone.*)
LEMMA EngineStep == [FNext]_fvars => [Next]_vars
BY DEF FNext, fvars, EngineOnly, Ask, CountHit, Matched, DescribeRule, DropConnection, Sleep,
       Fail, Succeed, Finish, Next, Session

(* The fault layer implements the engine: whatever is proved of the        *)
(* registry, Match and the log holds under it (conn_handler.go:234, 433).  *)
THEOREM FaultsImplementEngine == FSpec => Spec
BY EngineStep, PTL DEF FSpec, FInit, Spec

-----------------------------------------------------------------------------
(* The initial state owns no ticket.                                       *)
LEMMA InitFInv == FInit => FInv
<1> SUFFICES ASSUME FInit PROVE FInv
  OBVIOUS
<1>1. IInv /\ react = [s \in Sessions |-> NoReact] /\ outcomes = {}
  BY InitIInv DEF FInit
<1>2. match = [s \in Sessions |-> NoMatch]
  BY DEF FInit, Init
<1>3. NoReact \in React /\ NoReact.pc = "idle" /\ NoReact.rule = Nil /\ NoMatch.pc = "idle"
  BY DEF NoReact, React, ReactPC, Purposes, NoMatch
<1>4. Linked
  BY <1>1, <1>2, <1>3 DEF Linked
<1>5. \A s \in Sessions, r \in Rules : ~Owns(s, r)
  BY <1>1, <1>2, <1>3 DEF Owns
<1>6. \A r \in Rules : TicketsOf(r)
  BY <1>1, <1>5 DEF TicketsOf
<1>7. FewFail
  <2>1. \A r \in Rules : hits[r] = 0 /\ FailAfterN[r] \in Nat /\ Early(r) = {}
    BY <1>1, FaultsAssumption DEF FInit, Init, Early, OutcomesOf
  <2> QED
    <3>1. ASSUME NEW r \in Budgeted
          PROVE  FewEarly(r)
      <4>1. r \in Rules /\ IsFiniteSet({})
        BY FaultsAssumption, FS_EmptySet DEF Budgeted
      <4>2. hits[r] = 0 /\ FailAfterN[r] \in Nat /\ Early(r) = {} /\ IsFiniteSet(Early(r))
        BY <2>1, <4>1
      <4> QED
        BY <4>2 DEF FewEarly
    <3> QED
      BY <3>1 DEF FewFail
<1> QED
  BY <1>1, <1>4, <1>6, <1>7 DEF FInv, WithinBudget, OutcomesOf

(* The calls that may fail early are finitely many.                        *)
LEMMA WaitingFinite ==
  ASSUME NEW r
  PROVE  IsFiniteSet(Waiting(r)) /\ Cardinality(Waiting(r)) \in Nat /\ Cardinality(Sessions) \in Nat
<1>1. Waiting(r) \subseteq Sessions
  BY DEF Waiting
<1> QED
  BY <1>1, SessionsAssumption, FS_Subset, FS_CardinalityType

(* A step that lets no call draw a ticket and no call fail early.          *)
LEMMA FewEarlyKept ==
  ASSUME FInv, NEW r \in Budgeted, hits'[r] = hits[r], Early(r)' = Early(r), Waiting(r)' \subseteq Waiting(r)
  PROVE  FewEarly(r)'
<1>1. /\ IsFiniteSet(Waiting(r)) /\ Cardinality(Waiting(r)) \in Nat /\ Cardinality(Sessions) \in Nat
      /\ Cardinality(Waiting(r)') \in Nat /\ Cardinality(Waiting(r)') <= Cardinality(Waiting(r))
  BY WaitingFinite, FS_Subset, FS_CardinalityType
<1>2. FewEarly(r) /\ Cardinality(Early(r)) \in Nat
  BY FS_CardinalityType DEF FInv, FewFail, FewEarly
<1> QED
  BY <1>1, <1>2 DEF FewEarly

(* A step that gives no session a ticket and spends none.                  *)
LEMMA NoTicketMoves ==
  ASSUME FInv, hits' = hits, outcomes' = outcomes, Linked',
         \A s \in Sessions, r \in Rules :
            Owns(s, r)' => Owns(s, r) /\ react'[s].ticket = react[s].ticket
  PROVE  (\A r \in Rules : TicketsOf(r)') /\ WithinBudget' /\ FewFail'
<1>1. (\A r \in Rules : TicketsOf(r)') /\ WithinBudget'
  BY DEF FInv, TicketsOf, WithinBudget, OutcomesOf, Budgeted
<1>2. ASSUME NEW r \in Budgeted
      PROVE  FewEarly(r)'
  <2>1. Early(r)' = Early(r)
    BY DEF Early, OutcomesOf
  <2>2. Waiting(r)' \subseteq Waiting(r)
    <3>1. r \in Rules
      BY FaultsAssumption DEF Budgeted
    <3> QED
      BY <3>1 DEF Waiting
  <2> QED
    BY <2>1, <2>2, FewEarlyKept
<1> QED
  BY <1>1, <1>2 DEF FewFail, Budgeted

(* The engine moves without the handlers.                                  *)
LEMMA EngineOnlyStep == FInv /\ EngineOnly => Linked' /\ (\A r \in Rules : TicketsOf(r)') /\ WithinBudget' /\ FewFail'
<1> SUFFICES ASSUME FInv, EngineOnly
             PROVE  Linked' /\ (\A r \in Rules : TicketsOf(r)') /\ WithinBudget' /\ FewFail'
  OBVIOUS
<1>1. react' = react /\ outcomes' = outcomes /\ Linked /\ Typed
  BY DEF EngineOnly, FInv, IInv
<1>2. /\ hits' = hits
      /\ \A s \in Sessions : match'[s].pc # "idle" <=> match[s].pc # "idle"
      /\ \A s \in Sessions, r \in Rules :
           match'[s].pc \in {"stamp", "append"} /\ match'[s].found = r
             => match[s].pc \in {"stamp", "append"} /\ match[s].found = r
  <2>1. CASE Admin \/ Idle
    BY <2>1 DEF Admin, Idle, PrependRule, AddRule, DeleteFound, DeleteNotFound, MoveSlot, EndDelete,
                ClearRules, ResetLogs, callers, journal, vars
  <2>2. ASSUME NEW s \in Sessions, Skip(s) PROVE <1>2
    BY <1>1, <2>2 DEF Skip, journal, Typed, Call
  <2>5. ASSUME NEW s \in Sessions, Pick(s) PROVE <1>2
    BY <1>1, <2>5, SMTT(30) DEF Pick, journal, Typed, Call
  <2>3. ASSUME NEW s \in Sessions, FallBack(s) PROVE <1>2
    BY <1>1, <2>3, AnswerAssumption, RulesAssumption, SMTT(30) DEF FallBack, journal, Typed, Call
  <2>4. ASSUME NEW s \in Sessions, Stamp(s) PROVE <1>2
    BY <1>1, <2>4, SMTT(30) DEF Stamp, Typed, Call
  <2> QED
    BY <2>1, <2>2, <2>3, <2>4, <2>5 DEF EngineOnly
<1>3. Linked'
  BY <1>1, <1>2 DEF Linked
<1> QED
  BY <1>1, <1>2, <1>3, NoTicketMoves DEF Owns

(* The call begins: no ticket yet.                                         *)
LEMMA AskStep ==
  ASSUME FInv, NEW s \in Sessions, NEW q \in Queries, NEW p \in Purposes, Ask(s, q, p)
  PROVE  Linked' /\ (\A r \in Rules : TicketsOf(r)') /\ WithinBudget' /\ FewFail'
<1> DEFINE call == [NoMatch EXCEPT !.pc = "scan", !.q = q, !.idx = 1,
                                   !.arr = rules.arr, !.len = rules.len]
           doing == [NoReact EXCEPT !.pc = "match", !.purpose = p]
<1>1. Linked /\ Typed
  BY DEF FInv, IInv
<1>2. /\ match' = [match EXCEPT ![s] = call] /\ react' = [react EXCEPT ![s] = doing]
      /\ hits' = hits /\ outcomes' = outcomes
  BY DEF Ask, Begin, journal
<1>3. call.pc = "scan" /\ doing \in React /\ doing.pc = "match" /\ doing.rule = Nil
  BY DEF NoMatch, NoReact, React, ReactPC
<1> HIDE DEF call, doing
<1>4. /\ match'[s].pc = "scan" /\ react'[s] = doing
      /\ \A t \in Sessions \ {s} : match'[t] = match[t] /\ react'[t] = react[t]
      /\ react' \in [Sessions -> React]
  BY <1>1, <1>2, <1>3 DEF Typed, Linked
<1>5. Linked'
  BY <1>1, <1>3, <1>4 DEF Linked
<1>6. \A t \in Sessions, r \in Rules : Owns(t, r)' => Owns(t, r) /\ react'[t].ticket = react[t].ticket
  BY <1>3, <1>4 DEF Owns
<1> QED
  BY <1>2, <1>5, <1>6, NoTicketMoves

(* IncrementHits hands out the next ticket of its rule.                    *)
LEMMA CountHitStep ==
  ASSUME FInv, NEW s \in Sessions, CountHit(s)
  PROVE  Linked' /\ (\A r \in Rules : TicketsOf(r)') /\ WithinBudget' /\ FewFail'
<1>1. Linked /\ Typed /\ WithinBudget /\ Picked(s) /\ \A r \in Rules : TicketsOf(r)
  BY DEF FInv, IInv
<1>2. PICK f \in Rules : f = match[s].found
  BY <1>1, MatchesAssumption DEF Picked, CountHit, IncrementHits
<1>3. /\ match[s].pc = "hit" /\ outcomes' = outcomes
      /\ match' = [match EXCEPT ![s].pc = "stamp"]
      /\ hits' = [hits EXCEPT ![f] = @ + 1]
      /\ react' = [react EXCEPT ![s].ticket = hits'[f]]
  BY <1>2 DEF CountHit, IncrementHits
<1>4. /\ match'[s].pc = "stamp" /\ match'[s].found = f
      /\ \A t \in Sessions \ {s} : match'[t] = match[t]
  BY <1>1, <1>3, <1>2 DEF Typed, Call
<1>5. hits'[f] = hits[f] + 1 /\ hits[f] \in Nat /\ \A r \in Rules \ {f} : hits'[r] = hits[r]
  BY <1>1, <1>3, <1>2 DEF Typed
<1>6. /\ react' \in [Sessions -> React]
      /\ react'[s].ticket = hits'[f] /\ react'[s].pc = react[s].pc /\ react'[s].rule = react[s].rule
      /\ \A t \in Sessions \ {s} : react'[t] = react[t]
  BY <1>1, <1>3, <1>5 DEF Linked, React
<1>7. react[s].pc = "match" /\ react[s].rule = Nil
  BY <1>1, <1>3 DEF Linked
<1>8. Linked'
  BY <1>1, <1>3, <1>4, <1>6, <1>7 DEF Linked
<1>9. \A r \in Rules : \A t \in Sessions \ {s} : Owns(t, r)' <=> Owns(t, r)
  BY <1>4, <1>6 DEF Owns
<1>10. \A r \in Rules : Owns(s, r)' <=> r = f
  BY <1>4, <1>6, <1>7 DEF Owns
<1>11. ASSUME NEW r \in Rules PROVE TicketsOf(r)'
  <2>1. CASE r = f
    <3>1. TicketsOf(f) /\ hits'[f] = hits[f] + 1 /\ hits[f] \in Nat
      BY <1>1, <1>2, <1>5
    <3>2. \A o \in outcomes : o.rule = f => o.ticket \in 1 .. hits[f]
      BY <3>1 DEF TicketsOf
    <3>3. \A t \in Sessions \ {s} : Owns(t, f)' => Owns(t, f) /\ react'[t].ticket = react[t].ticket
                                                  /\ react'[t].ticket \in 1 .. hits[f]
      BY <1>2, <1>6, <1>9, <3>1 DEF TicketsOf
    <3>4. react'[s].ticket = hits[f] + 1
      BY <1>6, <3>1
    <3>5. \A t \in Sessions : Owns(t, f)' => react'[t].ticket \in 1 .. hits'[f]
      BY <3>1, <3>3, <3>4
    <3>6. \A o \in outcomes' : o.rule = f => o.ticket \in 1 .. hits'[f]
      BY <1>3, <3>1, <3>2
    <3>7. \A o \in outcomes', t \in Sessions : o.rule = f /\ Owns(t, f)' => o.ticket # react'[t].ticket
      BY <1>3, <3>1, <3>2, <3>3, <3>4 DEF TicketsOf
    <3>8. \A t, u \in Sessions : Owns(t, f)' /\ Owns(u, f)' /\ react'[t].ticket = react'[u].ticket => t = u
      BY <3>1, <3>3, <3>4 DEF TicketsOf
    <3>9. \A o, p \in outcomes' : o.rule = f /\ p.rule = f /\ o.ticket = p.ticket => o = p
      BY <1>3, <3>1 DEF TicketsOf
    <3> QED
      BY <2>1, <3>5, <3>6, <3>7, <3>8, <3>9 DEF TicketsOf
  <2>2. CASE r # f
    <3>1. \A t \in Sessions : Owns(t, r)' => t # s /\ Owns(t, r) /\ react'[t] = react[t]
      BY <1>6, <1>9, <1>10, <2>2
    <3> QED
      BY <1>1, <1>3, <1>5, <2>2, <3>1 DEF TicketsOf
  <2> QED
    BY <2>1, <2>2
<1>12. ASSUME NEW r \in Budgeted PROVE FewEarly(r)'
  <2>1. /\ r \in Rules /\ FailAfterN[r] \in Nat /\ hits[r] \in Nat /\ FewEarly(r)
        /\ Early(r)' = Early(r) /\ OutcomesOf(r, "error")' = OutcomesOf(r, "error")
    BY <1>1, <1>3, FaultsAssumption DEF Budgeted, Typed, FInv, FewFail, Early, OutcomesOf
  <2>2. CASE r # f
    <3>1. Waiting(r)' \subseteq Waiting(r)
      BY <1>6, <1>9, <1>10, <2>1, <2>2 DEF Waiting
    <3> QED
      BY <1>5, <2>1, <2>2, <3>1, FewEarlyKept
  <2>3. CASE r = f
    <3>1. hits'[r] = hits[r] + 1 /\ react'[s].ticket = hits[r] + 1
      BY <1>5, <1>6, <2>3
    <3>2. \A t \in Sessions \ {s} : Owns(t, r)' => Owns(t, r) /\ react'[t].ticket = react[t].ticket
      BY <1>6, <1>9, <2>1
    <3>3. CASE hits[r] < FailAfterN[r]
      BY <2>1, <3>1, <3>3 DEF FewEarly
    <3>4. CASE hits[r] >= FailAfterN[r]
      <4>1. Waiting(r)' \subseteq Waiting(r) /\ Waiting(r)' \subseteq Sessions \ {s}
        BY <2>1, <3>1, <3>2, <3>4 DEF Waiting
      <4>2. CASE hits[r] > FailAfterN[r]
        <5>1. /\ IsFiniteSet(Waiting(r)) /\ Cardinality(Waiting(r)) \in Nat /\ Cardinality(Sessions) \in Nat
              /\ Cardinality(Waiting(r)') \in Nat /\ Cardinality(Waiting(r)') <= Cardinality(Waiting(r))
          BY <4>1, WaitingFinite, FS_Subset, FS_CardinalityType
        <5>2. Cardinality(Early(r)) \in Nat
          BY <2>1, FS_CardinalityType DEF FewEarly
        <5> QED
          BY <2>1, <3>1, <4>2, <5>1, <5>2 DEF FewEarly
      <4>3. CASE hits[r] = FailAfterN[r]
        <5>1. Early(r) = {} /\ Cardinality({}) = 0
          BY <2>1, <4>3, FS_EmptySet DEF FewEarly
        <5>2. /\ IsFiniteSet(Sessions \ {s}) /\ Cardinality(Sessions) \in Nat
              /\ Cardinality(Sessions \ {s}) = Cardinality(Sessions) - 1
          BY SessionsAssumption, FS_RemoveElement, FS_CardinalityType
        <5>3. Cardinality(Waiting(r)') \in Nat /\ Cardinality(Waiting(r)') <= Cardinality(Sessions) - 1
          BY <4>1, <5>2, FS_Subset, FS_CardinalityType
        <5>4. Cardinality(Early(r)') = 0
          BY <2>1, <5>1
        <5> QED
          BY <2>1, <3>1, <4>3, <5>2, <5>3, <5>4 DEF FewEarly
      <4> QED
        BY <2>1, <3>4, <4>2, <4>3
    <3> QED
      BY <2>1, <3>3, <3>4
  <2> QED
    BY <2>2, <2>3
<1>13. FewFail'
  BY <1>12 DEF FewFail, Budgeted
<1> QED
  BY <1>1, <1>3, <1>8, <1>11, <1>13 DEF WithinBudget, OutcomesOf, Budgeted

(* Match returns: the ticket goes with the rule to the handler.            *)
LEMMA MatchedStep ==
  ASSUME FInv, NEW s \in Sessions, Matched(s)
  PROVE  Linked' /\ (\A r \in Rules : TicketsOf(r)') /\ WithinBudget' /\ FewFail'
<1>1. Linked /\ Typed
  BY DEF FInv, IInv
<1>2. /\ match[s].pc = "append" /\ hits' = hits /\ outcomes' = outcomes
      /\ match' = [match EXCEPT ![s] = NoMatch]
      /\ react' = [react EXCEPT ![s].pc = "matched", ![s].rule = match[s].found]
  BY DEF Matched, LogQuery
<1>3. match[s].found \in Names /\ NoMatch.pc = "idle" /\ react[s].pc = "match"
  BY <1>1, <1>2 DEF Typed, Linked, NoMatch
<1>4. /\ match'[s].pc = "idle"
      /\ react'[s].pc = "matched" /\ react'[s].rule = match[s].found
      /\ react'[s].ticket = react[s].ticket
      /\ \A t \in Sessions \ {s} : match'[t] = match[t] /\ react'[t] = react[t]
  BY <1>1, <1>2, <1>3 DEF Typed, Linked, React
<1>5. react' \in [Sessions -> React]
  BY <1>1, <1>2, <1>3, ZenonT(30) DEF Linked, React, ReactPC
<1>6. Linked'
  BY <1>1, <1>2, <1>4, <1>5 DEF Linked
<1>7. \A t \in Sessions, r \in Rules : Owns(t, r)' => Owns(t, r) /\ react'[t].ticket = react[t].ticket
  <2>1. ASSUME NEW r \in Rules, Owns(s, r)' PROVE Owns(s, r) /\ react'[s].ticket = react[s].ticket
    BY <1>2, <1>4, <2>1 DEF Owns
  <2>2. ASSUME NEW t \in Sessions \ {s}, NEW r \in Rules, Owns(t, r)'
        PROVE  Owns(t, r) /\ react'[t].ticket = react[t].ticket
    BY <1>4, <2>2 DEF Owns
  <2> QED
    BY <2>1, <2>2
<1> QED
  BY <1>2, <1>6, <1>7, NoTicketMoves

(* Sleeping keeps the ticket.                                              *)
LEMMA SleepStep ==
  ASSUME FInv, NEW s \in Sessions, Sleep(s)
  PROVE  Linked' /\ (\A r \in Rules : TicketsOf(r)') /\ WithinBudget' /\ FewFail'
<1>1. Linked
  BY DEF FInv
<1>2. /\ react[s].pc = "matched" /\ UNCHANGED <<match, hits, outcomes>>
      /\ react' = [react EXCEPT ![s].pc = "awake"]
  BY DEF Sleep, vars, callers, journal
<1>3. /\ react' \in [Sessions -> React]
      /\ react'[s].pc = "awake" /\ react'[s].rule = react[s].rule /\ react'[s].ticket = react[s].ticket
      /\ \A t \in Sessions \ {s} : react'[t] = react[t]
  BY <1>1, <1>2 DEF Linked, React, ReactPC
<1>4. Linked'
  BY <1>1, <1>2, <1>3 DEF Linked
<1>5. \A t \in Sessions, r \in Rules : Owns(t, r)' => Owns(t, r) /\ react'[t].ticket = react[t].ticket
  BY <1>2, <1>3 DEF Owns
<1> QED
  BY <1>2, <1>4, <1>5, NoTicketMoves

(* The handler is done: its ticket is spent, and is within the budget if it*)
(* bought rows.                                                            *)
LEMMA FinishStep ==
  ASSUME FInv, NEW s \in Sessions, NEW kind, Finish(s, kind),
         react[s].pc \in {"matched", "awake"},
         kind = "rows" => \A r \in Budgeted : react[s].rule = r => hits[r] <= FailAfterN[r],
         kind = "error" => \A r \in Budgeted : react[s].rule = r => hits[r] > FailAfterN[r]
  PROVE  Linked' /\ (\A r \in Rules : TicketsOf(r)') /\ WithinBudget' /\ FewFail'
<1> DEFINE new == Outcome(s, kind)
           done == NoReact
<1>1. Linked /\ Typed /\ WithinBudget /\ \A r \in Rules : TicketsOf(r)
  BY DEF FInv, IInv
<1>2. /\ UNCHANGED <<match, hits>> /\ outcomes' = outcomes \cup {new}
      /\ react' = [react EXCEPT ![s] = done]
  BY DEF Finish, vars, callers, journal
<1>3. new.rule = react[s].rule /\ new.ticket = react[s].ticket /\ new.kind = kind
  BY DEF Outcome
<1>4. done \in React /\ done.pc = "idle" /\ done.rule = Nil
  BY DEF NoReact, React, ReactPC, Purposes
<1> HIDE DEF new, done
<1>5. react' \in [Sessions -> React] /\ react'[s] = done /\ \A t \in Sessions \ {s} : react'[t] = react[t]
  BY <1>1, <1>2, <1>4 DEF Linked
<1>6. match[s].pc = "idle"
  BY <1>1 DEF Linked
<1>7. Linked'
  BY <1>1, <1>2, <1>4, <1>5, <1>6 DEF Linked
<1>8. ASSUME NEW r \in Rules
      PROVE  /\ ~Owns(s, r)'
             /\ Owns(s, r) <=> new.rule = r
             /\ \A t \in Sessions : Owns(t, r)' => t # s /\ Owns(t, r) /\ react'[t] = react[t]
  BY <1>2, <1>3, <1>4, <1>5, <1>6 DEF Owns
<1>9. ASSUME NEW r \in Rules PROVE TicketsOf(r)'
  <2>1. TicketsOf(r)
    BY <1>1
  <2>2. new.rule = r =>
          /\ new.ticket \in 1 .. hits[r]
          /\ \A o \in outcomes : o.rule = r => o.ticket # new.ticket
          /\ \A t \in Sessions : Owns(t, r)' => react'[t].ticket # new.ticket
    BY <1>3, <1>8, <2>1 DEF TicketsOf
  <2> QED
    BY <1>2, <1>8, <2>1, <2>2 DEF TicketsOf
<1>10. ASSUME NEW r \in Budgeted, NEW o \in outcomes', o.rule = r, o.kind = "rows"
       PROVE  o.ticket <= FailAfterN[r]
  <2>1. CASE o \in outcomes
    BY <1>1, <1>10, <2>1 DEF WithinBudget, OutcomesOf
  <2>2. CASE o = new
    <3>1. r \in Rules /\ FailAfterN[r] \in Nat /\ hits[r] \in Nat
      BY <1>1, FaultsAssumption DEF Budgeted, Typed
    <3>2. new.ticket \in 1 .. hits[r]
      BY <1>1, <1>3, <1>8, <1>10, <2>2, <3>1 DEF TicketsOf
    <3>3. hits[r] <= FailAfterN[r]
      BY <1>3, <1>10, <2>2
    <3> QED
      BY <2>2, <3>1, <3>2, <3>3
  <2> QED
    BY <1>2, <2>1, <2>2
<1>11. WithinBudget'
  BY <1>10 DEF WithinBudget, OutcomesOf, Budgeted
<1>12. ASSUME NEW r \in Budgeted PROVE FewEarly(r)'
  <2>1. /\ r \in Rules /\ FailAfterN[r] \in Nat /\ hits[r] \in Nat /\ FewEarly(r) /\ hits'[r] = hits[r]
    BY <1>1, <1>2, FaultsAssumption DEF Budgeted, Typed, FInv, FewFail
  <2>2. Waiting(r)' \subseteq Waiting(r) \ {s}
    BY <1>8, <2>1 DEF Waiting
  <2>3. CASE new.rule = r /\ kind = "error" /\ new.ticket <= FailAfterN[r]
    <3>1. Early(r)' = Early(r) \cup {new} /\ s \in Waiting(r) /\ hits[r] > FailAfterN[r]
      BY <1>2, <1>3, <1>8, <2>1, <2>3 DEF Early, OutcomesOf, Waiting
    <3>2. /\ IsFiniteSet(Early(r)') /\ Cardinality(Early(r)) \in Nat /\ Cardinality(Early(r)') \in Nat
          /\ Cardinality(Early(r)') <= Cardinality(Early(r)) + 1
      <4>1. IsFiniteSet(Early(r)) /\ Cardinality(Early(r)) \in Nat
        BY <2>1, FS_CardinalityType DEF FewEarly
      <4>2. /\ IsFiniteSet(Early(r) \cup {new})
            /\ new \in Early(r) => Cardinality(Early(r) \cup {new}) = Cardinality(Early(r))
            /\ new \notin Early(r) => Cardinality(Early(r) \cup {new}) = Cardinality(Early(r)) + 1
        <5>1. new \in Early(r) => Early(r) \cup {new} = Early(r)
          OBVIOUS
        <5> QED
          BY <4>1, <5>1, FS_AddElement
      <4> QED
        BY <3>1, <4>1, <4>2
    <3>3. /\ IsFiniteSet(Waiting(r)) /\ Cardinality(Waiting(r)) \in Nat /\ Cardinality(Sessions) \in Nat
          /\ IsFiniteSet(Waiting(r) \ {s}) /\ Cardinality(Waiting(r) \ {s}) = Cardinality(Waiting(r)) - 1
      BY <3>1, WaitingFinite, FS_RemoveElement
    <3>4. Cardinality(Waiting(r)') \in Nat /\ Cardinality(Waiting(r)') <= Cardinality(Waiting(r)) - 1
      BY <2>2, <3>3, FS_Subset, FS_CardinalityType
    <3> QED
      BY <2>1, <3>1, <3>2, <3>3, <3>4 DEF FewEarly
  <2>4. CASE ~(new.rule = r /\ kind = "error" /\ new.ticket <= FailAfterN[r])
    <3>1. Early(r)' = Early(r)
      BY <1>2, <1>3, <2>4 DEF Early, OutcomesOf
    <3> QED
      BY <2>1, <2>2, <3>1, FewEarlyKept
  <2> QED
    BY <2>3, <2>4
<1>13. FewFail'
  BY <1>12 DEF FewFail, Budgeted
<1> QED
  BY <1>7, <1>9, <1>11, <1>13

(* The invariant holds in every reachable state.                           *)
THEOREM FaultInvariance == FSpec => []FInv
<1>1. FInv /\ [FNext]_fvars => FInv'
  <2> SUFFICES ASSUME FInv, [FNext]_fvars PROVE FInv'
    OBVIOUS
  <2> DEFINE Rest == Linked' /\ (\A r \in Rules : TicketsOf(r)') /\ WithinBudget' /\ FewFail'
  <2>1. IInv'
    BY EngineStep, StepIInv DEF FInv
  <2>2. ASSUME UNCHANGED fvars PROVE Rest
    <3>1. Linked' /\ UNCHANGED <<hits, outcomes>>
      BY <2>2 DEF fvars, vars, callers, journal, FInv, Linked
    <3>2. \A s \in Sessions, r \in Rules : Owns(s, r)' => Owns(s, r) /\ react'[s].ticket = react[s].ticket
      BY <2>2 DEF fvars, vars, callers, Owns
    <3> QED
      BY <3>1, <3>2, NoTicketMoves
  <2>3. ASSUME EngineOnly PROVE Rest
    BY <2>3, EngineOnlyStep
  <2>4. ASSUME NEW s \in Sessions, \E q \in Queries, p \in Purposes : Ask(s, q, p) PROVE Rest
    BY <2>4, AskStep
  <2>5. ASSUME NEW s \in Sessions, CountHit(s) PROVE Rest
    BY <2>5, CountHitStep
  <2>6. ASSUME NEW s \in Sessions, Matched(s) PROVE Rest
    BY <2>6, MatchedStep
  <2>7. ASSUME NEW s \in Sessions, Sleep(s) PROVE Rest
    BY <2>7, SleepStep
  <2>8. ASSUME NEW s \in Sessions, DescribeRule(s) PROVE Rest
    BY <2>8, FinishStep DEF DescribeRule
  <2>9. ASSUME NEW s \in Sessions, DropConnection(s) PROVE Rest
    BY <2>9, FinishStep DEF DropConnection
  <2>10. ASSUME NEW s \in Sessions, Fail(s) PROVE Rest
    <3>1. /\ react[s].pc = "awake" /\ Finish(s, "error")
          /\ \A r \in Budgeted : react[s].rule = r => ~(hits[r] <= FailAfterN[r])
      BY <2>10 DEF Fail, ShouldFail, Budgeted
    <3>2. \A r \in Budgeted : hits[r] \in Nat /\ FailAfterN[r] \in Nat
      BY FaultsAssumption DEF Budgeted, FInv, IInv, Typed
    <3> QED
      BY <3>1, <3>2, FinishStep
  <2>11. ASSUME NEW s \in Sessions, Succeed(s) PROVE Rest
    <3>1. /\ react[s].pc = "awake" /\ Finish(s, "rows")
          /\ \A r \in Budgeted : react[s].rule = r => hits[r] <= FailAfterN[r]
      BY <2>11 DEF Succeed, ShouldFail, Budgeted
    <3> QED
      BY <3>1, FinishStep
  <2>12. Rest
    BY <2>2, <2>3, <2>4, <2>5, <2>6, <2>7, <2>8, <2>9, <2>10, <2>11 DEF FNext
  <2> QED
    BY <2>1, <2>12 DEF FInv
<1> QED
  BY InitFInv, <1>1, PTL DEF FSpec

-----------------------------------------------------------------------------
(* A rule that fails after N calls serves at most N successes, in whatever *)
(* order sessions count their hits, sleep and read the counter again       *)
(* (conn_handler.go:443-457): the successes hold different tickets in 1..N.*)
THEOREM BudgetHolds == FSpec => []BudgetNotExceeded
<1>1. FInv => BudgetNotExceeded
  <2> SUFFICES ASSUME FInv, NEW r \in Budgeted
               PROVE  Cardinality(OutcomesOf(r, "rows")) <= FailAfterN[r]
    BY DEF BudgetNotExceeded
  <2> DEFINE S == OutcomesOf(r, "rows")
             T == 1 .. FailAfterN[r]
             f == [o \in S |-> o.ticket]
  <2>1. r \in Rules /\ FailAfterN[r] \in Nat /\ hits[r] \in Nat /\ FailAfterN[r] > 0
    BY FaultsAssumption DEF FInv, IInv, Typed, Budgeted
  <2>2. TicketsOf(r) /\ WithinBudget
    BY <2>1 DEF FInv
  <2>3. \A o \in S : o \in outcomes /\ o.rule = r /\ o.ticket \in 1 .. hits[r] /\ o.ticket <= FailAfterN[r]
    BY <2>2 DEF OutcomesOf, TicketsOf, WithinBudget
  <2>4. f \in [S -> T]
    BY <2>1, <2>3
  <2>5. \A o, p \in S : f[o] = f[p] => o = p
    BY <2>2, <2>3 DEF TicketsOf
  <2>6. f \in Injection(S, T)
    BY <2>4, <2>5 DEF Injection, IsInjective
  <2>7. IsFiniteSet(T) /\ Cardinality(T) = FailAfterN[r]
    <3>1. 1 \in Int /\ FailAfterN[r] \in Int /\ ~(1 > FailAfterN[r]) /\ FailAfterN[r] - 1 + 1 = FailAfterN[r]
      BY <2>1
    <3> QED
      BY <3>1, FS_Interval
  <2> QED
    BY <2>6, <2>7, FS_Injection
<1> QED
  BY FaultInvariance, <1>1, PTL

(* A rule that fails after N calls withholds at most one of its successes  *)
(* per other session, for any number of sessions: a call gets the error    *)
(* early only if it slept while another one spent the budget               *)
(* (conn_handler.go:455).                                                  *)
THEOREM EarlyFailuresAreFew == FSpec => []FewEarlyFailures
<1>1. FInv => FewEarlyFailures
  <2> SUFFICES ASSUME FInv, NEW r \in Budgeted
               PROVE  Cardinality(Early(r)) < Cardinality(Sessions)
    BY DEF FewEarlyFailures, Early
  <2>1. /\ r \in Rules /\ FailAfterN[r] \in Nat /\ hits[r] \in Nat /\ FewEarly(r)
    BY FaultsAssumption DEF Budgeted, Typed, FInv, IInv, FewFail
  <2>2. Cardinality(Waiting(r)) \in Nat /\ Cardinality(Sessions) \in Nat /\ Cardinality(Early(r)) \in Nat
    BY <2>1, WaitingFinite, FS_CardinalityType DEF FewEarly
  <2>3. CASE hits[r] > FailAfterN[r]
    BY <2>1, <2>2, <2>3 DEF FewEarly
  <2>4. CASE hits[r] <= FailAfterN[r]
    <3>1. Cardinality(Early(r)) = 0 /\ Cardinality(Sessions) # 0
      BY <2>1, <2>4, SessionsAssumption, FS_EmptySet DEF FewEarly
    <3> QED
      BY <2>2, <3>1
  <2> QED
    BY <2>1, <2>3, <2>4
<1> QED
  BY FaultInvariance, <1>1, PTL
=============================================================================
