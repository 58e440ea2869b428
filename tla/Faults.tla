------------------------------- MODULE Faults -------------------------------
(***************************************************************************)
(* Fault injection (conn_handler.go, handleDescribe and                    *)
(* executeRuleResponse) on top of Engine.  After Match has returned a rule,*)
(* the handler drops the connection, or sleeps for the rule's latency and  *)
(* then decides between the rule's error and its rows.  The decision reads *)
(* the hit counter again, which other sessions have moved on meanwhile.    *)
(* A Describe calls Match too and throws everything but the columns away.  *)
(***************************************************************************)
EXTENDS Engine

CONSTANTS
  Drops,      \* the rules with drop_connection
  Errors,     \* the rules with an error
  FailAfterN  \* FailAfterN[r]: fail_after_n of r, 0 when absent

ASSUME FaultsAssumption == /\ Drops \subseteq Rules /\ Errors \subseteq Rules
                           /\ FailAfterN \in [Rules -> Nat]
ASSUME SessionsAssumption == IsFiniteSet(Sessions) /\ Sessions # {}

VARIABLES
  react,    \* react[s]: what the handler of s does with the rule Match gave it
  outcomes  \* history: what each call came to

fvars == <<vars, react, outcomes>>

Purposes == {"describe", "execute"}
NoReact  == [pc |-> "idle", purpose |-> "execute", rule |-> Nil, ticket |-> 0]

FInit ==
  /\ Init
  /\ react = [s \in Sessions |-> NoReact]
  /\ outcomes = {}

Outcome(s, kind) == [by |-> s, call |-> calls[s], rule |-> react[s].rule,
                     ticket |-> react[s].ticket, kind |-> kind]

(* A Query, Execute or Describe message reaches the engine.                *)
Ask(s, q, purpose) ==
  /\ react[s].pc = "idle"
  /\ Begin(s, q)
  /\ react' = [react EXCEPT ![s] = [NoReact EXCEPT !.pc = "match", !.purpose = purpose]]
  /\ UNCHANGED outcomes

(* History: the ticket is the value IncrementHits returns and Match ignores.*)
CountHit(s) ==
  /\ IncrementHits(s)
  /\ react' = [react EXCEPT ![s].ticket = hits'[match[s].found]]
  /\ UNCHANGED outcomes

(* LogQuery is done and Match returns.                                     *)
Matched(s) ==
  /\ LogQuery(s)
  /\ react' = [react EXCEPT ![s].pc = "matched", ![s].rule = match[s].found]
  /\ UNCHANGED outcomes

Finish(s, kind) ==
  /\ outcomes' = outcomes \cup {Outcome(s, kind)}
  /\ react' = [react EXCEPT ![s] = NoReact]
  /\ UNCHANGED vars

(* handleDescribe answers from the rule's columns and injects no fault.    *)
DescribeRule(s) ==
  /\ react[s].pc = "matched"
  /\ react[s].purpose = "describe"
  /\ Finish(s, "described")

(* Only the socket is closed: the messages that are in the handler's buffer*)
(* go on asking, and counting, and what becomes of them nobody reads.      *)
DropConnection(s) ==
  /\ react[s].pc = "matched"
  /\ react[s].purpose = "execute"
  /\ react[s].rule \in Drops
  /\ Finish(s, "dropped")

(* Latency and jitter: other sessions run meanwhile.                       *)
Sleep(s) ==
  /\ react[s].pc = "matched"
  /\ react[s].purpose = "execute"
  /\ react[s].rule \notin Drops
  /\ react' = [react EXCEPT ![s].pc = "awake"]
  /\ UNCHANGED <<vars, outcomes>>

OffByOne(r) ==  \* mutant: < for <=
  r \in Errors /\ ~(FailAfterN[r] > 0 /\ hits[r] < FailAfterN[r])
OneMoreHit(r) ==  \* mutant: the counter is compared before the hit of this call counts
  r \in Errors /\ ~(FailAfterN[r] > 0 /\ hits[r] - 1 <= FailAfterN[r])
ShouldFail(r) ==
  r \in Errors /\ ~(FailAfterN[r] > 0 /\ hits[r] <= FailAfterN[r])

Fail(s) ==
  /\ react[s].pc = "awake"
  /\ ShouldFail(react[s].rule)
  /\ Finish(s, "error")

Succeed(s) ==
  /\ react[s].pc = "awake"
  /\ ~ShouldFail(react[s].rule)
  /\ Finish(s, "rows")

(* The other steps of the engine leave the handlers alone.                 *)
EngineOnly ==
  /\ Admin \/ Idle \/ \E s \in Sessions : Skip(s) \/ Pick(s) \/ FallBack(s) \/ Stamp(s)
  /\ UNCHANGED <<react, outcomes>>

FNext ==
  \/ EngineOnly
  \/ \E s \in Sessions :
       \/ \E q \in Queries, p \in Purposes : Ask(s, q, p)
       \/ CountHit(s) \/ Matched(s) \/ DescribeRule(s) \/ DropConnection(s)
       \/ Sleep(s) \/ Fail(s) \/ Succeed(s)

FSpec == FInit /\ [][FNext]_fvars

-----------------------------------------------------------------------------
(* Properties.                                                             *)

Budgeted == {r \in Errors : FailAfterN[r] > 0}
OutcomesOf(r, kind) == {o \in outcomes : o.rule = r /\ o.kind = kind}

(* Invariant: a rule that fails after N calls never serves more than N     *)
(* successful responses, whatever sessions interleave between counting the *)
(* hit, sleeping and reading the counter again (conn_handler.go:443-457).  *)
BudgetNotExceeded ==
  \A r \in Budgeted : Cardinality(OutcomesOf(r, "rows")) <= FailAfterN[r]

(* Invariant: a rule that fails after N calls withholds at most one of its *)
(* N successes per other session: a call within the budget gets the error  *)
(* only if it was under way when the budget ran out (conn_handler.go:455). *)
FewEarlyFailures ==
  \A r \in Budgeted :
    Cardinality({o \in OutcomesOf(r, "error") : o.ticket <= FailAfterN[r]}) < Cardinality(Sessions)

Running(s) == IF react[s].purpose = "execute" /\ react[s].pc \in {"match", "matched", "awake"} THEN 1 ELSE 0

(* What docs/ARCHITECTURE.md:73-74 says of the admin API: /api/queries and *)
(* /api/assert tell how often the application ran a query.  So the log has *)
(* no more entries of a session than it has run queries.                   *)
LogCountsExecutions ==
  \A s \in Sessions :
    Cardinality({i \in DOMAIN Journal : Journal[i].by = s})
      <= Cardinality({o \in outcomes : o.by = s /\ o.kind # "described"}) + Running(s)
=============================================================================
