------------------------------- MODULE Engine -------------------------------
(***************************************************************************)
(* The mock engine (internal/mock/engine.go): the rule registry, Match,    *)
(* the hit counters and the query log.                                     *)
(*                                                                         *)
(* Actors: one goroutine per session calls Match (conn_handler.go), the    *)
(* admin API registers and deletes rules and clears the log while they do. *)
(* Match takes a copy of the slice header under mu and walks the backing   *)
(* array after it has released mu, so the registry is modelled as Go lays  *)
(* it out: backing arrays in `heap`, the header in `rules`.  DeleteRule    *)
(* shifts the tail of the array in place; the order in which memmove       *)
(* stores the slots is left open, each store is atomic.  Every other       *)
(* critical section is one step.                                           *)
(*                                                                         *)
(* A rule is the pointer one POST or one line of the rules file creates, so*)
(* no rule is registered twice.  Whether a rule matches a query depends on *)
(* the two alone (Matcher.Matches) and is given by RuleMatches.            *)
(***************************************************************************)
EXTENDS Integers, FiniteSets, Sequences, SequencesExt

CONSTANTS
  Rules,        \* the *Rule pointers that may ever exist
  Ids,          \* rule ids; two rules may share one
  IdOf,         \* IdOf[r]: the ID of r
  Queries,      \* what clients send
  RuleMatches,  \* the pairs <<r, q>> for which Matcher.Matches is true
  Answers,      \* what answers when no rule does: builtin, the store, the catalog, the default
  Builtin,      \* the answer of matchDefaultSystemQuery
  AnswerOf,     \* AnswerOf[q]: the one of them that answers q
  Sessions,     \* the goroutines that call Match
  InitRules,    \* the rules the server starts with, in order
  Slack,        \* how many spare slots append may leave in a new array
  MaxOps,       \* bound: registry operations of the admin API
  MaxQueries,   \* bound: calls of Match per session
  MaxResets,    \* bound: calls of ResetLogs
  Nil           \* an array slot never written

ASSUME RulesAssumption   == Nil \notin Rules /\ Answers \cap Rules = {} /\ Nil \notin Answers
ASSUME IdOfAssumption    == IdOf \in [Rules -> Ids]
ASSUME MatchesAssumption == RuleMatches \subseteq Rules \X Queries
ASSUME AnswerAssumption  == AnswerOf \in [Queries -> Answers]
ASSUME InitAssumption    == InitRules \in Seq(Rules)
ASSUME SlackAssumption   == Slack \subseteq Nat
ASSUME BoundsAssumption  == MaxOps \in Nat /\ MaxQueries \in Nat /\ MaxResets \in Nat

VARIABLES
  heap,      \* the backing arrays ever allocated, each a sequence of its capacity
  rules,     \* Engine.rules, the slice header: [arr, len]
  deletion,  \* the DeleteRule that holds mu: [on, todo, src]
  fresh,     \* the rules not yet created
  hits,      \* hits[r]: Rule.hits
  logs,      \* Engine.logs
  clock,     \* what time.Now returns next
  match,     \* match[s]: the call of Match of s
  calls,     \* calls[s]: how many calls of Match s has begun
  ops,       \* registry operations so far
  resets,    \* calls of ResetLogs so far
  cleared,   \* history: the entries ResetLogs has thrown away
  seen       \* history: what was registered while s scans, see Watch

registry == <<heap, rules, deletion, fresh, ops>>
journal  == <<hits, logs, clock, resets, cleared>>
callers  == <<match, calls, seen>>
vars     == <<registry, journal, callers>>

NoDeletion == [on |-> FALSE, todo |-> {}, src |-> <<>>]
NoMatch    == [pc |-> "idle", q |-> Nil, arr |-> 0, len |-> 0, idx |-> 0, found |-> Nil, ts |-> 0]
NoWatch    == [ever |-> {}, stay |-> {}, list |-> <<>>, disturbed |-> FALSE]

(* The registered rules, in order; while DeleteRule holds mu, those before it. *)
Registered == IF deletion.on THEN deletion.src
                             ELSE [i \in 1 .. rules.len |-> heap[rules.arr][i]]

Array(list, spare) == [i \in 1 .. (Len(list) + spare) |-> IF i <= Len(list) THEN list[i] ELSE Nil]
Unlocked == ~deletion.on
Scanning == {s \in Sessions : match[s].pc = "scan"}

Init ==
  /\ \E spare \in Slack : heap = <<Array(InitRules, spare)>>
  /\ rules = [arr |-> 1, len |-> Len(InitRules)]
  /\ deletion = NoDeletion
  /\ fresh = Rules \ ToSet(InitRules)
  /\ hits = [r \in Rules |-> 0]
  /\ logs = <<>>
  /\ clock = 1
  /\ match = [s \in Sessions |-> NoMatch]
  /\ calls = [s \in Sessions |-> 0]
  /\ ops = 0
  /\ resets = 0
  /\ cleared = <<>>
  /\ seen = [s \in Sessions |-> NoWatch]

-----------------------------------------------------------------------------
(* Registry operations.  Operation(list) puts list in a new array.         *)

Operation == Unlocked /\ ops < MaxOps /\ ops' = ops + 1

NewArray(list) ==
  /\ \E spare \in Slack : heap' = Append(heap, Array(list, spare))
  /\ rules' = [arr |-> Len(heap) + 1, len |-> Len(list)]

(* History: rule r is registered from now on.                              *)
Joins(r) ==
  seen' = [s \in Sessions |-> IF s \in Scanning
                              THEN [seen[s] EXCEPT !.ever = @ \cup {r}] ELSE seen[s]]

(* History: the rules in `gone` are, or are about to be, taken out, and the*)
(* array under whoever scans it is about to be shifted if `shifts`.        *)
Parts(gone, shifts) ==
  seen' = [s \in Sessions |-> IF s \in Scanning
                              THEN [seen[s] EXCEPT !.stay = @ \ gone, !.disturbed = @ \/ shifts]
                              ELSE seen[s]]

PrependRule(r) ==
  /\ Operation
  /\ r \in fresh
  /\ fresh' = fresh \ {r}
  /\ NewArray(<<r>> \o Registered)
  /\ Joins(r)
  /\ UNCHANGED <<deletion, journal, match, calls>>

SecondSlot == rules.len + 2  \* mutant: off by one
NextSlot   == rules.len + 1

(* append writes the slot behind the last element when the array has one,  *)
(* which after a deletion an older header still covers.                    *)
AddRule(r) ==
  /\ Operation
  /\ r \in fresh
  /\ fresh' = fresh \ {r}
  /\ \/ /\ rules.len < Len(heap[rules.arr])
        /\ heap' = [heap EXCEPT ![rules.arr][NextSlot] = r]
        /\ rules' = [rules EXCEPT !.len = @ + 1]
     \/ /\ rules.len = Len(heap[rules.arr])
        /\ NewArray(Append(Registered, r))
  /\ Joins(r)
  /\ UNCHANGED <<deletion, journal, match, calls>>

ClearInPlace ==  \* mutant: rules = rules[:0], the array stays shared and its slots are zeroed
  /\ Operation
  /\ heap' = [heap EXCEPT ![rules.arr] = [i \in DOMAIN @ |-> Nil]]
  /\ rules' = [rules EXCEPT !.len = 0]
  /\ Parts(ToSet(Registered), FALSE)
  /\ UNCHANGED <<deletion, fresh, journal, match, calls>>

ClearRules ==
  /\ Operation
  /\ heap' = Append(heap, <<>>)
  /\ rules' = [arr |-> Len(heap) + 1, len |-> 0]
  /\ Parts(ToSet(Registered), FALSE)
  /\ UNCHANGED <<deletion, fresh, journal, match, calls>>

(* The slots a deletion of the i-th of n rules stores, each from its right *)
(* neighbour.                                                              *)
Shifted(i, n) == i .. (n - 1)

(* DeleteRule locks mu and finds the first rule with the id; from here on  *)
(* it stores the slots in `todo`.  It returns false if there is none.      *)
DeleteFound(id) ==
  /\ Operation
  /\ \E i \in 1 .. rules.len :
       /\ IdOf[Registered[i]] = id
       /\ \A j \in 1 .. (i - 1) : IdOf[Registered[j]] # id
       /\ deletion' = [on |-> TRUE, todo |-> Shifted(i, rules.len), src |-> Registered]
       /\ Parts({Registered[i]}, TRUE)
  /\ UNCHANGED <<heap, rules, fresh, journal, match, calls>>

DeleteNotFound(id) ==
  /\ Operation
  /\ \A i \in 1 .. rules.len : IdOf[Registered[i]] # id
  /\ UNCHANGED <<heap, rules, deletion, fresh, journal, callers>>

MoveSlot ==
  /\ \E j \in deletion.todo :
       /\ heap' = [heap EXCEPT ![rules.arr][j] = deletion.src[j + 1]]
       /\ deletion' = [deletion EXCEPT !.todo = @ \ {j}]
  /\ UNCHANGED <<rules, fresh, ops, journal, callers>>

KeepLength ==  \* mutant: the header is not shortened
  /\ deletion.on
  /\ deletion.todo = {}
  /\ deletion' = NoDeletion
  /\ UNCHANGED <<heap, rules, fresh, ops, journal, callers>>

(* The header is shortened and mu unlocked; the slot behind it keeps the   *)
(* pointer it had.                                                         *)
EndDelete ==
  /\ deletion.on
  /\ deletion.todo = {}
  /\ rules' = [rules EXCEPT !.len = @ - 1]
  /\ deletion' = NoDeletion
  /\ UNCHANGED <<heap, fresh, ops, journal, callers>>

-----------------------------------------------------------------------------
(* Match(q) by session s.                                                  *)

(* The header is read under RLock; ever, stay and list start from it.      *)
Begin(s, q) ==
  /\ Unlocked
  /\ match[s].pc = "idle"
  /\ calls[s] < MaxQueries
  /\ calls' = [calls EXCEPT ![s] = @ + 1]
  /\ match' = [match EXCEPT ![s] = [NoMatch EXCEPT !.pc = "scan", !.q = q, !.idx = 1,
                                                   !.arr = rules.arr, !.len = rules.len]]
  /\ seen' = [seen EXCEPT ![s] = [ever |-> ToSet(Registered), stay |-> ToSet(Registered),
                                  list |-> Registered, disturbed |-> FALSE]]
  /\ UNCHANGED <<registry, journal>>

CurrentSlot(s) ==  \* mutant: Match reads e.rules again at every turn
  IF match[s].idx <= rules.len THEN heap[rules.arr][match[s].idx] ELSE Nil

(* One turn of the loop: the slot is read now, not when Match began.       *)
Slot(s) == heap[match[s].arr][match[s].idx]

Skip(s) ==
  /\ match[s].pc = "scan"
  /\ match[s].idx <= match[s].len
  /\ <<Slot(s), match[s].q>> \notin RuleMatches
  /\ match' = [match EXCEPT ![s].idx = @ + 1]
  /\ UNCHANGED <<registry, journal, calls, seen>>

Pick(s) ==
  /\ match[s].pc = "scan"
  /\ match[s].idx <= match[s].len
  /\ <<Slot(s), match[s].q>> \in RuleMatches
  /\ match' = [match EXCEPT ![s].pc = "hit", ![s].found = Slot(s)]
  /\ UNCHANGED <<registry, journal, calls, seen>>

(* No rule matches: the builtin answers, or, once the pointer to the store *)
(* has been read under RLock, the store, the catalog or the default.  What *)
(* the store does to its tables is not the engine's state.                 *)
FallBack(s) ==
  /\ match[s].pc = "scan"
  /\ match[s].idx > match[s].len
  /\ AnswerOf[match[s].q] = Builtin \/ Unlocked
  /\ match' = [match EXCEPT ![s].pc = "stamp", ![s].found = AnswerOf[match[s].q]]
  /\ UNCHANGED <<registry, journal, calls, seen>>

HitTwice(s) ==  \* mutant: LogQuery counts the hit again
  /\ match[s].pc = "hit"
  /\ hits' = [hits EXCEPT ![match[s].found] = @ + 2]
  /\ match' = [match EXCEPT ![s].pc = "stamp"]
  /\ UNCHANGED <<registry, logs, clock, resets, cleared, calls, seen>>

IncrementHits(s) ==
  /\ match[s].pc = "hit"
  /\ hits' = [hits EXCEPT ![match[s].found] = @ + 1]
  /\ match' = [match EXCEPT ![s].pc = "stamp"]
  /\ UNCHANGED <<registry, logs, clock, resets, cleared, calls, seen>>

(* LogQuery takes the time of the entry, and then the lock.                *)
Stamp(s) ==
  /\ match[s].pc = "stamp"
  /\ clock' = clock + 1
  /\ match' = [match EXCEPT ![s].pc = "append", ![s].ts = clock]
  /\ UNCHANGED <<registry, hits, logs, resets, cleared, calls, seen>>

Entry(s) == [by |-> s, rule |-> match[s].found, ts |-> match[s].ts]

PrependLog(s) ==  \* mutant: newest first
  /\ match[s].pc = "append"
  /\ logs' = <<Entry(s)>> \o logs
  /\ match' = [match EXCEPT ![s] = NoMatch]
  /\ seen' = [seen EXCEPT ![s] = NoWatch]
  /\ UNCHANGED <<registry, hits, clock, resets, cleared, calls>>

(* The call is over for the engine once the entry is in the log; the hook  *)
(* LogQuery calls after unlocking belongs to the admin API.                *)
LogQuery(s) ==
  /\ match[s].pc = "append"
  /\ logs' = Append(logs, Entry(s))
  /\ match' = [match EXCEPT ![s] = NoMatch]
  /\ seen' = [seen EXCEPT ![s] = NoWatch]
  /\ UNCHANGED <<registry, hits, clock, resets, cleared, calls>>

ResetLogs ==
  /\ resets < MaxResets
  /\ resets' = resets + 1
  /\ cleared' = cleared \o logs
  /\ logs' = <<>>
  /\ UNCHANGED <<registry, hits, clock, callers>>

-----------------------------------------------------------------------------
Admin == \/ \E r \in Rules : PrependRule(r) \/ AddRule(r)
         \/ \E id \in Ids : DeleteFound(id) \/ DeleteNotFound(id)
         \/ MoveSlot \/ EndDelete \/ ClearRules \/ ResetLogs

Session(s) == \/ \E q \in Queries : Begin(s, q)
              \/ Skip(s) \/ Pick(s) \/ FallBack(s) \/ IncrementHits(s) \/ Stamp(s) \/ LogQuery(s)

(* Nothing is going on and nobody asks for anything.                       *)
Idle == Unlocked /\ (\A s \in Sessions : match[s].pc = "idle") /\ UNCHANGED vars

Next == Admin \/ (\E s \in Sessions : Session(s)) \/ Idle

Spec == Init /\ [][Next]_vars

-----------------------------------------------------------------------------
(* Properties.                                                             *)

MatchPC == {"idle", "scan", "hit", "stamp", "append"}
Names   == Rules \cup Answers

(* Invariant: ranges, and every slot a header covers, be it the current one*)
(* or one a running Match copied, holds a rule: reading a nil *Rule would  *)
(* end the process (engine.go:160-161).                                    *)
TypeOK ==
  /\ \A a \in DOMAIN heap : heap[a] \in Seq(Rules \cup {Nil})
  /\ rules.arr \in DOMAIN heap /\ rules.len \in 0 .. Len(heap[rules.arr])
  /\ \A i \in 1 .. rules.len : heap[rules.arr][i] \in Rules
  /\ deletion.on \in BOOLEAN /\ deletion.todo \subseteq 1 .. (rules.len - 1)
  /\ deletion.src \in Seq(Rules)
  /\ fresh \subseteq Rules
  /\ hits \in [Rules -> Nat]
  /\ logs \in Seq([by : Sessions, rule : Names, ts : Nat])
  /\ clock \in Nat
  /\ \A s \in Sessions :
       /\ match[s].pc \in MatchPC /\ match[s].q \in Queries \cup {Nil}
       /\ match[s].found \in Names \cup {Nil}
       /\ match[s].pc = "scan" =>
            /\ match[s].arr \in DOMAIN heap
            /\ match[s].len \in 0 .. Len(heap[match[s].arr])
            /\ match[s].idx \in 1 .. (match[s].len + 1)
            /\ \A i \in 1 .. match[s].len : heap[match[s].arr][i] \in Rules

(* Invariant: Match considers and returns only rules that were registered  *)
(* at some moment of the call, however the shared array is rewritten under *)
(* it (engine.go:155-165 against 61-92).                                   *)
OnlyRegistered ==
  \A s \in Sessions :
    /\ match[s].pc = "scan" /\ match[s].idx <= match[s].len => Slot(s) \in seen[s].ever
    /\ match[s].pc = "hit" => /\ match[s].found \in seen[s].ever
                              /\ <<match[s].found, match[s].q>> \in RuleMatches

(* The first rule of the list that matches q, or what answers without one. *)
FirstMatch(list, q) ==
  LET hit == {i \in DOMAIN list : <<list[i], q>> \in RuleMatches}
  IN  IF hit = {} THEN AnswerOf[q] ELSE list[CHOOSE i \in hit : \A j \in hit : i <= j]

(* Invariant: a Match no DeleteRule overlaps returns the first matching    *)
(* rule of the list at its start, whatever is prepended, appended or       *)
(* cleared meanwhile (engine.go:155-165).                                  *)
FirstMatchWins ==
  \A s \in Sessions :
    match[s].pc \in {"hit", "stamp"} /\ ~seen[s].disturbed =>
      match[s].found = FirstMatch(seen[s].list, match[s].q)

(* Refinement: seen from outside mu, the shared slice is the list RuleList *)
(* specifies; a DeleteRule takes effect when it unlocks (engine.go:60-101).*)
List == INSTANCE RuleList WITH list <- Registered
RegistryIsList == List!Spec

Journal == cleared \o logs
InCall(s) == IF match[s].pc = "idle" THEN 0 ELSE 1

(* Invariant: the hit counter of a rule is the number of entries the log   *)
(* ever had for it, plus the calls between IncrementHits and LogQuery; so a*)
(* hit is neither lost nor counted twice by concurrent calls, and ResetLogs*)
(* leaves the counters alone (engine.go:162-163, 120-123, 148-152).        *)
HitsMatchLog ==
  \A r \in Rules :
    hits[r] = Cardinality({i \in DOMAIN Journal : Journal[i].rule = r})
            + Cardinality({s \in Sessions : match[s].pc \in {"stamp", "append"} /\ match[s].found = r})

(* Invariant: every finished call is in the log once, and the entries of   *)
(* one session stand in the order of its calls and of their timestamps,    *)
(* though those of different sessions may not (engine.go:113-123).         *)
SessionOrder ==
  \A s \in Sessions :
    LET mine == {i \in DOMAIN Journal : Journal[i].by = s}
    IN  /\ Cardinality(mine) = calls[s] - InCall(s)
        /\ \A i, j \in mine : i < j => Journal[i].ts < Journal[j].ts

(* What engine.go:154 and docs/API_REFERENCE.md:109 say together: Match    *)
(* searches for a matching rule, and DELETE removes the rule it names. So  *)
(* a rule that matches, is registered all through a call and not the one   *)
(* being deleted is not passed over in favour of a built-in answer.        *)
RuleNotMissed ==
  \A s \in Sessions :
    match[s].pc = "stamp" /\ match[s].found \in Answers =>
      \A r \in seen[s].stay : <<r, match[s].q>> \notin RuleMatches
=============================================================================
