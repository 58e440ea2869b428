------------------------------ MODULE RuleList ------------------------------
(***************************************************************************)
(* What the rule registry promises (engine.go:60-101, and the admin API on *)
(* top of it): an ordered list of rules, changed by one atomic operation   *)
(* at a time.  Engine implements it on a shared, growing Go slice.         *)
(***************************************************************************)
EXTENDS Integers, Sequences, SequencesExt

CONSTANTS Rules, Ids, IdOf, InitRules

VARIABLE list

Insert(r) == r \notin ToSet(list) /\ list' = <<r>> \o list   \* PrependRule
Add(r)    == r \notin ToSet(list) /\ list' = Append(list, r) \* AddRule

(* DeleteRule: the first rule with this id goes, the others keep their order. *)
Delete(id) ==
  \E i \in DOMAIN list :
    /\ IdOf[list[i]] = id
    /\ \A j \in 1 .. (i - 1) : IdOf[list[j]] # id
    /\ list' = RemoveAt(list, i)

Clear == list' = <<>>

Next == Clear \/ (\E r \in Rules : Insert(r) \/ Add(r)) \/ (\E id \in Ids : Delete(id))

Spec == list = InitRules /\ [][Next]_list
=============================================================================
