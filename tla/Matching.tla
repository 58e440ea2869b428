------------------------------ MODULE Matching ------------------------------
(***************************************************************************)
(* Which queries a rule answers (internal/mock/matcher.go) and which       *)
(* entries of the log an assertion counts (handleAssert, admin/api.go):    *)
(* two comparisons of SQL texts and of parameters, made at different times.*)
(*                                                                         *)
(* A text is a sequence of words in upper case.  The texts in use are such *)
(* that a prefix or a part of one, which the code finds character by       *)
(* character, is one word by word.                                         *)
(***************************************************************************)
EXTENDS Integers, FiniteSets, Sequences, SequencesExt

CONSTANTS
  Strings,     \* the strings of words, names and values
  Nil,         \* a nil byte slice, which is SQL's NULL
  NoPattern,   \* the empty pattern
  PatternHits  \* the pairs <<pattern, text>> such that the pattern compiles and finds the text

ASSUME StringsAssumption ==
  {"", "rule", "tape", "rule-dyn", "SELECT", "OK", "NULL", "any", "word", "int", "bits", "float", "bool", "date",
   "stamp"} \subseteq Strings
ASSUME NilAssumption     == Nil \notin [kind : Strings, n : Int]
ASSUME PatternAssumption == \A hit \in PatternHits : hit[1] # NoPattern

(* wild: the text ends with "..." or "%".  semis: the semicolons behind    *)
(* its last word.  odd: spelled with other blanks or in lower case.        *)
Text(words) == [words |-> words, wild |-> FALSE, semis |-> 0, odd |-> FALSE]

(* A value as text, that of a parameter or of a cell.                      *)
Value(kind, n) == [kind |-> kind, n |-> n]
Null           == Value("NULL", 0)  \* the text NULL
AnyText        == Value("any", 0)   \* the texts * and ANY, where a rule expects a parameter

TextType   == [words : Seq(Strings), wild : BOOLEAN, semis : Nat, odd : BOOLEAN]
ValueType  == [kind : Strings, n : Int] \cup {Nil}
ParamsType == Seq(ValueType)

-----------------------------------------------------------------------------
(* Matcher.                                                                *)

(* What is equal to EqualFold, and what ToUpper maps to the same, is equal.*)
NormalizeSQL(t) == [t EXCEPT !.semis = IF @ = 0 THEN 0 ELSE @ - 1, !.odd = FALSE]

Same(a, b) == NormalizeSQL(a) = NormalizeSQL(b)

WildcardFits(rule, q) ==
  LET r == NormalizeSQL(rule)
  IN  r.wild /\ r.semis = 0 /\ IsPrefix(r.words, NormalizeSQL(q).words)

ParamFits(expected, actual) ==
  \/ expected = AnyText
  \/ expected = Null /\ actual = Nil
  \/ expected # Null /\ actual # Nil /\ expected = actual

ParamsFit(expected, actual) ==
  expected # <<>> => /\ Len(expected) = Len(actual)
                     /\ \A i \in DOMAIN expected : ParamFits(expected[i], actual[i])

Matches(rule, q, params) ==
  /\ ParamsFit(rule.params, params)
  /\ <<rule.pattern, q>> \in PatternHits \/ Same(rule.query, q) \/ WildcardFits(rule.query, q)

-----------------------------------------------------------------------------
(* The log, and assertions about it.                                       *)

LoggedRaw(params) == params  \* mutant: NULL is not written out
Logged(params)    == [i \in DOMAIN params |-> IF params[i] = Nil THEN Null ELSE params[i]]

(* strings.Contains(b, a): a wildcard or a semicolon ends the text, and    *)
(* other blanks or letters in lower case are other characters.             *)
Within(a, b) ==
  /\ a.odd = b.odd
  /\ \E i \in 0 .. (Len(b.words) - Len(a.words)) :
       /\ SubSeq(b.words, i + 1, i + Len(a.words)) = a.words
       /\ a.wild \/ a.semis > 0 =>
            i + Len(a.words) = Len(b.words) /\ a.wild = b.wild /\ a.semis <= b.semis

(* The entries of logs that are calls of the query; none is 0 calls.       *)
CountedRaw(logs, query) == {i \in DOMAIN logs : Within(query, logs[i].query)}  \* mutant: not normalised
Counted(logs, query)    == {i \in DOMAIN logs : Within(NormalizeSQL(query), NormalizeSQL(logs[i].query))}

(* handleAssert: a request has a query and may have a count, a minimum and *)
(* the parameters of one call; {} is a count that is not asked for.        *)
Passes(logs, req) ==
  LET calls == Counted(logs, req.query)
  IN  /\ \A n \in req.count : Cardinality(calls) = n
      /\ \A n \in req.min : Cardinality(calls) >= n
      /\ req.exact # <<>> => \E i \in calls : logs[i].params = req.exact
=============================================================================
