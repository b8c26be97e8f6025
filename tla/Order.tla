------------------------------- MODULE Order --------------------------------
(***************************************************************************)
(* Picking members of a list, as the list comprehensions and the sort of   *)
(* the program do.  It is stated by what the result is instead of by a     *)
(* recursion over the list, so that it can be reasoned about.              *)
(***************************************************************************)
EXTENDS SequencesExt

\* x comes before y in the list s.
Before(s, x, y) == \E m, n \in DOMAIN s : m < n /\ s[m] = x /\ s[n] = y

\* The members S of a list s without repetitions, in the order of s.  There is
\* exactly one such list; a set of it is as good in a model.
Picked(s, S) ==
  {c \in [1..Cardinality(S) -> S] :
     /\ ToSet(c) = S
     /\ \A i, j \in DOMAIN c : i < j => Before(s, c[i], c[j])}
=============================================================================
