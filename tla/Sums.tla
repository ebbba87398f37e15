--------------------------------- MODULE Sums ---------------------------------
(***************************************************************************)
(* Sums over finite sets.  A sum of natural numbers is the size of a       *)
(* disjoint union, so that what the proofs need of sums follows from what  *)
(* is known of cardinality (SumLemmas); one of integers is what is gained  *)
(* less what is lost.                                                      *)
(***************************************************************************)
EXTENDS Integers, FiniteSets

\* w[s] units of every s in S.
Units(w, S) == UNION {{<<s, n>> : n \in 1 .. w[s]} : s \in S}

\* The sum of w[s] for the s in S.
Sum(w, S) == Cardinality(Units(w, S))

Gains(w)  == [s \in DOMAIN w |-> IF w[s] > 0 THEN w[s] ELSE 0]
Losses(w) == [s \in DOMAIN w |-> IF w[s] < 0 THEN -w[s] ELSE 0]

\* The sum where w[s] may be negative.
Net(w, S) == Sum(Gains(w), S) - Sum(Losses(w), S)
===============================================================================
