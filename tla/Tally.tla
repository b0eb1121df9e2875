-------------------------------- MODULE Tally --------------------------------
(***************************************************************************)
(* Sums of natural-number amounts over a finite set of accounts.           *)
(*                                                                         *)
(* An amount n held by account i is the n units <<i, 1>> .. <<i, n>>, so    *)
(* the sum over a set of accounts is the number of its units.  Stated that *)
(* way a sum needs no recursion, and the facts about it (TallyProofs)      *)
(* follow from the facts about finite sets.                                *)
(***************************************************************************)
EXTENDS Integers, FiniteSets

Units(f, S) == UNION { {i} \X (1 .. f[i]) : i \in S }

Total(f, S) == Cardinality(Units(f, S))
=============================================================================
