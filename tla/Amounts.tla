------------------------------ MODULE Amounts ------------------------------
(***************************************************************************)
(* Sums of non-negative amounts.                                           *)
(*                                                                         *)
(* The program adds amounts up in loops over maps and slices (Big.Add).    *)
(* The sum is written here as a count: an amount n is n numbered coins,    *)
(* and a sum is the number of all the coins.  A count needs no recursion,  *)
(* so the facts of FiniteSetTheorems about Cardinality apply to it in the  *)
(* proofs; on the small amounts of the model-checking runs it is as cheap  *)
(* as a fold.                                                              *)
(***************************************************************************)
EXTENDS Integers, FiniteSets

\* The coins of a family f of amounts, each named by the member that holds
\* it and a number.
Coins(f) == UNION {{x} \X (1..f[x]) : x \in DOMAIN f}

\* The sum of a family of natural numbers over a finite domain.
Total(f) == Cardinality(Coins(f))
=============================================================================
