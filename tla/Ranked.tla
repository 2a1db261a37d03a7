------------------------------- MODULE Ranked -------------------------------
(***************************************************************************)
(* Sets of integers as the sequences they make in order: the modules of a  *)
(* flow file are numbered in the order of their lines, and so are the      *)
(* names on a line.                                                        *)
(***************************************************************************)
EXTENDS Integers, FiniteSets

(* How many members of S are at most k.                                    *)
Rank(S, k) == Cardinality({ x \in S : x <= k })

(* The n-th member of S, counted from 1.                                   *)
Nth(S, n) == CHOOSE x \in S : Rank(S, x) = n
=============================================================================
