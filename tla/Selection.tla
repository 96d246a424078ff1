------------------------------ MODULE Selection -------------------------------
(***************************************************************************)
(* Filtering and sorting, which the program leaves to the libraries of     *)
(* Dart and Python, in a closed form that can be reasoned about.           *)
(***************************************************************************)
EXTENDS Naturals, Sequences, FiniteSets

(* The numbers of a finite set, the smallest first: the n-th is the one    *)
(* with n - 1 smaller ones.                                                *)
Ascending(K) ==
  [n \in 1..Cardinality(K) |->
     CHOOSE k \in K : Cardinality({j \in K : j < k}) = n - 1]

(* The same numbers, the largest first. *)
Descending(K) ==
  LET up == Ascending(K) IN [n \in DOMAIN up |-> up[Cardinality(K) + 1 - n]]

(* The elements of a sequence that are in S, in the order they stand in.   *)
Only(s, S) ==
  LET at == Ascending({k \in DOMAIN s : s[k] \in S})
  IN  [n \in DOMAIN at |-> s[at[n]]]
=============================================================================
