-------------------------------- MODULE Sums --------------------------------
(***************************************************************************)
(* The sum of a sequence of integers, as a recursive function: a form that *)
(* can be reasoned about (SumsProofs) as well as evaluated.                *)
(***************************************************************************)
EXTENDS Integers, Sequences

SumOf(v) ==
  LET sum[i \in 0 .. Len(v)] == IF i = 0 THEN 0 ELSE sum[i - 1] + v[i]
  IN  sum[Len(v)]
=============================================================================
