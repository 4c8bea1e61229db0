--------------------------- MODULE MCOandaAccount ---------------------------
(* A small instance of OandaAccount for TLC: two wrappers of one account,   *)
(* in which an order is waiting when the program starts.                    *)
EXTENDS OandaAccount, TLC

MCHistory == <<"o1" :> "lives">>

MCSymmetry == Permutations(Wrappers)
=============================================================================
