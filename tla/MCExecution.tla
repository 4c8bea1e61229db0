---------------------------- MODULE MCExecution ----------------------------
(* Small instances of Execution for TLC. *)
EXTENDS Execution

CONSTANTS t1, t2, t3, t4, t5, eurusd

\* Three BUY and two SELL trades of one instrument.
MCTerms ==
  [t \in Trade |-> [instrument |-> eurusd,
                    side |-> IF t \in {t1, t2, t3} THEN "BUY" ELSE "SELL"]]
=============================================================================
