--------------------------- MODULE MCBroadcaster ---------------------------
(***************************************************************************)
(* The broadcaster with few transactions, prices, crashes, resets and      *)
(* re-organisations; the first transaction has the greatest value, and is  *)
(* sent last.                                                              *)
(***************************************************************************)
EXTENDS Broadcaster

MCTxValue == [t \in Tx |-> IF t = 1 THEN 1 ELSE 0]
=============================================================================
