---------------------------- MODULE MCConfirmer ----------------------------
(***************************************************************************)
(* The confirmer with few transactions, prices, blocks and one             *)
(* re-organisation.                                                        *)
(***************************************************************************)
EXTENDS Confirmer
=============================================================================
