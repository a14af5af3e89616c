-------------------------------- MODULE Sums --------------------------------
(***************************************************************************)
(* The sum of a mapping of natural numbers, defined by counting units: a   *)
(* mapping that holds f[a] for a has the units <<a, 0>> .. <<a, f[a] - 1>>.  *)
(* With it a sum needs no recursion, so that facts about sums follow from  *)
(* those about the cardinality of finite sets (see DataLemmas).            *)
(***************************************************************************)
EXTENDS Integers, FiniteSets

Units(f) == UNION {{a} \X (0 .. f[a] - 1) : a \in DOMAIN f}

Total(f) == Cardinality(Units(f))

=============================================================================
