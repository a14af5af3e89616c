------------------------------ MODULE Delivery ------------------------------
(***************************************************************************)
(* What the transaction manager of a Chainlink node promises to those who  *)
(* create transactions, without nonces, prices, attempts and crashes: a    *)
(* transaction is carried out at most once, it is reported done only after *)
(* it was carried out, and one that is reported failed never is.  Only     *)
(* what is given up on the way by a reset is left in doubt.  The chain may *)
(* undo what it did; a report on it is then withdrawn, and the transaction *)
(* carried out again.  Broadcaster implements it.                          *)
(***************************************************************************)

CONSTANT Tx   \* the transactions

VARIABLES
  status,      \* none, waiting, sending, done, failed, abandoned or forgotten
  carriedOut,  \* the transactions that the chain has carried out
  undone       \* those that are reported done and were undone since

deliveryVars == <<status, carriedOut, undone>>

With(s) == {t \in Tx : status[t] = s}
Outstanding == With("waiting") \cup With("sending")

DeliveryInit ==
  /\ status = [t \in Tx |-> "none"]
  /\ carriedOut = {}
  /\ undone = {}

-----------------------------------------------------------------------------
\* t comes to the queue, and for that the ones of S may be thrown out of it.
Submit(t, S) ==
  /\ status[t] = "none"
  /\ S \subseteq With("waiting")
  /\ status' = [u \in Tx |-> IF u = t THEN "waiting"
                             ELSE IF u \in S THEN "forgotten" ELSE status[u]]
  /\ UNCHANGED <<carriedOut, undone>>

Becomes(t, s) == status' = [status EXCEPT ![t] = s] /\ UNCHANGED carriedOut

Begin(t) == status[t] = "waiting" /\ Becomes(t, "sending") /\ UNCHANGED undone

Fail(t) == t \in Outstanding \ carriedOut /\ Becomes(t, "failed") /\ UNCHANGED undone

Report(t) ==
  status[t] = "sending" /\ t \in carriedOut /\ Becomes(t, "done") /\ UNCHANGED undone

\* A report is withdrawn only after the chain has undone what it was about.
Withdraw(t) == t \in undone /\ Becomes(t, "sending") /\ undone' = undone \ {t}

\* What is done, and was not undone, is forgotten in the end.
Forget(t) ==
  /\ status[t] = "done"
  /\ t \in carriedOut \ undone
  /\ Becomes(t, "forgotten")
  /\ UNCHANGED undone

\* The chain carries out t, which may have been given up on its way.
CarryOut(t) ==
  /\ status[t] \in {"sending", "abandoned"} \/ t \in undone
  /\ t \notin carriedOut
  /\ carriedOut' = carriedOut \cup {t}
  /\ UNCHANGED <<status, undone>>

\* The chain undoes S, of which nothing is forgotten.
Undo(S) ==
  /\ S \subseteq carriedOut \ With("forgotten")
  /\ carriedOut' = carriedOut \ S
  /\ undone' = undone \cup (S \cap With("done"))
  /\ UNCHANGED status

\* All that is not settled is given up.
GiveUp ==
  /\ status' = [t \in Tx |-> IF t \in Outstanding THEN "abandoned" ELSE status[t]]
  /\ UNCHANGED <<carriedOut, undone>>

DeliveryNext ==
  \/ \E t \in Tx :
       \/ \E S \in SUBSET Tx : Submit(t, S)
       \/ Begin(t) \/ Fail(t) \/ Report(t) \/ Withdraw(t) \/ Forget(t) \/ CarryOut(t)
  \/ \E S \in SUBSET Tx : Undo(S)
  \/ GiveUp

DeliverySpec == DeliveryInit /\ [][DeliveryNext]_deliveryVars

-----------------------------------------------------------------------------
\* What is reported agrees with what was carried out: what is done is, unless
\* the chain has undone it, and what waits or failed is not.
ReportsAreTrue ==
  /\ With("done") \subseteq carriedOut \cup undone
  /\ undone \subseteq With("done")
  /\ carriedOut \cap (With("none") \cup With("waiting") \cup With("failed")) = {}
=============================================================================
