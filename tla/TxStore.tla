------------------------------ MODULE TxStore ------------------------------
(***************************************************************************)
(* The transactions a Chainlink node keeps in its database for one key     *)
(* (evm_tx_store.go), as the broadcaster and the confirmer share them.     *)
(*                                                                         *)
(* A transaction is the number of its row, so that a smaller one was       *)
(* created earlier.  An attempt of a transaction is its gas price: a       *)
(* unique index allows one attempt for each price.                         *)
(***************************************************************************)
EXTENDS Integers, FiniteSets

CONSTANTS
  MaxTx,    \* bound: the rows ever inserted
  MaxFee,   \* the highest gas price, in bumps
  NoNonce   \* a NULL nonce

ASSUME TxStoreAssumption ==
  /\ MaxTx \in Nat
  /\ MaxFee \in Nat \ {0}
  /\ NoNonce \notin Nat

Tx == 1 .. MaxTx
Fee == 1 .. MaxFee

\* "new" is a row not yet inserted, "removed" one that was deleted; "abandoned"
\* is fatal_error with the error 'abandoned'.
TxState ==
  {"new", "unstarted", "in_progress", "unconfirmed", "confirmed",
   "confirmed_missing_receipt", "fatal_error", "abandoned", "removed"}

\* "none" is an attempt that is not in the table.
AttemptState == {"none", "in_progress", "broadcast", "insufficient_eth"}

VARIABLES
  state,     \* evm.txes.state
  nonce,     \* evm.txes.nonce
  attempts   \* evm.tx_attempts.state, by transaction and gas price

storeVars == <<state, nonce, attempts>>

NoAttempts == [f \in Fee |-> "none"]

StoreInit ==
  /\ state = [t \in Tx |-> "new"]
  /\ nonce = [t \in Tx |-> NoNonce]
  /\ attempts = [t \in Tx |-> NoAttempts]

In(S) == {t \in Tx : state[t] \in S}

\* The highest priced attempt of t, which LoadTxAttempts puts first.
Highest(t) ==
  CHOOSE f \in Fee : /\ attempts[t][f] # "none"
                     /\ \A g \in Fee : attempts[t][g] # "none" => g <= f

StoreTypeOK ==
  /\ state \in [Tx -> TxState]
  /\ nonce \in [Tx -> Nat \cup {NoNonce}]
  /\ attempts \in [Tx -> [Fee -> AttemptState]]
=============================================================================
