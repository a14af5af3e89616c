---------------------------- MODULE Broadcaster ----------------------------
(***************************************************************************)
(* The broadcaster of a Chainlink node for one key (broadcaster.go), the   *)
(* part that gives unstarted transactions their nonces and hands them to   *)
(* an Ethereum node, beside the clients that create transactions, the      *)
(* transaction manager that resets it (txmgr.go), crashes, the reaper and  *)
(* the resender.  The confirmer is here only what it does to the number in *)
(* flight: a mined transaction is confirmed, and after a re-organisation   *)
(* it comes back.  The module Confirmer has the rest of it.                *)
(*                                                                         *)
(* The Ethereum node is external: what it accepted and has not mined       *)
(* (pool), and what it mined, one transaction for each nonce.  What a      *)
(* re-organisation drops is in the pool again.                             *)
(***************************************************************************)
EXTENDS TxStore, Sequences

CONSTANTS
  MaxInFlight,  \* Transactions.MaxInFlight
  QueueSize,    \* the queue size of the DropOldestStrategy
  TxValue,      \* evm.txes.value
  MaxStops,     \* bound: crashes and resets
  MaxReorgs,    \* bound: re-organisations
  MaxNonce      \* bound: nonces that are looked at

ASSUME BroadcasterAssumption ==
  /\ {MaxInFlight, QueueSize, MaxStops, MaxReorgs, MaxNonce} \subseteq Nat
  /\ TxValue \in [Tx -> Nat]
  /\ MaxInFlight > 0
  /\ QueueSize > 0

Answer == {"none", "ok", "fatal", "underpriced", "fee_out_of_range", "retry", "unknown"}

VARIABLES
  stage,     \* how far processUnstartedTxs is; "off" while the node is down
  current,   \* the transaction it handles, 0 if none
  answer,    \* what the Ethereum node said of it
  next,      \* nextSequenceMap, lost with the process
  pool,      \* what the Ethereum node has accepted and not mined
  mined,     \* the mined attempts by nonce, a sequence
  stops,     \* how often the node has stopped
  leftOver,  \* history: a start has found a transaction in progress
  slipped,   \* history: whether an error has put next out of step, and if it
             \* still is
  stale,     \* the confirmed transactions whose block was dropped
  returned,  \* history: those that have come back from confirmed
  reorgs     \* how often the chain was re-organised

confirmerVars == <<stale, returned, reorgs>>
broadcasterVars ==
  <<state, nonce, attempts, stage, current, answer, next, pool, mined, stops, leftOver, slipped,
    confirmerVars>>

BroadcasterInit ==
  /\ StoreInit
  /\ stage = "off"
  /\ current = 0
  /\ answer = "none"
  /\ next = 0
  /\ pool = {}
  /\ mined = <<>>
  /\ stops = 0
  /\ leftOver = FALSE
  /\ slipped = "never"
  /\ stale = {}
  /\ returned = {}
  /\ reorgs = 0

-----------------------------------------------------------------------------
(***************************************************************************)
(* The Ethereum node.                                                      *)
(***************************************************************************)
Attempt(t, f) == [tx |-> t, nonce |-> nonce[t], fee |-> f]

\* The attempt t is already mined, known, or cheaper than another in the pool.
Known(a) ==
  \/ a.nonce < Len(mined)
  \/ \E p \in pool : p.nonce = a.nonce /\ p.fee >= a.fee

\* The pool with the attempt a in it.
Taken(a) ==
  IF Known(a) THEN pool ELSE {p \in pool : p.nonce # a.nonce} \cup {a}

\* PendingSequenceAt returns n.
Pending(n) ==
  /\ n >= Len(mined)
  /\ ~ \E p \in pool : p.nonce = n
  /\ \A m \in Len(mined) .. (n - 1) : \E p \in pool : p.nonce = m

Mine ==
  \E p \in pool :
    /\ p.nonce = Len(mined)
    /\ mined' = Append(mined, p)
    /\ pool' = pool \ {p}
    /\ UNCHANGED <<state, nonce, attempts, stage, current, answer, next, stops, leftOver, slipped, confirmerVars>>

\* The last blocks are dropped, though none that the reaper has gone by: it
\* stays behind the depth down to which re-organisations are looked for.
Reorg ==
  /\ reorgs < MaxReorgs
  /\ \E k \in 0 .. (Len(mined) - 1) :
       LET dropped == {mined[i] : i \in (k + 1) .. Len(mined)}
       IN  /\ \A a \in dropped : state[a.tx] # "removed"
           /\ mined' = SubSeq(mined, 1, k)
           /\ pool' = pool \cup dropped
           /\ stale' = stale \cup {t \in In({"confirmed"}) : \E a \in dropped : a.tx = t}
  /\ reorgs' = reorgs + 1
  /\ UNCHANGED <<state, nonce, attempts, stage, current, answer, next, stops, leftOver, slipped, returned>>

-----------------------------------------------------------------------------
(***************************************************************************)
(* Clients, confirmer, resender and reaper.                                *)
(***************************************************************************)
Unstarted == In({"unstarted"})

\* PruneUnstartedTxQueue keeps the newest QueueSize rows.  It runs on a
\* connection of its own, and does not see the row that is being inserted.
Pruned == {t \in Unstarted : Cardinality({u \in Unstarted : u > t}) >= QueueSize}

CreateTransaction(t) ==
  /\ state[t] = "new"
  /\ \A u \in Tx : u < t => state[u] # "new"
  /\ state' = [u \in Tx |-> IF u = t THEN "unstarted"
                            ELSE IF u \in Pruned THEN "removed" ELSE state[u]]
  /\ UNCHANGED <<nonce, attempts, stage, current, answer, next, pool, mined, stops, leftOver, slipped, confirmerVars>>

\* The confirmer has found the receipt of t.
Confirm(t) ==
  /\ state[t] = "unconfirmed"
  /\ \E i \in DOMAIN mined : mined[i].tx = t
  /\ state' = [state EXCEPT ![t] = "confirmed"]
  /\ returned' = returned \ {t}
  /\ UNCHANGED <<nonce, attempts, stage, current, answer, next, pool, mined, stops, leftOver, slipped, stale, reorgs>>

\* UpdateTxForRebroadcast: the block of its receipt is not in the chain, and it
\* is unconfirmed again, however many others are.  That the confirmer sends its
\* attempt again is a Resend here.
Unconfirm(t) ==
  /\ state[t] = "confirmed"
  /\ t \in stale
  /\ state' = [state EXCEPT ![t] = "unconfirmed"]
  /\ stale' = stale \ {t}
  /\ returned' = returned \cup {t}
  /\ UNCHANGED <<nonce, attempts, stage, current, answer, next, pool, mined, stops, leftOver, slipped, reorgs>>

\* The resender sends the highest priced attempt again.
Resend(t) ==
  /\ state[t] = "unconfirmed"
  /\ pool' = Taken(Attempt(t, Highest(t)))
  /\ UNCHANGED <<state, nonce, attempts, stage, current, answer, next, mined, stops, leftOver, slipped, confirmerVars>>

\* The reaper deletes an old confirmed transaction with its attempts.
Reap(t) ==
  /\ state[t] = "confirmed"
  /\ \E i \in DOMAIN mined : mined[i].tx = t
  /\ t \notin stale
  /\ state' = [state EXCEPT ![t] = "removed"]
  /\ nonce' = [nonce EXCEPT ![t] = NoNonce]
  /\ attempts' = [attempts EXCEPT ![t] = NoAttempts]
  /\ UNCHANGED <<stage, current, answer, next, pool, mined, stops, leftOver, slipped, confirmerVars>>

-----------------------------------------------------------------------------
(***************************************************************************)
(* Start and stop.                                                         *)
(***************************************************************************)
Taking(t) == nonce[t] # NoNonce

\* Mutant: the last nonce in the table is given again.
LoadedLast(n) ==
  IF \A t \in Tx : ~Taking(t) THEN Pending(n)
  ELSE /\ \A t \in Tx : Taking(t) => nonce[t] <= n
       /\ \E t \in Tx : Taking(t) /\ nonce[t] = n

\* FindLatestSequence gives n: one more than the last nonce in the table.
\* Without any it is the one of the Ethereum node.
Loaded(n) ==
  IF \A t \in Tx : ~Taking(t) THEN Pending(n)
  ELSE /\ \A t \in Tx : Taking(t) => nonce[t] < n
       /\ \E t \in Tx : Taking(t) /\ nonce[t] + 1 = n

\* startInternal loads the map, and getSequenceForAddr takes the nonce of the
\* Ethereum node also when the query of the table fails.  If monitorTxs is to
\* (NonceAutoSync), and gets an answer, it moves the map forward to it.
Start ==
  /\ stage = "off"
  /\ \E local, chain \in 0 .. MaxNonce, failed \in BOOLEAN :
       /\ IF failed THEN Pending(local) ELSE Loaded(local)
       /\ Pending(chain)
       /\ next' \in {local, IF chain > local THEN chain ELSE local}
       /\ slipped' = IF failed /\ \E t \in Tx : Taking(t) THEN "now"
                     ELSE IF slipped = "now" THEN "before" ELSE slipped
  /\ stage' = "idle"
  /\ leftOver' = (leftOver \/ In({"in_progress"}) # {})
  /\ UNCHANGED <<state, nonce, attempts, current, answer, pool, mined, stops, confirmerVars>>

\* A crash, or the closeInternal of a reset or of a change of keys, which
\* cancels what the goroutine is at.
Stop ==
  /\ stage # "off"
  /\ stops < MaxStops
  /\ stops' = stops + 1
  /\ stage' = "off"
  /\ current' = 0
  /\ answer' = "none"
  /\ next' = 0
  /\ UNCHANGED <<state, nonce, attempts, pool, mined, leftOver, slipped, confirmerVars>>

\* Mutant: the nonces are kept.
NoncesKept(dropped) == nonce

NoncesWithout(dropped) == [t \in Tx |-> IF t \in dropped THEN NoNonce ELSE nonce[t]]

\* Reset(abandon) between its stop and its start.
Abandon ==
  LET dropped == In({"unconfirmed", "in_progress", "unstarted"})
  IN  /\ stage = "off"
      /\ stops > 0
      /\ dropped # {}
      /\ state' = [t \in Tx |-> IF t \in dropped THEN "abandoned" ELSE state[t]]
      /\ nonce' = NoncesWithout(dropped)
      /\ UNCHANGED <<attempts, stage, current, answer, next, pool, mined, stops, leftOver, slipped, confirmerVars>>

-----------------------------------------------------------------------------
(***************************************************************************)
(* processUnstartedTxs.                                                    *)
(***************************************************************************)
\* handleAnyInProgressTx: a transaction left in progress comes first.
Resume(t) ==
  /\ stage = "idle"
  /\ state[t] = "in_progress"
  /\ stage' = "send"
  /\ current' = t
  /\ UNCHANGED <<state, nonce, attempts, answer, next, pool, mined, stops, leftOver, slipped, confirmerVars>>

\* Mutant: confirmed transactions count as well.
RoomBesidesAll == Cardinality(In({"unconfirmed", "confirmed"})) < MaxInFlight

\* Mutant: one too many.
RoomForOneMore == Cardinality(In({"unconfirmed"})) <= MaxInFlight

Room == Cardinality(In({"unconfirmed"})) < MaxInFlight

\* FindNextUnstartedTransactionFromAddress takes the one of the least value
\* first, and of those the oldest.
ComesBefore(t, u) == TxValue[t] < TxValue[u] \/ (TxValue[t] = TxValue[u] /\ t <= u)

\* nextUnstartedTransactionWithSequence, when fewer than MaxInFlight are on
\* their way.  The row is read here and written only in Claim.
Pick(t) ==
  /\ stage = "idle"
  /\ In({"in_progress"}) = {}
  /\ Room
  /\ t \in Unstarted
  /\ \A u \in Unstarted : ComesBefore(t, u)
  /\ stage' = "picked"
  /\ current' = t
  /\ UNCHANGED <<state, nonce, attempts, answer, next, pool, mined, stops, leftOver, slipped, confirmerVars>>

\* The transmit checker refuses the transaction.
Refuse ==
  /\ stage = "picked"
  /\ state[current] = "unstarted"
  /\ state' = [state EXCEPT ![current] = "fatal_error"]
  /\ stage' = "idle"
  /\ current' = 0
  /\ UNCHANGED <<nonce, attempts, answer, next, pool, mined, stops, leftOver, slipped, confirmerVars>>

\* No attempt can be built, because no price is known, say.
PutBack ==
  /\ stage = "picked"
  /\ stage' = "idle"
  /\ current' = 0
  /\ UNCHANGED <<state, nonce, attempts, answer, next, pool, mined, stops, leftOver, slipped, confirmerVars>>

\* UpdateTxUnstartedToInProgress.  A row that was pruned meanwhile, or a nonce
\* that another transaction has, which a unique index refuses, ends the call.
Claim ==
  /\ stage = "picked"
  /\ IF state[current] = "unstarted" /\ \A t \in Tx : nonce[t] # next
     THEN /\ state' = [state EXCEPT ![current] = "in_progress"]
          /\ nonce' = [nonce EXCEPT ![current] = next]
          /\ attempts' = [attempts EXCEPT ![current] = [NoAttempts EXCEPT ![1] = "in_progress"]]
          /\ stage' = "send"
          /\ UNCHANGED current
     ELSE /\ stage' = "idle"
          /\ current' = 0
          /\ UNCHANGED <<state, nonce, attempts>>
  /\ UNCHANGED <<answer, next, pool, mined, stops, leftOver, slipped, confirmerVars>>

InProgressFee(t) == CHOOSE f \in Fee : attempts[t][f] = "in_progress"
Sent == Attempt(current, InProgressFee(current))

\* The Ethereum node takes the attempt, or has it already.  Its answer is good
\* or is lost on the way.
Accept ==
  /\ stage = "send"
  /\ pool' = Taken(Sent)
  /\ answer' \in {"ok", "unknown", "retry"}
  /\ stage' = "save"
  /\ UNCHANGED <<state, nonce, attempts, current, next, mined, stops, leftOver, slipped, confirmerVars>>

\* It does not take the attempt: for ever, at this price, for now, with an
\* error that the client does not know, or because it is busy, which counts as
\* sent (IsTemporarilyUnderpriced).
Reject ==
  /\ stage = "send"
  /\ ~Known(Sent)
  /\ answer' \in {"fatal", "underpriced", "fee_out_of_range", "retry", "unknown", "ok"}
  /\ stage' = "save"
  /\ UNCHANGED <<state, nonce, attempts, current, next, pool, mined, stops, leftOver, slipped, confirmerVars>>

\* UpdateTxAttemptInProgressToBroadcast.
Saved ==
  /\ state' = [state EXCEPT ![current] = "unconfirmed"]
  /\ attempts' = [attempts EXCEPT ![current][InProgressFee(current)] = "broadcast"]

\* The attempt counts as sent: the answer says so, or it is not understood
\* and the Ethereum node's pending nonce is past the transaction's.
CountsAsSent ==
  \/ answer = "ok"
  \/ answer = "unknown" /\ \E n \in 0 .. MaxNonce : Pending(n) /\ n > nonce[current]

\* The row is saved, and the map gets one more than it held before the save,
\* which need not be the nonce of the transaction.
SaveSent ==
  /\ stage = "save"
  /\ CountsAsSent
  /\ Saved
  /\ next' = next + 1
  /\ stage' = "idle"
  /\ current' = 0
  /\ answer' = "none"
  /\ UNCHANGED <<nonce, pool, mined, stops, leftOver, slipped, confirmerVars>>

\* The row is saved, but the answer of the database is lost, and the error
\* returns before IncrementNextSequence.
SaveSentLost ==
  /\ stage = "save"
  /\ CountsAsSent
  /\ Saved
  /\ stage' = "idle"
  /\ current' = 0
  /\ answer' = "none"
  /\ slipped' = "now"
  /\ UNCHANGED <<nonce, next, pool, mined, stops, leftOver, confirmerVars>>

\* Mutant: also a transaction whose fate is unknown is given up.
FatalOrUnknown == answer \in {"fatal", "unknown"}

GivenUp == answer = "fatal"

\* Mutant: the nonce counts as used.
DiscardCounted ==
  /\ state' = [state EXCEPT ![current] = "fatal_error"]
  /\ nonce' = [nonce EXCEPT ![current] = NoNonce]
  /\ attempts' = [attempts EXCEPT ![current] = NoAttempts]
  /\ next' = next + 1

\* saveFatallyErroredTransaction frees the nonce; the map stays as it is.
Discard ==
  /\ state' = [state EXCEPT ![current] = "fatal_error"]
  /\ nonce' = [nonce EXCEPT ![current] = NoNonce]
  /\ attempts' = [attempts EXCEPT ![current] = NoAttempts]
  /\ UNCHANGED next

SaveFatal ==
  /\ stage = "save"
  /\ GivenUp
  /\ Discard
  /\ stage' = "idle"
  /\ current' = 0
  /\ answer' = "none"
  /\ UNCHANGED <<pool, mined, stops, leftOver, slipped, confirmerVars>>

\* saveTryAgainAttempt replaces the attempt and sends again: after
\* tryAgainBumpingGas at a higher price, after tryAgainWithNewEstimation at
\* any, the same or a lower one included.
TryAgain(fee) ==
  /\ stage = "save"
  /\ attempts' = [attempts EXCEPT ![current] = [NoAttempts EXCEPT ![fee] = "in_progress"]]
  /\ stage' = "send"
  /\ answer' = "none"
  /\ UNCHANGED <<state, nonce, current, next, pool, mined, stops, leftOver, slipped, confirmerVars>>

Bump == \E fee \in Fee : answer = "underpriced" /\ fee > InProgressFee(current) /\ TryAgain(fee)

NewEstimation == \E fee \in Fee : answer = "fee_out_of_range" /\ TryAgain(fee)

\* Mutant: the transaction goes back to the queue.
RetryFromQueue ==
  /\ stage = "save"
  /\ state' = [state EXCEPT ![current] = "unstarted"]
  /\ nonce' = [nonce EXCEPT ![current] = NoNonce]
  /\ attempts' = [attempts EXCEPT ![current] = NoAttempts]
  /\ stage' = "idle"
  /\ current' = 0
  /\ answer' = "none"
  /\ UNCHANGED <<next, pool, mined, stops, leftOver, slipped, confirmerVars>>

\* The transaction stays in progress and is tried again later: the error may
\* go away, the price cannot be raised, or nothing could be saved.
Retry ==
  /\ stage = "save"
  /\ stage' = "idle"
  /\ current' = 0
  /\ answer' = "none"
  /\ UNCHANGED <<state, nonce, attempts, next, pool, mined, stops, leftOver, slipped, confirmerVars>>

-----------------------------------------------------------------------------
BroadcasterNext ==
  \/ Start \/ Stop \/ Abandon
  \/ \E t \in Tx :
       \/ CreateTransaction(t) \/ Confirm(t) \/ Unconfirm(t) \/ Resend(t) \/ Reap(t)
       \/ Resume(t) \/ Pick(t)
  \/ Refuse \/ PutBack \/ Claim \/ Accept \/ Reject
  \/ SaveSent \/ SaveSentLost \/ SaveFatal \/ Bump \/ NewEstimation \/ Retry
  \/ Mine \/ Reorg

BroadcasterSpec == BroadcasterInit /\ [][BroadcasterNext]_broadcasterVars

\* What the goroutine of the broadcaster does next, a refusal of the checker and
\* errors before the claim apart.
Goroutine ==
  \/ Start
  \/ \E t \in Tx : Resume(t) \/ Pick(t)
  \/ Accept \/ Reject
  \/ SaveFatal \/ Bump \/ NewEstimation \/ Retry

\* The goroutine goes on, as do the chain, the confirmer and the resender; the
\* Ethereum node accepts what it is sent again and again, a picked row is not
\* always put back, and what is to be saved is not always lost.
FairBroadcaster ==
  /\ BroadcasterSpec
  /\ WF_broadcasterVars(Goroutine)
  /\ SF_broadcasterVars(Refuse \/ Claim)
  /\ SF_broadcasterVars(Accept /\ answer' = "ok")
  /\ SF_broadcasterVars(SaveSent)
  /\ WF_broadcasterVars(Mine)
  /\ WF_broadcasterVars(\E t \in Tx : Confirm(t))
  /\ WF_broadcasterVars(\E t \in Tx : Resend(t))

-----------------------------------------------------------------------------
(***************************************************************************)
(* Properties.                                                             *)
(***************************************************************************)
\* The types, and what belongs together: a transaction is at hand exactly in
\* the stages that handle one, and has a nonce exactly in the states in which
\* the table's check allows one.
BroadcasterTypeOK ==
  /\ StoreTypeOK
  /\ stage \in {"off", "idle", "picked", "send", "save"}
  /\ current \in Tx \cup {0}
  /\ stage \in {"picked", "send", "save"} <=> current # 0
  /\ answer \in Answer
  /\ answer # "none" <=> stage = "save"
  /\ next \in Nat
  /\ stops \in 0 .. MaxStops
  /\ slipped \in {"never", "now", "before"}
  /\ stale \subseteq In({"confirmed"})
  /\ returned \subseteq Tx
  /\ \A t \in Tx : Taking(t) <=> state[t] \in {"in_progress", "unconfirmed", "confirmed"}

\* The nonce the broadcaster gives next is above every nonce in the table,
\* except that of a transaction still in progress, over restarts, resets and
\* deletions of old rows, unless one of two errors has put it out of step: the
\* query of the table failed at the start, or a row was saved and the answer
\* lost.  The next start with a query that succeeds puts it right.
NextNonceIsFree ==
  stage # "off" /\ slipped # "now" =>
    \A t \in Tx : Taking(t) =>
      nonce[t] < next \/ (state[t] = "in_progress" /\ nonce[t] = next)

\* So the unique index never refuses the nonce of a picked transaction.
IndexNeverRefuses == stage = "picked" /\ slipped # "now" => \A t \in Tx : nonce[t] # next

\* Whatever the Ethereum node has accepted is in the table, with its attempt
\* and its nonce, unless it was abandoned or is old: no crash between sending
\* and saving, and no verdict, loses a transaction that may be mined.
SentIsSaved ==
  \A a \in pool \cup {mined[i] : i \in DOMAIN mined} :
    \/ state[a.tx] \in {"abandoned", "removed"}
    \/ nonce[a.tx] = a.nonce /\ attempts[a.tx][a.fee] # "none"

\* No transaction is accepted under two nonces: however often it is tried
\* again after a crash or an error, it is carried out once.
SentUnderOneNonce ==
  \A a, b \in pool \cup {mined[i] : i \in DOMAIN mined} :
    a.tx = b.tx => a.nonce = b.nonce

\* The nonces below that of an unconfirmed transaction are all held by others,
\* or mined, or with the Ethereum node, so that it can be mined.
Held(n) ==
  \/ n < Len(mined)
  \/ \E t \in Tx : nonce[t] = n
  \/ \E p \in pool : p.nonce = n

NoNonceGap ==
  \A t \in In({"unconfirmed"}) : \A n \in 0 .. MaxNonce : n < nonce[t] => Held(n)

\* The series has a gap only if the broadcaster has been started with a
\* transaction in progress: see NoNonceGap, which fails then.
GapOnlyAfterLeftOver == leftOver \/ NoNonceGap

\* The transactions on their way, left over ones included, are at most
\* MaxInFlight, besides those that a re-organisation has brought back, which
\* nobody counts.
InFlightBounded ==
  Cardinality(In({"in_progress", "unconfirmed"}) \ returned) <= MaxInFlight

\* However often the node stops, is reset or gets no answer, the broadcaster
\* implements Delivery: a transaction is mined at most once on any chain, it is
\* confirmed only after that and comes back only when its block was dropped,
\* and it is never mined after its fatal_error.
StatusOf ==
  [new |-> "none", unstarted |-> "waiting", in_progress |-> "sending",
   unconfirmed |-> "sending", confirmed |-> "done", fatal_error |-> "failed",
   abandoned |-> "abandoned", removed |-> "forgotten"]
StatusInTable == [t \in Tx |-> StatusOf[state[t]]]
MinedTx == {mined[i].tx : i \in DOMAIN mined}
Abstract == INSTANCE Delivery
  WITH status <- StatusInTable, carriedOut <- MinedTx, undone <- stale
ImplementsDelivery == Abstract!DeliverySpec

\* Every transaction that waits is sent, given up, dropped or abandoned in the
\* end: there are only so many, and the queue is empty again and again.  It
\* need not be when a gap after a start with a transaction in progress has
\* stopped the ones before it, or the next nonce has been out of step: the
\* index refuses it until the node is started again, or the chain a nonce that
\* it has mined.
UnstartedLeaves == []<>(Unstarted = {} \/ leftOver \/ slipped # "never")
=============================================================================
