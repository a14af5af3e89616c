------------------------- MODULE BroadcasterProofs -------------------------
(***************************************************************************)
(* Theorems about Broadcaster, for any numbers of transactions, prices,    *)
(* stops and transactions in flight.                                       *)
(***************************************************************************)
EXTENDS Broadcaster, FiniteSetTheorems, TLAPS

USE TxStoreAssumption, BroadcasterAssumption

-----------------------------------------------------------------------------
(***************************************************************************)
(* The table and the nonce map.                                            *)
(***************************************************************************)
Only(f, s) == [NoAttempts EXCEPT ![f] = s]

\* What is being sent is the transaction in progress.
InHand == stage \in {"send", "save"} => state[current] = "in_progress"

\* A transaction on its way has exactly one attempt.
OneAttempt ==
  /\ \A t \in In({"in_progress"}) : \E f \in Fee : attempts[t] = Only(f, "in_progress")
  /\ \A t \in In({"unconfirmed", "confirmed"}) : \E f \in Fee : attempts[t] = Only(f, "broadcast")

TableInv == BroadcasterTypeOK /\ InHand /\ OneAttempt /\ NextNonceIsFree

LEMMA OnlyType ==
  ASSUME NEW f \in Fee, NEW s \in {"in_progress", "broadcast"}
  PROVE  /\ Only(f, s) \in [Fee -> AttemptState]
         /\ Only(f, s)[f] = s
         /\ \A g \in Fee : Only(f, s)[g] # "none" => g = f
         /\ \A g \in Fee : Only(f, s)[g] = s => g = f
BY DEF Only, NoAttempts, AttemptState

\* The attempt in progress is the only one.
LEMMA InProgressIsOnly ==
  ASSUME TableInv, NEW t \in Tx, state[t] = "in_progress"
  PROVE  /\ InProgressFee(t) \in Fee
         /\ attempts[t] = Only(InProgressFee(t), "in_progress")
<1>1. PICK f \in Fee : attempts[t] = Only(f, "in_progress")
  BY DEF TableInv, OneAttempt, In
<1>2. \A g \in Fee : attempts[t][g] = "in_progress" <=> g = f
  BY <1>1, OnlyType
<1>3. InProgressFee(t) = f
  BY <1>2 DEF InProgressFee
<1> QED BY <1>1, <1>3

LEMMA TableInitially == BroadcasterInit => TableInv
<1> SUFFICES ASSUME BroadcasterInit PROVE TableInv
  OBVIOUS
<1>1. \A t \in Tx : state[t] = "new" /\ nonce[t] = NoNonce
  BY DEF BroadcasterInit, StoreInit
<1>2. StoreTypeOK
  BY DEF BroadcasterInit, StoreInit, StoreTypeOK, TxState, AttemptState, NoAttempts
<1>3. BroadcasterTypeOK
  BY <1>1, <1>2 DEF BroadcasterInit, BroadcasterTypeOK, Taking, Answer
<1> QED BY <1>1, <1>3 DEF BroadcasterInit, TableInv, InHand, OneAttempt, NextNonceIsFree, In

\* A step that leaves the table alone, and does not start the node.
LEMMA TableUntouched ==
  ASSUME TableInv, UNCHANGED <<state, nonce, attempts, next, stops, slipped, stale, returned>>,
         stage' \in {"idle", "picked", "send", "save"}, stage # "off",
         current' \in Tx \cup {0}, answer' \in Answer,
         stage' \in {"picked", "send", "save"} <=> current' # 0,
         answer' # "none" <=> stage' = "save",
         stage' \in {"send", "save"} => state[current'] = "in_progress"
  PROVE  TableInv'
<1>1. BroadcasterTypeOK'
  BY DEF TableInv, BroadcasterTypeOK, StoreTypeOK, In, Taking
<1>2. InHand' /\ OneAttempt' /\ NextNonceIsFree'
  BY DEF TableInv, BroadcasterTypeOK, InHand, OneAttempt, NextNonceIsFree, In, Taking, Only, NoAttempts
<1> QED BY <1>1, <1>2 DEF TableInv

\* A row loses its nonce and its attempts.
LEMMA RowLost ==
  ASSUME TableInv, NEW t \in Tx, NEW s \in {"removed", "fatal_error"},
         state' = [state EXCEPT ![t] = s],
         nonce' = [nonce EXCEPT ![t] = NoNonce],
         attempts' = [attempts EXCEPT ![t] = NoAttempts],
         t \notin stale, UNCHANGED <<next, stops, slipped, stale, returned>>,
         \/ state[t] = "confirmed" /\ UNCHANGED <<stage, current, answer>>
         \/ stage' = "idle" /\ current' = 0 /\ answer' = "none" /\ stage # "off"
  PROVE  TableInv'
<1>1. NoAttempts \in [Fee -> AttemptState]
  BY DEF NoAttempts, AttemptState
<1>2. BroadcasterTypeOK'
  <2>1. StoreTypeOK'
    BY <1>1 DEF TableInv, BroadcasterTypeOK, StoreTypeOK, TxState
  <2>2. stale' \subseteq In({"confirmed"})'
    BY DEF TableInv, BroadcasterTypeOK, StoreTypeOK, In
  <2>3. (\A u \in Tx : Taking(u) <=> state[u] \in {"in_progress", "unconfirmed", "confirmed"})'
    BY DEF TableInv, BroadcasterTypeOK, StoreTypeOK, Taking
  <2> QED BY <2>1, <2>2, <2>3 DEF TableInv, BroadcasterTypeOK, Answer
<1>3. InHand' /\ NextNonceIsFree'
  BY DEF TableInv, BroadcasterTypeOK, StoreTypeOK, InHand, NextNonceIsFree, Taking
<1>4. OneAttempt'
  <2>1. state'[t] = s
    BY DEF TableInv, BroadcasterTypeOK, StoreTypeOK
  <2>2. \A u \in Tx : u # t => state'[u] = state[u] /\ attempts'[u] = attempts[u]
    BY DEF TableInv, BroadcasterTypeOK, StoreTypeOK
  <2>3. ASSUME NEW u \in Tx, state'[u] \in {"in_progress", "unconfirmed", "confirmed"}
        PROVE  u # t /\ state'[u] = state[u] /\ attempts'[u] = attempts[u]
    BY <2>1, <2>2, <2>3
  <2>4. ASSUME NEW u \in Tx, state'[u] = "in_progress"
        PROVE  \E f \in Fee : attempts'[u] = Only(f, "in_progress")
    BY <2>3, <2>4 DEF TableInv, OneAttempt, In
  <2>5. ASSUME NEW u \in Tx, state'[u] \in {"unconfirmed", "confirmed"}
        PROVE  \E f \in Fee : attempts'[u] = Only(f, "broadcast")
    BY <2>3, <2>5 DEF TableInv, OneAttempt, In
  <2> QED BY <2>4, <2>5 DEF OneAttempt, In, Only
<1> QED BY <1>2, <1>3, <1>4 DEF TableInv

\* Rows without a nonce change, and get none.
LEMMA RowsElsewhere ==
  ASSUME TableInv, state' \in [Tx -> TxState],
         \A u \in Tx : state'[u] # state[u] =>
           /\ state[u] \in {"new", "unstarted"}
           /\ state'[u] \in {"unstarted", "removed", "fatal_error"},
         UNCHANGED <<nonce, attempts, next, stops, slipped, stale, returned>>,
         \/ UNCHANGED <<stage, current, answer>>
         \/ stage' = "idle" /\ current' = 0 /\ answer' = "none" /\ stage # "off"
  PROVE  TableInv'
<1>1. BroadcasterTypeOK'
  <2>1. StoreTypeOK' /\ stale' \subseteq In({"confirmed"})'
    BY DEF TableInv, BroadcasterTypeOK, StoreTypeOK, In
  <2>2. (\A u \in Tx : Taking(u) <=> state[u] \in {"in_progress", "unconfirmed", "confirmed"})'
    BY DEF TableInv, BroadcasterTypeOK, Taking
  <2> QED BY <2>1, <2>2 DEF TableInv, BroadcasterTypeOK, Answer
<1>2. InHand'
  BY DEF TableInv, BroadcasterTypeOK, InHand
<1>3. OneAttempt'
  BY DEF TableInv, BroadcasterTypeOK, OneAttempt, In, Only
<1>4. NextNonceIsFree'
  BY DEF TableInv, BroadcasterTypeOK, NextNonceIsFree, Taking
<1> QED BY <1>1, <1>2, <1>3, <1>4 DEF TableInv

\* A step of somebody else on one row or on the queue, which leaves the row at
\* hand, the rows with a nonce but t, and the broadcaster alone.
LEMMA OthersKeepTable ==
  ASSUME TableInv, NEW t \in Tx,
         CreateTransaction(t) \/ Confirm(t) \/ Unconfirm(t) \/ Resend(t) \/ Reap(t)
  PROVE  TableInv'
<1>1. CASE CreateTransaction(t)
  <2>1. /\ state' \in [Tx -> TxState]
        /\ \A u \in Tx : state'[u] # state[u] =>
             /\ state[u] \in {"new", "unstarted"}
             /\ state'[u] \in {"unstarted", "removed"}
    BY <1>1 DEF CreateTransaction, Pruned, Unstarted, In, TxState, TableInv, BroadcasterTypeOK, StoreTypeOK
  <2>2. UNCHANGED <<nonce, attempts, stage, current, answer, next, stops, slipped, stale, returned>>
    BY <1>1 DEF CreateTransaction, confirmerVars
  <2> QED BY <2>1, <2>2, RowsElsewhere
<1>2. CASE Confirm(t) \/ Unconfirm(t)
  <2>1. PICK s \in {"confirmed", "unconfirmed"} :
          /\ state' = [state EXCEPT ![t] = s]
          /\ state[t] \in {"confirmed", "unconfirmed"}
          /\ s = "unconfirmed" => stale' = stale \ {t} /\ returned' = returned \cup {t}
          /\ s = "confirmed" => stale' = stale /\ returned' = returned \ {t}
    BY <1>2 DEF Confirm, Unconfirm
  <2>2. UNCHANGED <<nonce, attempts, stage, current, answer, next, stops, slipped>>
    BY <1>2 DEF Confirm, Unconfirm
  <2>3. \A u \in Tx : state'[u] = IF u = t THEN s ELSE state[u]
    BY <2>1 DEF TableInv, BroadcasterTypeOK, StoreTypeOK
  <2>4. StoreTypeOK'
    BY <2>1, <2>2 DEF TableInv, BroadcasterTypeOK, StoreTypeOK, TxState
  <2>5. stale' \subseteq In({"confirmed"})' /\ returned' \subseteq Tx
    BY <2>1, <2>3 DEF TableInv, BroadcasterTypeOK, In
  <2>6. (\A u \in Tx : Taking(u) <=> state[u] \in {"in_progress", "unconfirmed", "confirmed"})'
    BY <2>1, <2>2, <2>3 DEF TableInv, BroadcasterTypeOK, Taking
  <2>7. BroadcasterTypeOK'
    BY <2>2, <2>4, <2>5, <2>6 DEF TableInv, BroadcasterTypeOK
  <2>8. InHand' /\ NextNonceIsFree'
    BY <2>1, <2>2, <2>3 DEF TableInv, BroadcasterTypeOK, InHand, NextNonceIsFree, Taking
  <2>9. OneAttempt'
    BY <2>1, <2>2, <2>3 DEF TableInv, OneAttempt, In, Only
  <2> QED BY <2>7, <2>8, <2>9 DEF TableInv
<1>3. CASE Resend(t)
  BY <1>3 DEF Resend, confirmerVars, TableInv, BroadcasterTypeOK, StoreTypeOK,
     InHand, OneAttempt, NextNonceIsFree, In, Taking, Only
<1>4. CASE Reap(t)
  <2>1. /\ state[t] = "confirmed" /\ t \notin stale
        /\ state' = [state EXCEPT ![t] = "removed"]
        /\ nonce' = [nonce EXCEPT ![t] = NoNonce]
        /\ attempts' = [attempts EXCEPT ![t] = NoAttempts]
        /\ UNCHANGED <<stage, current, answer, next, stops, slipped, stale, returned>>
    BY <1>4 DEF Reap, confirmerVars
  <2> QED BY <2>1, RowLost
<1> QED BY <1>1, <1>2, <1>3, <1>4

\* The node starts with a nonce above all in the table, unless the query of the
\* table has failed.
LEMMA StartKeepsTable == ASSUME TableInv, Start PROVE TableInv'
<1>1. PICK local \in 0 .. MaxNonce, chain \in 0 .. MaxNonce, failed \in BOOLEAN :
        /\ IF failed THEN Pending(local) ELSE Loaded(local)
        /\ next' \in {local, IF chain > local THEN chain ELSE local}
        /\ slipped' = IF failed /\ \E t \in Tx : Taking(t) THEN "now"
                      ELSE IF slipped = "now" THEN "before" ELSE slipped
  BY DEF Start
<1>2. next' \in Nat /\ next' >= local
  BY <1>1
<1>3. slipped' # "now" => \A t \in Tx : Taking(t) => nonce[t] < next'
  <2> SUFFICES ASSUME slipped' # "now", NEW t \in Tx, Taking(t) PROVE nonce[t] < next'
    OBVIOUS
  <2>1. Loaded(local)
    BY <1>1
  <2>2. nonce[t] \in Nat /\ nonce[t] < local
    BY <2>1 DEF Loaded, TableInv, BroadcasterTypeOK, StoreTypeOK, Taking
  <2> QED BY <1>2, <2>2
<1>4. slipped' \in {"never", "now", "before"}
  BY <1>1 DEF TableInv, BroadcasterTypeOK
<1>5. /\ stage = "off" /\ stage' = "idle"
      /\ UNCHANGED <<state, nonce, attempts, current, answer, stops, stale, returned>>
  BY DEF Start, confirmerVars
<1>6. BroadcasterTypeOK'
  BY <1>2, <1>4, <1>5 DEF TableInv, BroadcasterTypeOK, StoreTypeOK, In, Taking
<1>7. InHand' /\ OneAttempt' /\ NextNonceIsFree'
  BY <1>3, <1>5 DEF TableInv, InHand, OneAttempt, NextNonceIsFree, In, Taking, Only
<1> QED BY <1>6, <1>7 DEF TableInv

LEMMA StopKeepsTable == ASSUME TableInv, Stop PROVE TableInv'
BY DEF Stop, confirmerVars, TableInv, BroadcasterTypeOK, StoreTypeOK, Answer, InHand, OneAttempt, NextNonceIsFree, In, Taking, Only

LEMMA AbandonKeepsTable == ASSUME TableInv, Abandon PROVE TableInv'
BY DEF Abandon, NoncesWithout, confirmerVars, TableInv, BroadcasterTypeOK, StoreTypeOK, TxState, InHand, OneAttempt,
   NextNonceIsFree, In, Taking, Only

\* A re-organisation touches no row.
LEMMA ReorgKeepsTable == ASSUME TableInv, Reorg PROVE TableInv'
<1>1. stale' \subseteq In({"confirmed"})
  BY DEF Reorg, TableInv, BroadcasterTypeOK
<1>2. UNCHANGED <<state, nonce, attempts, stage, current, answer, next, stops, slipped, returned>>
  BY DEF Reorg
<1> QED BY <1>1, <1>2 DEF TableInv, BroadcasterTypeOK, StoreTypeOK, InHand, OneAttempt, NextNonceIsFree, In, Taking, Only

\* A transaction gets a nonce and its first attempt.
LEMMA ClaimKeepsTable == ASSUME TableInv, Claim PROVE TableInv'
<1>1. /\ stage = "picked"
      /\ current \in Tx
      /\ next \in Nat
  BY DEF Claim, TableInv, BroadcasterTypeOK, Tx
<1>2. CASE state[current] = "unstarted" /\ \A t \in Tx : nonce[t] # next
  <2>1. /\ state' = [state EXCEPT ![current] = "in_progress"]
        /\ nonce' = [nonce EXCEPT ![current] = next]
        /\ attempts' = [attempts EXCEPT ![current] = Only(1, "in_progress")]
        /\ stage' = "send"
        /\ UNCHANGED <<current, answer, next, stops, slipped, stale, returned>>
    BY <1>2 DEF Claim, Only, confirmerVars
  <2>2. 1 \in Fee
    BY DEF Fee
  <2>3. Only(1, "in_progress") \in [Fee -> AttemptState]
    BY <2>2, OnlyType
  <2>4. BroadcasterTypeOK'
    <3>1. StoreTypeOK'
      BY <1>1, <2>1, <2>3 DEF TableInv, BroadcasterTypeOK, StoreTypeOK, TxState
    <3>2. stale' \subseteq In({"confirmed"})'
      BY <1>1, <1>2, <2>1 DEF TableInv, BroadcasterTypeOK, StoreTypeOK, In
    <3>3. (\A t \in Tx : Taking(t) <=> state[t] \in {"in_progress", "unconfirmed", "confirmed"})'
      BY <1>1, <1>2, <2>1 DEF TableInv, BroadcasterTypeOK, StoreTypeOK, Taking
    <3> QED BY <1>1, <2>1, <3>1, <3>2, <3>3 DEF TableInv, BroadcasterTypeOK
  <2>5. NextNonceIsFree'
    BY <1>1, <1>2, <2>1 DEF TableInv, BroadcasterTypeOK, StoreTypeOK, NextNonceIsFree, Taking
  <2>6. InHand'
    BY <1>1, <2>1 DEF TableInv, BroadcasterTypeOK, StoreTypeOK, InHand, In
  <2>7. OneAttempt'
    <3>1. /\ state'[current] = "in_progress" /\ attempts'[current] = Only(1, "in_progress")
          /\ \A t \in Tx : t # current => state'[t] = state[t] /\ attempts'[t] = attempts[t]
      BY <1>1, <2>1 DEF TableInv, BroadcasterTypeOK, StoreTypeOK
    <3>2. ASSUME NEW t \in Tx, state'[t] = "in_progress"
          PROVE  \E f \in Fee : attempts'[t] = Only(f, "in_progress")
      BY <2>2, <3>1, <3>2 DEF TableInv, OneAttempt, In
    <3>3. ASSUME NEW t \in Tx, state'[t] \in {"unconfirmed", "confirmed"}
          PROVE  \E f \in Fee : attempts'[t] = Only(f, "broadcast")
      BY <3>1, <3>3 DEF TableInv, OneAttempt, In
    <3> QED BY <3>2, <3>3 DEF OneAttempt, In, Only
  <2> QED BY <2>4, <2>5, <2>6, <2>7 DEF TableInv
<1>3. CASE ~(state[current] = "unstarted" /\ \A t \in Tx : nonce[t] # next)
  BY <1>1, <1>3, TableUntouched DEF Claim, confirmerVars, TableInv, BroadcasterTypeOK
<1> QED BY <1>2, <1>3

\* What processUnstartedTxs does besides.
LEMMA WorkKeepsTable ==
  ASSUME TableInv,
         \/ \E t \in Tx : Resume(t) \/ Pick(t)
         \/ Refuse \/ PutBack \/ Accept \/ Reject \/ Retry \/ Mine
  PROVE  TableInv'
<1> USE DEF TableInv, BroadcasterTypeOK, InHand, confirmerVars
<1>1. ASSUME NEW t \in Tx, Resume(t) PROVE TableInv'
  BY <1>1, TableUntouched DEF Resume, Answer, Tx
<1>2. ASSUME NEW t \in Tx, Pick(t) PROVE TableInv'
  <2>1. /\ stage = "idle" /\ stage' = "picked" /\ current' = t
        /\ UNCHANGED <<state, nonce, attempts, answer, next, stops, slipped, stale, returned>>
    BY <1>2 DEF Pick
  <2>2. t # 0
    BY DEF Tx
  <2> QED BY <2>1, <2>2, TableUntouched DEF Answer
<1>3. CASE Refuse
  BY <1>3, RowsElsewhere DEF Refuse, StoreTypeOK, TxState
<1>4. CASE PutBack
  BY <1>4, TableUntouched DEF PutBack
<1>5. CASE Accept \/ Reject
  BY <1>5, TableUntouched DEF Accept, Reject, Answer
<1>6. CASE Retry
  BY <1>6, TableUntouched DEF Retry, Answer
<1>7. CASE Mine
  BY <1>7 DEF Mine, StoreTypeOK, OneAttempt, NextNonceIsFree, In, Taking, Only
<1> QED BY <1>1, <1>2, <1>3, <1>4, <1>5, <1>6, <1>7

\* The outcome of sending is saved.
LEMMA OutcomeKeepsTable ==
  ASSUME TableInv, SaveSent \/ SaveSentLost \/ SaveFatal \/ Bump \/ NewEstimation
  PROVE  TableInv'
<1> DEFINE fee == InProgressFee(current)
<1>1. /\ stage = "save"
      /\ current \in Tx
      /\ state[current] = "in_progress"
      /\ next \in Nat
  BY DEF SaveSent, SaveSentLost, SaveFatal, Bump, NewEstimation, TryAgain, TableInv, BroadcasterTypeOK, InHand
<1>2. fee \in Fee /\ attempts[current] = Only(fee, "in_progress")
  BY <1>1, InProgressIsOnly
<1>3. attempts \in [Tx -> [Fee -> AttemptState]]
  BY DEF TableInv, BroadcasterTypeOK, StoreTypeOK
<1>s. current \notin stale
  BY <1>1 DEF TableInv, BroadcasterTypeOK, In
<1>4. CASE SaveSent \/ SaveSentLost
  <2>1. attempts' = [attempts EXCEPT ![current] = Only(fee, "broadcast")]
    <3>1. attempts' = [attempts EXCEPT ![current] = [attempts[current] EXCEPT ![fee] = "broadcast"]]
      BY <1>1, <1>3, <1>4 DEF SaveSent, SaveSentLost, Saved
    <3>2. [Only(fee, "in_progress") EXCEPT ![fee] = "broadcast"] = Only(fee, "broadcast")
      BY <1>2 DEF Only, NoAttempts
    <3> QED BY <1>2, <3>1, <3>2
  <2>2. Only(fee, "broadcast") \in [Fee -> AttemptState]
    BY <1>2, OnlyType
  <2>3. /\ state' = [state EXCEPT ![current] = "unconfirmed"]
        /\ stage' = "idle" /\ current' = 0 /\ answer' = "none"
        /\ (next' = next + 1 /\ slipped' = slipped) \/ (next' = next /\ slipped' = "now")
        /\ UNCHANGED <<nonce, stops, stale, returned>>
    BY <1>4 DEF SaveSent, SaveSentLost, Saved, confirmerVars
  <2>4. BroadcasterTypeOK'
    <3>1. StoreTypeOK'
      BY <1>1, <2>1, <2>2, <2>3 DEF TableInv, BroadcasterTypeOK, StoreTypeOK, TxState
    <3>2. stale' \subseteq In({"confirmed"})'
      BY <1>1, <1>s, <2>3 DEF TableInv, BroadcasterTypeOK, StoreTypeOK, In
    <3>3. (\A t \in Tx : Taking(t) <=> state[t] \in {"in_progress", "unconfirmed", "confirmed"})'
      BY <1>1, <2>3 DEF TableInv, BroadcasterTypeOK, StoreTypeOK, Taking
    <3> QED BY <1>1, <2>3, <3>1, <3>2, <3>3 DEF TableInv, BroadcasterTypeOK, Answer
  <2>5. NextNonceIsFree'
    BY <1>1, <2>3 DEF TableInv, BroadcasterTypeOK, StoreTypeOK, NextNonceIsFree, Taking
  <2>6. InHand'
    BY <1>1, <2>3 DEF TableInv, BroadcasterTypeOK, StoreTypeOK, InHand, In
  <2>7. OneAttempt'
    <3>1. /\ state'[current] = "unconfirmed" /\ attempts'[current] = Only(fee, "broadcast")
          /\ \A t \in Tx : t # current => state'[t] = state[t] /\ attempts'[t] = attempts[t]
      BY <1>1, <2>1, <2>3 DEF TableInv, BroadcasterTypeOK, StoreTypeOK
    <3>2. ASSUME NEW t \in Tx, state'[t] = "in_progress"
          PROVE  \E f \in Fee : attempts'[t] = Only(f, "in_progress")
      BY <3>1, <3>2 DEF TableInv, OneAttempt, In
    <3>3. ASSUME NEW t \in Tx, state'[t] \in {"unconfirmed", "confirmed"}
          PROVE  \E f \in Fee : attempts'[t] = Only(f, "broadcast")
      BY <1>2, <3>1, <3>3 DEF TableInv, OneAttempt, In
    <3> QED BY <3>2, <3>3 DEF OneAttempt, In, Only
  <2> QED BY <2>4, <2>5, <2>6, <2>7 DEF TableInv
<1>5. CASE SaveFatal
  <2>1. /\ state' = [state EXCEPT ![current] = "fatal_error"]
        /\ nonce' = [nonce EXCEPT ![current] = NoNonce]
        /\ attempts' = [attempts EXCEPT ![current] = NoAttempts]
        /\ stage' = "idle" /\ current' = 0 /\ answer' = "none"
        /\ UNCHANGED <<next, stops, slipped, stale, returned>>
    BY <1>5 DEF SaveFatal, Discard, confirmerVars
  <2> QED BY <1>1, <1>s, <2>1, RowLost
<1>6. CASE Bump \/ NewEstimation
  <2>1. PICK new \in Fee : TryAgain(new)
    BY <1>6 DEF Bump, NewEstimation
  <2>2. /\ attempts' = [attempts EXCEPT ![current] = Only(new, "in_progress")]
        /\ stage' = "send" /\ answer' = "none"
        /\ UNCHANGED <<state, nonce, current, next, stops, slipped, stale, returned>>
    BY <2>1 DEF TryAgain, Only, confirmerVars
  <2>3. Only(new, "in_progress") \in [Fee -> AttemptState]
    BY <2>1, OnlyType
  <2>4. BroadcasterTypeOK' /\ NextNonceIsFree'
    BY <1>1, <2>2, <2>3 DEF TableInv, BroadcasterTypeOK, StoreTypeOK, NextNonceIsFree, In, Taking, Answer
  <2>5. InHand' /\ OneAttempt'
    BY <1>1, <2>1, <2>2 DEF TableInv, BroadcasterTypeOK, StoreTypeOK, InHand, OneAttempt, In, Only
  <2> QED BY <2>4, <2>5 DEF TableInv
<1> QED BY <1>4, <1>5, <1>6

LEMMA TableStep == TableInv /\ [BroadcasterNext]_broadcasterVars => TableInv'
<1> SUFFICES ASSUME TableInv, [BroadcasterNext]_broadcasterVars PROVE TableInv'
  OBVIOUS
<1>1. CASE UNCHANGED broadcasterVars
  BY <1>1 DEF broadcasterVars, confirmerVars, TableInv, BroadcasterTypeOK, StoreTypeOK, InHand, OneAttempt,
     NextNonceIsFree, In, Taking, Only
<1>2. CASE BroadcasterNext
  BY <1>2, OthersKeepTable, StartKeepsTable, StopKeepsTable, AbandonKeepsTable, ReorgKeepsTable,
     ClaimKeepsTable, WorkKeepsTable, OutcomeKeepsTable DEF BroadcasterNext
<1> QED BY <1>1, <1>2

LEMMA TableInvariant == BroadcasterSpec => []TableInv
<1> QED BY TableInitially, TableStep, PTL DEF BroadcasterSpec

\* The table keeps its types, and a nonce is there exactly in the states in
\* which the table's check allows one.
THEOREM BroadcasterTypeCorrect == BroadcasterSpec => []BroadcasterTypeOK
<1>1. TableInv => BroadcasterTypeOK
  BY DEF TableInv
<1> QED BY <1>1, TableInvariant, PTL

\* The nonce given next is above all in the table, over crashes, resets,
\* deletions and re-organisations, unless an error has put it out of step since
\* the last start.
THEOREM NextNonceFree == BroadcasterSpec => []NextNonceIsFree
<1>1. TableInv => NextNonceIsFree
  BY DEF TableInv
<1> QED BY <1>1, TableInvariant, PTL

-----------------------------------------------------------------------------
(***************************************************************************)
(* The number in flight.  When a row is picked there is room for it, and   *)
(* until it is claimed nothing else enters but what comes back.            *)
(***************************************************************************)
InFlight == In({"in_progress", "unconfirmed"}) \ returned
Waiting == In({"unconfirmed"}) \ returned

PickedRoom ==
  stage = "picked" => In({"in_progress"}) = {} /\ Cardinality(Waiting) < MaxInFlight

RoomInv == InFlightBounded /\ PickedRoom

LEMMA TxFinite ==
  /\ IsFiniteSet(Tx)
  /\ \A S \in SUBSET Tx : IsFiniteSet(S) /\ Cardinality(S) \in Nat
<1>1. IsFiniteSet(Tx)
  BY FS_Interval DEF Tx
<1> QED BY <1>1, FS_Subset, FS_CardinalityType

\* What leaves rows out of the numbers, or moves them to the confirmer.
LEMMA NoneEnters ==
  ASSUME RoomInv,
         InFlight' \subseteq InFlight,
         stage' = "picked" =>
           /\ stage = "picked"
           /\ In({"in_progress"})' \subseteq In({"in_progress"})
           /\ Waiting' \subseteq Waiting
  PROVE  RoomInv'
<1>1. /\ InFlight \in SUBSET Tx
      /\ InFlight' \in SUBSET Tx
      /\ Waiting \in SUBSET Tx
      /\ Waiting' \in SUBSET Tx
  BY DEF InFlight, Waiting, In
<1>2. Cardinality(InFlight') <= Cardinality(InFlight)
  BY <1>1, TxFinite, FS_Subset
<1>3. InFlightBounded'
  BY <1>1, <1>2, TxFinite DEF RoomInv, InFlightBounded, InFlight
<1>4. PickedRoom'
  <2>1. SUFFICES ASSUME stage' = "picked" PROVE PickedRoom'
    BY DEF PickedRoom
  <2>2. In({"in_progress"})' = {}
    BY <2>1 DEF RoomInv, PickedRoom
  <2>3. Cardinality(Waiting') <= Cardinality(Waiting)
    BY <1>1, <2>1, TxFinite, FS_Subset
  <2> QED BY <1>1, <2>1, <2>2, <2>3, TxFinite DEF RoomInv, PickedRoom
<1> QED BY <1>3, <1>4 DEF RoomInv

\* A claimed row takes the room it was picked for.
LEMMA ClaimKeepsRoom == ASSUME TableInv, RoomInv, Claim PROVE RoomInv'
<1>1. /\ stage = "picked" /\ current \in Tx
      /\ stage' \in {"send", "idle"}
      /\ state' = [state EXCEPT ![current] = "in_progress"] \/ state' = state
      /\ returned' = returned
  BY DEF Claim, confirmerVars, TableInv, BroadcasterTypeOK
<1>2. Waiting \in SUBSET Tx /\ InFlight' \in SUBSET Tx
  BY DEF InFlight, Waiting, In
<1>3. InFlight' \subseteq Waiting \cup {current}
  BY <1>1 DEF InFlight, Waiting, In, RoomInv, PickedRoom, TableInv, BroadcasterTypeOK, StoreTypeOK
<1>4. /\ IsFiniteSet(Waiting \cup {current})
      /\ Cardinality(Waiting \cup {current}) <= Cardinality(Waiting) + 1
  <2>1. IsFiniteSet(Waiting) /\ Cardinality(Waiting) \in Nat
    BY <1>2, TxFinite
  <2> QED BY <2>1, FS_AddElement
<1>5. /\ Cardinality(Waiting \cup {current}) \in Nat
      /\ Cardinality(InFlight') <= Cardinality(Waiting \cup {current})
  BY <1>3, <1>4, FS_Subset, FS_CardinalityType
<1>6. Cardinality(InFlight') <= MaxInFlight
  BY <1>1, <1>2, <1>4, <1>5, TxFinite DEF RoomInv, PickedRoom
<1> QED BY <1>1, <1>6 DEF RoomInv, PickedRoom, InFlightBounded, InFlight

\* The transactions that came back are counted when a row is picked.
LEMMA PickKeepsRoom == ASSUME RoomInv, NEW t \in Tx, Pick(t) PROVE RoomInv'
<1>1. /\ UNCHANGED <<state, returned>>
      /\ In({"in_progress"}) = {}
      /\ Cardinality(In({"unconfirmed"})) < MaxInFlight
  BY DEF Pick, Room, confirmerVars
<1>2. In({"unconfirmed"}) \in SUBSET Tx /\ Waiting \in SUBSET Tx /\ Waiting \subseteq In({"unconfirmed"})
  BY DEF Waiting, In
<1>3. Cardinality(Waiting) <= Cardinality(In({"unconfirmed"}))
  BY <1>2, TxFinite, FS_Subset
<1>4. Cardinality(Waiting) < MaxInFlight
  BY <1>1, <1>2, <1>3, TxFinite
<1> QED BY <1>1, <1>4 DEF RoomInv, PickedRoom, InFlightBounded, Waiting, In

LEMMA RoomInitially == BroadcasterInit => RoomInv
<1> SUFFICES ASSUME BroadcasterInit PROVE RoomInv
  OBVIOUS
<1>1. InFlight = {} /\ stage = "off"
  BY DEF BroadcasterInit, StoreInit, InFlight, In
<1>2. Cardinality(InFlight) = 0
  BY <1>1, FS_EmptySet
<1>3. InFlightBounded
  BY <1>2, BroadcasterAssumption DEF InFlightBounded, InFlight
<1> QED BY <1>1, <1>3 DEF RoomInv, PickedRoom

LEMMA RoomStep == TableInv /\ RoomInv /\ [BroadcasterNext]_broadcasterVars => RoomInv'
<1> SUFFICES ASSUME TableInv, RoomInv, [BroadcasterNext]_broadcasterVars PROVE RoomInv'
  OBVIOUS
<1> USE DEF InFlight, Waiting, In, confirmerVars
<1>t. TableInv => state \in [Tx -> TxState]
  BY DEF TableInv, BroadcasterTypeOK, StoreTypeOK
<1>1. CASE UNCHANGED broadcasterVars
  BY <1>1, NoneEnters DEF broadcasterVars
<1>2. CASE Start \/ Stop \/ Reorg
  BY <1>2, NoneEnters DEF Start, Stop, Reorg
<1>3. CASE Abandon
  BY <1>3, NoneEnters DEF Abandon
<1>4. ASSUME NEW t \in Tx, CreateTransaction(t) PROVE RoomInv'
  BY <1>4, NoneEnters DEF CreateTransaction
<1>5. ASSUME NEW t \in Tx, Confirm(t) \/ Unconfirm(t) \/ Resend(t) \/ Reap(t) PROVE RoomInv'
  BY <1>5, <1>t, NoneEnters DEF Confirm, Unconfirm, Resend, Reap
<1>6. ASSUME NEW t \in Tx, Resume(t) \/ Pick(t) PROVE RoomInv'
  BY <1>6, PickKeepsRoom, NoneEnters DEF Resume
<1>7. CASE Refuse \/ PutBack \/ Retry \/ Accept \/ Reject \/ Mine
  BY <1>7, <1>t, NoneEnters DEF Refuse, PutBack, Retry, Accept, Reject, Mine
<1>8. CASE Claim
  BY <1>8, ClaimKeepsRoom
<1>9. CASE SaveSent \/ SaveSentLost \/ SaveFatal
  BY <1>9, <1>t, NoneEnters DEF SaveSent, SaveSentLost, Saved, SaveFatal, Discard, TableInv, BroadcasterTypeOK, InHand
<1>10. CASE Bump \/ NewEstimation
  BY <1>10, NoneEnters DEF Bump, NewEstimation, TryAgain
<1> QED BY <1>1, <1>2, <1>3, <1>4, <1>5, <1>6, <1>7, <1>8, <1>9, <1>10 DEF BroadcasterNext

\* No more than MaxInFlight transactions are on their way, with those that a
\* crash has left in progress, and without those that have come back.
THEOREM InFlightStaysBounded == BroadcasterSpec => []InFlightBounded
<1>1. RoomInv => InFlightBounded
  BY DEF RoomInv
<1> QED BY <1>1, RoomInitially, RoomStep, TableInvariant, PTL DEF BroadcasterSpec

\* While the next nonce is in step, UpdateTxUnstartedToInProgress never meets a
\* transaction that has the nonce it gives: the only one that may have it is in
\* progress, and while a row is picked there is none.
THEOREM NoncesNeverClash == BroadcasterSpec => []IndexNeverRefuses
<1>1. TableInv /\ RoomInv => IndexNeverRefuses
  <2>1. SUFFICES ASSUME TableInv, RoomInv, stage = "picked", slipped # "now", NEW t \in Tx
                  PROVE  nonce[t] # next
    BY DEF IndexNeverRefuses
  <2>2. next \in Nat /\ (nonce[t] = NoNonce \/ nonce[t] \in Nat)
    BY <2>1 DEF TableInv, BroadcasterTypeOK, StoreTypeOK
  <2>3. state[t] # "in_progress"
    BY <2>1 DEF RoomInv, PickedRoom, In
  <2>4. CASE Taking(t)
    BY <2>1, <2>2, <2>3, <2>4 DEF TableInv, NextNonceIsFree, Taking
  <2>5. CASE ~Taking(t)
    BY <2>2, <2>5, TxStoreAssumption DEF Taking
  <2> QED BY <2>4, <2>5
<1> QED BY <1>1, RoomInitially, RoomStep, TableInvariant, PTL DEF BroadcasterSpec

-----------------------------------------------------------------------------
(***************************************************************************)
(* What the Ethereum node has accepted.  That the broadcaster may discard  *)
(* or replace an attempt rests on NotTaken: the answers after which it     *)
(* does so are given only for an attempt that was not accepted, and the    *)
(* transaction has no other (OneAttempt).                                  *)
(***************************************************************************)
Message == [tx : Tx, nonce : Nat, fee : Fee]
Accepted == pool \cup {mined[i] : i \in DOMAIN mined}

PoolTypeOK == pool \subseteq Message /\ mined \in Seq(Message)

MinedInOrder == \A i \in DOMAIN mined : mined[i].nonce = i - 1

NotTaken ==
  stage = "save" /\ answer \in {"fatal", "underpriced", "fee_out_of_range"} =>
    \A a \in Accepted : a.tx # current

PoolInv == PoolTypeOK /\ MinedInOrder /\ NotTaken /\ SentIsSaved /\ SentUnderOneNonce

LEMMA AcceptedType == ASSUME PoolTypeOK PROVE Accepted \subseteq Message
BY DEF PoolTypeOK, Accepted

\* A transaction that has not been in progress is not with the Ethereum node.
LEMMA FreshNotAccepted ==
  ASSUME TableInv, PoolInv, NEW t \in Tx, state[t] \in {"new", "unstarted", "fatal_error"}
  PROVE  \A a \in Accepted : a.tx # t
<1> SUFFICES ASSUME NEW a \in Accepted, a.tx = t PROVE FALSE
  OBVIOUS
<1>1. nonce[t] = a.nonce /\ a.nonce \in Nat
  BY AcceptedType DEF PoolInv, SentIsSaved, Accepted, Message
<1>2. Taking(t)
  BY <1>1 DEF Taking
<1> QED BY <1>2 DEF TableInv, BroadcasterTypeOK

\* Rows may change as long as what is accepted stays in the table.
LEMMA RowsChange ==
  ASSUME PoolInv, UNCHANGED <<pool, mined>>, NotTaken',
         \A t \in Tx :
           \/ state'[t] \in {"abandoned", "removed"}
           \/ \A a \in Accepted : a.tx # t
           \/ /\ state[t] \notin {"abandoned", "removed"}
              /\ nonce'[t] = nonce[t]
              /\ \A f \in Fee : attempts[t][f] # "none" => attempts'[t][f] # "none"
  PROVE  PoolInv'
<1>1. Accepted \subseteq Message
  BY AcceptedType DEF PoolInv
<1>2. SentIsSaved'
  <2> SUFFICES ASSUME NEW a \in Accepted
               PROVE  \/ state'[a.tx] \in {"abandoned", "removed"}
                      \/ nonce'[a.tx] = a.nonce /\ attempts'[a.tx][a.fee] # "none"
    BY DEF SentIsSaved, Accepted
  <2>1. a.tx \in Tx /\ a.fee \in Fee
    BY <1>1 DEF Message
  <2>2. \/ state[a.tx] \in {"abandoned", "removed"}
        \/ nonce[a.tx] = a.nonce /\ attempts[a.tx][a.fee] # "none"
    BY DEF PoolInv, SentIsSaved, Accepted
  <2> QED BY <2>1, <2>2
<1> QED BY <1>2 DEF PoolInv, PoolTypeOK, MinedInOrder, SentUnderOneNonce

\* An attempt of a transaction on its way is sent, and perhaps taken.
LEMMA AttemptIsSent ==
  ASSUME TableInv, PoolInv, NotTaken', NEW t \in Tx, NEW f \in Fee,
         state[t] \in {"in_progress", "unconfirmed"}, attempts[t][f] # "none",
         pool' = Taken(Attempt(t, f)), UNCHANGED <<state, nonce, attempts, mined>>
  PROVE  PoolInv'
<1> DEFINE sent == Attempt(t, f)
<1>1. nonce[t] \in Nat
  BY DEF TableInv, BroadcasterTypeOK, StoreTypeOK, Taking
<1>2. sent \in Message /\ sent.tx = t /\ sent.nonce = nonce[t] /\ sent.fee = f
  BY <1>1 DEF Attempt, Message
<1>3. pool' \subseteq pool \cup {sent}
  BY DEF Taken
<1>4. Accepted' \subseteq Accepted \cup {sent}
  BY <1>3 DEF Accepted
<1>5. PoolTypeOK' /\ MinedInOrder'
  BY <1>2, <1>3 DEF PoolInv, PoolTypeOK, MinedInOrder
<1>6. SentIsSaved'
  <2> SUFFICES ASSUME NEW a \in Accepted'
               PROVE  \/ state[a.tx] \in {"abandoned", "removed"}
                      \/ nonce[a.tx] = a.nonce /\ attempts[a.tx][a.fee] # "none"
    BY DEF SentIsSaved, Accepted
  <2> QED BY <1>2, <1>4 DEF PoolInv, SentIsSaved, Accepted
<1>7. \A a \in Accepted : a.tx = t => a.nonce = nonce[t]
  BY DEF PoolInv, SentIsSaved, Accepted
<1>8. SentUnderOneNonce'
  <2> SUFFICES ASSUME NEW a \in Accepted', NEW b \in Accepted', a.tx = b.tx
               PROVE  a.nonce = b.nonce
    BY DEF SentUnderOneNonce, Accepted
  <2> QED BY <1>2, <1>4, <1>7 DEF PoolInv, SentUnderOneNonce, Accepted
<1> QED BY <1>5, <1>6, <1>8 DEF PoolInv

LEMMA MineKeepsPool == ASSUME PoolInv, Mine PROVE PoolInv'
<1>1. PICK p \in pool :
        /\ p.nonce = Len(mined)
        /\ mined' = Append(mined, p)
        /\ pool' = pool \ {p}
        /\ UNCHANGED <<state, nonce, attempts, stage, current, answer>>
  BY DEF Mine
<1>2. p \in Message /\ mined \in Seq(Message)
  BY DEF PoolInv, PoolTypeOK
<1>3. /\ mined' \in Seq(Message)
      /\ DOMAIN mined' = 1 .. (Len(mined) + 1)
      /\ DOMAIN mined = 1 .. Len(mined)
      /\ \A i \in DOMAIN mined : mined'[i] = mined[i]
      /\ mined'[Len(mined) + 1] = p
      /\ Len(mined) \in Nat
  BY <1>1, <1>2
<1>4. PoolTypeOK' /\ MinedInOrder'
  BY <1>1, <1>3 DEF PoolInv, PoolTypeOK, MinedInOrder
<1>5. {mined'[i] : i \in DOMAIN mined'} \subseteq {mined[i] : i \in DOMAIN mined} \cup {p}
  BY <1>3
<1>6. Accepted' \subseteq Accepted
  BY <1>1, <1>5 DEF Accepted
<1>7. NotTaken'
  BY <1>1, <1>6 DEF PoolInv, NotTaken
<1>8. SentIsSaved' /\ SentUnderOneNonce'
  <2>1. \A a \in Accepted' :
          \/ state[a.tx] \in {"abandoned", "removed"}
          \/ nonce[a.tx] = a.nonce /\ attempts[a.tx][a.fee] # "none"
    BY <1>6 DEF PoolInv, SentIsSaved, Accepted
  <2>2. \A a, b \in Accepted' : a.tx = b.tx => a.nonce = b.nonce
    BY <1>6 DEF PoolInv, SentUnderOneNonce, Accepted
  <2> QED BY <1>1, <2>1, <2>2 DEF SentIsSaved, SentUnderOneNonce, Accepted
<1> QED BY <1>4, <1>7, <1>8 DEF PoolInv

\* What a re-organisation does, with the mined attempts written out.
LEMMA ReorgEffect ==
  ASSUME PoolTypeOK, Reorg
  PROVE  \E k \in Nat :
           /\ k < Len(mined) /\ Len(mined') = k
           /\ DOMAIN mined' = 1 .. k /\ DOMAIN mined = 1 .. Len(mined)
           /\ mined' \in Seq(Message)
           /\ \A i \in 1 .. k : mined'[i] = mined[i]
           /\ pool' = pool \cup {mined[i] : i \in (k + 1) .. Len(mined)}
           /\ \A i \in (k + 1) .. Len(mined) : state[mined[i].tx] # "removed"
           /\ stale' = stale \cup
                {t \in In({"confirmed"}) : \E i \in (k + 1) .. Len(mined) : mined[i].tx = t}
<1>1. PICK k \in 0 .. (Len(mined) - 1) :
        /\ \A a \in {mined[i] : i \in (k + 1) .. Len(mined)} : state[a.tx] # "removed"
        /\ mined' = SubSeq(mined, 1, k)
        /\ pool' = pool \cup {mined[i] : i \in (k + 1) .. Len(mined)}
        /\ stale' = stale \cup
             {t \in In({"confirmed"}) : \E a \in {mined[i] : i \in (k + 1) .. Len(mined)} : a.tx = t}
  BY DEF Reorg
<1>2. mined \in Seq(Message) /\ Len(mined) \in Nat /\ DOMAIN mined = 1 .. Len(mined)
  BY DEF PoolTypeOK
<1>3. k \in Nat /\ k < Len(mined)
  BY <1>2
<1>4. /\ mined' \in Seq(Message)
      /\ Len(mined') = k
      /\ \A i \in 1 .. k : mined'[i] = mined[i]
  BY <1>1, <1>2, <1>3
<1>5. DOMAIN mined' = 1 .. k
  BY <1>4
<1>6. \A i \in (k + 1) .. Len(mined) : state[mined[i].tx] # "removed"
  BY <1>1
<1>7. stale' = stale \cup
        {t \in In({"confirmed"}) : \E i \in (k + 1) .. Len(mined) : mined[i].tx = t}
  BY <1>1
<1>8. pool' = pool \cup {mined[i] : i \in (k + 1) .. Len(mined)}
  BY <1>1
<1> QED BY <1>2, <1>3, <1>4, <1>5, <1>6, <1>7, <1>8

\* The same attempts are accepted after a re-organisation.
LEMMA ReorgKeepsPool == ASSUME PoolInv, Reorg PROVE PoolInv'
<1>1. UNCHANGED <<state, nonce, attempts, stage, current, answer>>
  BY DEF Reorg
<1>2. PICK k \in Nat :
        /\ k < Len(mined) /\ Len(mined') = k
        /\ DOMAIN mined' = 1 .. k /\ DOMAIN mined = 1 .. Len(mined)
        /\ mined' \in Seq(Message)
        /\ \A i \in 1 .. k : mined'[i] = mined[i]
        /\ pool' = pool \cup {mined[i] : i \in (k + 1) .. Len(mined)}
  BY ReorgEffect DEF PoolInv
<1>3. mined \in Seq(Message) /\ Len(mined) \in Nat /\ pool \subseteq Message
  BY DEF PoolInv, PoolTypeOK
<1>4. \A i \in (k + 1) .. Len(mined) : i \in DOMAIN mined /\ mined[i] \in Message
  BY <1>2, <1>3
<1>5. PoolTypeOK'
  BY <1>2, <1>3, <1>4 DEF PoolTypeOK
<1>6. MinedInOrder'
  BY <1>2, <1>3 DEF PoolInv, MinedInOrder
<1>7. Accepted' \subseteq Accepted
  <2>1. \A i \in DOMAIN mined' : i \in DOMAIN mined /\ mined'[i] = mined[i]
    BY <1>2, <1>3
  <2> QED BY <1>2, <1>4, <2>1 DEF Accepted
<1>8. NotTaken'
  BY <1>1, <1>7 DEF PoolInv, NotTaken
<1>9. SentIsSaved' /\ SentUnderOneNonce'
  <2>1. \A a \in Accepted' :
          \/ state[a.tx] \in {"abandoned", "removed"}
          \/ nonce[a.tx] = a.nonce /\ attempts[a.tx][a.fee] # "none"
    BY <1>7 DEF PoolInv, SentIsSaved, Accepted
  <2>2. \A a, b \in Accepted' : a.tx = b.tx => a.nonce = b.nonce
    BY <1>7 DEF PoolInv, SentUnderOneNonce, Accepted
  <2> QED BY <1>1, <2>1, <2>2 DEF SentIsSaved, SentUnderOneNonce, Accepted
<1> QED BY <1>5, <1>6, <1>8, <1>9 DEF PoolInv

\* The highest priced attempt of an unconfirmed transaction is its only one.
LEMMA HighestIsOnly ==
  ASSUME TableInv, NEW t \in Tx, state[t] = "unconfirmed"
  PROVE  Highest(t) \in Fee /\ attempts[t][Highest(t)] # "none"
<1>1. PICK f \in Fee : attempts[t] = Only(f, "broadcast")
  BY DEF TableInv, OneAttempt, In
<1>2. attempts[t][f] # "none" /\ \A g \in Fee : attempts[t][g] # "none" => g <= f
  BY <1>1, OnlyType DEF Fee
<1> QED BY <1>2 DEF Highest

\* An answer that the attempt will not do means that it was not taken.
LEMMA RejectKeepsPool == ASSUME TableInv, PoolInv, Accept \/ Reject PROVE PoolInv'
<1> DEFINE f == InProgressFee(current)
<1>1. /\ stage = "send" /\ current \in Tx /\ state[current] = "in_progress"
      /\ stage' = "save"
      /\ UNCHANGED <<state, nonce, attempts, current, mined>>
  BY DEF Accept, Reject, TableInv, BroadcasterTypeOK, InHand
<1>2. /\ f \in Fee
      /\ \A g \in Fee : attempts[current][g] # "none" <=> g = f
  BY <1>1, InProgressIsOnly, OnlyType
<1>3. CASE Accept
  <2>1. NotTaken' /\ pool' = Taken(Attempt(current, f))
    BY <1>3 DEF Accept, NotTaken, Sent
  <2> QED BY <1>1, <1>2, <2>1, AttemptIsSent
<1>4. CASE Reject
  <2>1. ~Known(Attempt(current, f)) /\ UNCHANGED pool
    BY <1>4 DEF Reject, Sent
  <2>2. \A a \in Accepted : a.tx # current
    <3> SUFFICES ASSUME NEW a \in Accepted, a.tx = current PROVE Known(Attempt(current, f))
      BY <2>1
    <3>1. a.nonce = nonce[current] /\ a.fee = f
      <4>1. a.fee \in Fee
        BY AcceptedType DEF PoolInv, Message
      <4>2. nonce[current] = a.nonce /\ attempts[current][a.fee] # "none"
        BY <1>1 DEF PoolInv, SentIsSaved, Accepted
      <4> QED BY <1>2, <4>1, <4>2
    <3>2. CASE a \in pool
      BY <1>2, <3>1, <3>2 DEF Known, Attempt, Fee
    <3>3. CASE a \in {mined[i] : i \in DOMAIN mined}
      <4>1. PICK i \in DOMAIN mined : a = mined[i]
        BY <3>3
      <4>2. i \in 1 .. Len(mined) /\ Len(mined) \in Nat
        BY <4>1 DEF PoolInv, PoolTypeOK
      <4>3. a.nonce = i - 1
        BY <4>1 DEF PoolInv, MinedInOrder
      <4> QED BY <3>1, <4>2, <4>3 DEF Known, Attempt
    <3> QED BY <3>2, <3>3 DEF Accepted
  <2>3. NotTaken'
    BY <1>1, <2>1, <2>2 DEF NotTaken, Accepted
  <2> QED BY <1>1, <2>1, <2>3, RowsChange
<1> QED BY <1>3, <1>4

\* What is discarded or replaced after such an answer has not been accepted.
LEMMA OutcomeKeepsPool == 
  ASSUME TableInv, PoolInv, SaveSent \/ SaveSentLost \/ SaveFatal \/ Bump \/ NewEstimation
  PROVE  PoolInv'
<1> DEFINE f == InProgressFee(current)
<1>1. /\ stage = "save" /\ current \in Tx /\ state[current] = "in_progress"
      /\ UNCHANGED <<pool, mined>> /\ stage' # "save"
  BY DEF SaveSent, SaveSentLost, SaveFatal, Bump, NewEstimation, TryAgain, TableInv, BroadcasterTypeOK, InHand
<1>2. NotTaken'
  BY <1>1 DEF NotTaken
<1>3. /\ state \in [Tx -> TxState]
      /\ attempts \in [Tx -> [Fee -> AttemptState]]
  BY DEF TableInv, BroadcasterTypeOK, StoreTypeOK
<1>4. CASE SaveSent \/ SaveSentLost
  <2>1. /\ state' = [state EXCEPT ![current] = "unconfirmed"]
        /\ attempts' = [attempts EXCEPT ![current][f] = "broadcast"]
        /\ UNCHANGED nonce
    BY <1>4 DEF SaveSent, SaveSentLost, Saved
  <2>2. \A t \in Tx : \A g \in Fee : attempts[t][g] # "none" => attempts'[t][g] # "none"
    BY <1>1, <1>3, <2>1
  <2>3. \A t \in Tx : state'[t] = state[t] \/ state[t] = "in_progress"
    BY <1>1, <1>3, <2>1
  <2> QED BY <1>1, <1>2, <2>1, <2>2, <2>3, RowsChange
<1>5. CASE SaveFatal \/ Bump \/ NewEstimation
  <2>1. \A a \in Accepted : a.tx # current
    BY <1>1, <1>5 DEF SaveFatal, GivenUp, Bump, NewEstimation, PoolInv, NotTaken
  <2>2. \A t \in Tx : t # current =>
          state'[t] = state[t] /\ nonce'[t] = nonce[t] /\ attempts'[t] = attempts[t]
    BY <1>5 DEF SaveFatal, Discard, Bump, NewEstimation, TryAgain, TableInv, BroadcasterTypeOK, StoreTypeOK
  <2> QED BY <1>1, <1>2, <2>1, <2>2, RowsChange
<1> QED BY <1>4, <1>5

LEMMA PoolInitially == BroadcasterInit => PoolInv
BY DEF BroadcasterInit, PoolInv, PoolTypeOK, MinedInOrder, NotTaken, SentIsSaved, SentUnderOneNonce, Accepted

LEMMA PoolStep == TableInv /\ PoolInv /\ [BroadcasterNext]_broadcasterVars => PoolInv'
<1> SUFFICES ASSUME TableInv, PoolInv, [BroadcasterNext]_broadcasterVars PROVE PoolInv'
  OBVIOUS
<1>t. /\ state \in [Tx -> TxState] /\ nonce \in [Tx -> Nat \cup {NoNonce}]
      /\ attempts \in [Tx -> [Fee -> AttemptState]]
  BY DEF TableInv, BroadcasterTypeOK, StoreTypeOK
\* Steps that leave the rows and the Ethereum node alone.
<1>u. ASSUME UNCHANGED <<state, nonce, attempts, pool, mined>>, NotTaken' PROVE PoolInv'
  BY <1>u, RowsChange
<1>1. CASE UNCHANGED broadcasterVars
  BY <1>1, <1>u DEF broadcasterVars, PoolInv, NotTaken, Accepted
<1>2. CASE Start \/ Stop \/ PutBack \/ Retry \/ \E t \in Tx : Resume(t) \/ Pick(t)
  BY <1>2, <1>u DEF Start, Stop, PutBack, Retry, Resume, Pick, NotTaken
<1>3. CASE Abandon
  <2>1. NotTaken' /\ UNCHANGED <<attempts, pool, mined>>
    BY <1>3 DEF Abandon, NotTaken
  <2>2. \A t \in Tx : state'[t] = "abandoned" \/ (state'[t] = state[t] /\ nonce'[t] = nonce[t])
    BY <1>3 DEF Abandon, NoncesWithout
  <2> QED BY <2>1, <2>2, RowsChange
<1>4. ASSUME NEW t \in Tx, CreateTransaction(t) PROVE PoolInv'
  <2>1. NotTaken' /\ UNCHANGED <<nonce, attempts, pool, mined>>
    BY <1>4 DEF CreateTransaction, PoolInv, NotTaken, Accepted
  <2>2. \A u \in Tx : \/ state'[u] = "removed" \/ state'[u] = state[u]
                      \/ u = t /\ state[u] = "new"
    BY <1>4 DEF CreateTransaction
  <2>3. \A a \in Accepted : a.tx # t
    BY <1>4, FreshNotAccepted DEF CreateTransaction
  <2> QED BY <2>1, <2>2, <2>3, RowsChange
<1>5. ASSUME NEW t \in Tx, Confirm(t) \/ Unconfirm(t) PROVE PoolInv'
  <2>1. NotTaken' /\ UNCHANGED <<nonce, attempts, pool, mined>>
    BY <1>5 DEF Confirm, Unconfirm, PoolInv, NotTaken, Accepted
  <2>2. \A u \in Tx : state'[u] = state[u] \/ state[u] \in {"unconfirmed", "confirmed"}
    BY <1>t, <1>5 DEF Confirm, Unconfirm
  <2> QED BY <2>1, <2>2, RowsChange
<1>6. ASSUME NEW t \in Tx, Reap(t) PROVE PoolInv'
  <2>1. NotTaken' /\ UNCHANGED <<pool, mined>>
    BY <1>6 DEF Reap, PoolInv, NotTaken, Accepted
  <2>2. \A u \in Tx : \/ state'[u] = "removed"
                      \/ state'[u] = state[u] /\ nonce'[u] = nonce[u] /\ attempts'[u] = attempts[u]
    BY <1>t, <1>6 DEF Reap
  <2> QED BY <2>1, <2>2, RowsChange
<1>7. ASSUME NEW t \in Tx, Resend(t) PROVE PoolInv'
  <2>1. /\ state[t] = "unconfirmed"
        /\ pool' = Taken(Attempt(t, Highest(t)))
        /\ UNCHANGED <<state, nonce, attempts, stage, current, answer, mined>>
    BY <1>7 DEF Resend
  <2>2. Highest(t) \in Fee /\ attempts[t][Highest(t)] # "none"
    BY <2>1, HighestIsOnly
  <2>3. Accepted' \subseteq Accepted \cup {Attempt(t, Highest(t))}
    BY <2>1 DEF Taken, Accepted
  <2>4. NotTaken'
    BY <2>1, <2>3 DEF Attempt, PoolInv, NotTaken, TableInv, InHand
  <2> QED BY <2>1, <2>2, <2>4, AttemptIsSent
<1>8. CASE Refuse \/ Claim
  <2>1. /\ stage = "picked" /\ current \in Tx /\ NotTaken' /\ UNCHANGED <<pool, mined>>
        /\ \/ UNCHANGED <<state, nonce, attempts>>
           \/ /\ state[current] = "unstarted"
              /\ \A u \in Tx : u # current =>
                   state'[u] = state[u] /\ nonce'[u] = nonce[u] /\ attempts'[u] = attempts[u]
    BY <1>t, <1>8 DEF Refuse, Claim, NotTaken, TableInv, BroadcasterTypeOK
  <2>2. state[current] = "unstarted" => \A a \in Accepted : a.tx # current
    BY <2>1, FreshNotAccepted
  <2> QED BY <2>1, <2>2, <1>u, RowsChange
<1>9. CASE \/ Accept \/ Reject \/ SaveSent \/ SaveSentLost \/ SaveFatal \/ Bump \/ NewEstimation
           \/ Mine \/ Reorg
  BY <1>9, RejectKeepsPool, OutcomeKeepsPool, MineKeepsPool, ReorgKeepsPool
<1> QED BY <1>1, <1>2, <1>3, <1>4, <1>5, <1>6, <1>7, <1>8, <1>9 DEF BroadcasterNext

LEMMA PoolInvariant == BroadcasterSpec => []PoolInv
<1> QED BY PoolInitially, PoolStep, TableInvariant, PTL DEF BroadcasterSpec

\* What the Ethereum node has accepted is in the table, over every crash,
\* lost answer and verdict.
THEOREM SentStaysSaved == BroadcasterSpec => []SentIsSaved
<1>1. PoolInv => SentIsSaved
  BY DEF PoolInv
<1> QED BY <1>1, PoolInvariant, PTL

\* No transaction is accepted under two nonces.
THEOREM SentStaysUnderOneNonce == BroadcasterSpec => []SentUnderOneNonce
<1>1. PoolInv => SentUnderOneNonce
  BY DEF PoolInv
<1> QED BY <1>1, PoolInvariant, PTL

-----------------------------------------------------------------------------
(***************************************************************************)
(* The gap.  What a confirmed transaction had before it is mined or in the *)
(* pool, whatever a re-organisation drops.  Unless a start finds a         *)
(* transaction in progress, all nonces below an unconfirmed transaction    *)
(* and below the next nonce are held, the one in progress has the next,    *)
(* and if its nonce is freed, no unconfirmed transaction needs it.         *)
(***************************************************************************)
Covered(n) == n < Len(mined) \/ \E p \in pool : p.nonce = n

ConfirmedCovered == \A t \in In({"confirmed"}) : \A n \in Nat : n <= nonce[t] => Covered(n)

OneInProgress == \A t, u \in In({"in_progress"}) : t = u

HeldBelow(m) == \A n \in Nat : n < m => Held(n)

HeldBelowSent == \A t \in In({"unconfirmed"}) : HeldBelow(nonce[t])

NextInLine ==
  stage # "off" =>
    /\ HeldBelow(next)
    /\ \A t \in In({"in_progress"}) : nonce[t] = next
    /\ \A t \in In({"in_progress"}), u \in In({"unconfirmed"}) :
         nonce[u] > nonce[t] => Covered(nonce[t])

NoGapInv == HeldBelowSent /\ NextInLine

GapInv == ConfirmedCovered /\ OneInProgress /\ (leftOver \/ NoGapInv)

AllInv == TableInv /\ RoomInv /\ PoolInv

LEMMA NonceTypes ==
  ASSUME TableInv
  PROVE  /\ state \in [Tx -> TxState]
         /\ nonce \in [Tx -> Nat \cup {NoNonce}]
         /\ NoNonce \notin Nat
         /\ next \in Nat
         /\ \A t \in Tx : nonce[t] \in Nat <=> state[t] \in {"in_progress", "unconfirmed", "confirmed"}
BY DEF TableInv, BroadcasterTypeOK, StoreTypeOK, Taking

LEMMA MinedLength == ASSUME PoolInv PROVE Len(mined) \in Nat /\ DOMAIN mined = 1 .. Len(mined)
BY DEF PoolInv, PoolTypeOK

LEMMA TakenKeepsNonces ==
  ASSUME NEW a, NEW p \in pool
  PROVE  \E q \in Taken(a) : q.nonce = p.nonce
BY DEF Taken

\* What the Ethereum node has had for a nonce it keeps, in a block or outside.
LEMMA CoveredTaken ==
  ASSUME UNCHANGED mined, NEW a, pool' = Taken(a) \/ pool' = pool
  PROVE  \A n \in Nat : Covered(n) => Covered(n)'
BY TakenKeepsNonces DEF Covered

LEMMA CoveredMined ==
  ASSUME PoolInv, Mine
  PROVE  \A n \in Nat : Covered(n) => Covered(n)'
<1>1. PICK p \in pool : p.nonce = Len(mined) /\ mined' = Append(mined, p) /\ pool' = pool \ {p}
  BY DEF Mine
<1>2. Len(mined') = Len(mined) + 1 /\ Len(mined) \in Nat
  BY <1>1 DEF PoolInv, PoolTypeOK
<1> QED BY <1>1, <1>2 DEF Covered

LEMMA CoveredReorged ==
  ASSUME PoolInv, Reorg
  PROVE  \A n \in Nat : Covered(n) => Covered(n)'
<1>1. PICK k \in Nat :
        /\ k < Len(mined) /\ Len(mined') = k /\ DOMAIN mined = 1 .. Len(mined)
        /\ pool' = pool \cup {mined[i] : i \in (k + 1) .. Len(mined)}
  BY ReorgEffect DEF PoolInv
<1>2. Len(mined) \in Nat
  BY MinedLength
<1>3. ASSUME NEW n \in Nat, n < Len(mined), n >= k PROVE \E p \in pool' : p.nonce = n
  <2>1. n + 1 \in (k + 1) .. Len(mined) /\ n + 1 \in DOMAIN mined
    BY <1>1, <1>2, <1>3
  <2>2. mined[n + 1].nonce = n
    BY <2>1 DEF PoolInv, MinedInOrder
  <2> QED BY <1>1, <2>1, <2>2
<1> QED BY <1>1, <1>2, <1>3 DEF Covered

LEMMA GapInitially == BroadcasterInit => GapInv
BY DEF BroadcasterInit, StoreInit, GapInv, NoGapInv, ConfirmedCovered, OneInProgress, HeldBelowSent, NextInLine, In

\* Steps that take nonces only from what the Ethereum node has, and bring
\* transactions to be unconfirmed only from confirmed.
LEMMA GapKept ==
  ASSUME AllInv, GapInv, UNCHANGED <<next, leftOver>>, stage' = "off" <=> stage = "off",
         \A n \in Nat : Covered(n) => Covered(n)',
         \A t \in Tx : nonce[t] \in Nat => nonce'[t] = nonce[t] \/ Covered(nonce[t]),
         \A t \in In({"in_progress", "unconfirmed", "confirmed"})' : nonce'[t] = nonce[t],
         In({"in_progress"})' \subseteq In({"in_progress"}),
         In({"unconfirmed"})' \subseteq In({"unconfirmed", "confirmed"}),
         ConfirmedCovered'
  PROVE  GapInv'
<1>1. \A n \in Nat : Held(n) => Held(n)'
  BY MinedLength DEF AllInv, Held, Covered
<1>2. OneInProgress'
  BY DEF GapInv, OneInProgress
<1>3. ASSUME NoGapInv PROVE HeldBelowSent'
  <2> SUFFICES ASSUME NEW t \in In({"unconfirmed"})' PROVE HeldBelow(nonce[t])'
    BY DEF HeldBelowSent
  <2>1. t \in Tx /\ nonce'[t] = nonce[t] /\ t \in In({"unconfirmed", "confirmed"})
    BY DEF In
  <2>2. nonce[t] \in Nat
    BY <2>1, NonceTypes DEF AllInv, In
  <2>3. HeldBelow(nonce[t])
    <3>1. CASE t \in In({"unconfirmed"})
      BY <1>3, <3>1 DEF NoGapInv, HeldBelowSent
    <3>2. CASE t \in In({"confirmed"})
      <4>1. \A n \in Nat : n < nonce[t] => Covered(n)
        BY <2>2, <3>2 DEF GapInv, ConfirmedCovered
      <4> QED BY <4>1 DEF HeldBelow, Held, Covered
    <3> QED BY <2>1, <3>1, <3>2 DEF In
  <2> QED BY <1>1, <2>1, <2>3 DEF HeldBelow
<1>4. ASSUME NoGapInv PROVE NextInLine'
  <2> SUFFICES ASSUME stage' # "off"
               PROVE  /\ HeldBelow(next)'
                      /\ \A t \in In({"in_progress"})' : nonce'[t] = next'
                      /\ \A t \in In({"in_progress"})', u \in In({"unconfirmed"})' :
                           nonce'[u] > nonce'[t] => Covered(nonce[t])'
    BY DEF NextInLine
  <2>1. HeldBelow(next) /\ \A t \in In({"in_progress"}) : nonce[t] = next
    BY <1>4 DEF NoGapInv, NextInLine
  <2>2. HeldBelow(next)'
    BY <1>1, <2>1 DEF HeldBelow
  <2>3. \A t \in In({"in_progress"})' : nonce'[t] = next'
    BY <2>1 DEF In
  <2>4. ASSUME NEW t \in In({"in_progress"})', NEW u \in In({"unconfirmed"})', nonce'[u] > nonce'[t]
        PROVE  Covered(nonce[t])'
    <3>1. /\ t \in In({"in_progress"}) /\ u \in In({"unconfirmed", "confirmed"})
          /\ nonce'[t] = nonce[t] /\ nonce'[u] = nonce[u]
      BY DEF In
    <3>2. nonce[t] \in Nat /\ nonce[u] \in Nat
      BY <3>1, NonceTypes DEF AllInv, In
    <3>3. CASE u \in In({"unconfirmed"})
      <4>1. Covered(nonce[t])
        BY <1>4, <2>4, <3>1, <3>3 DEF NoGapInv, NextInLine
      <4>2. Covered(nonce[t]) => \A m \in Nat : m = nonce[t] => Covered(m)'
        OBVIOUS
      <4> QED BY <3>1, <3>2, <4>1, <4>2 DEF Covered
    <3>4. CASE u \in In({"confirmed"})
      <4>1. Covered(nonce[t])
        BY <2>4, <3>1, <3>2, <3>4 DEF GapInv, ConfirmedCovered
      <4>2. Covered(nonce[t]) => \A m \in Nat : m = nonce[t] => Covered(m)'
        OBVIOUS
      <4> QED BY <3>1, <3>2, <4>1, <4>2 DEF Covered
    <3> QED BY <3>1, <3>3, <3>4 DEF In
  <2> QED BY <2>2, <2>3, <2>4
<1> QED BY <1>2, <1>3, <1>4 DEF GapInv, NoGapInv

\* Steps of the Ethereum node and of the broadcaster that touch no row.
LEMMA GapUntouched ==
  ASSUME AllInv, GapInv, UNCHANGED <<state, nonce, next, leftOver>>,
         stage' = "off" <=> stage = "off",
         \A n \in Nat : Covered(n) => Covered(n)'
  PROVE  GapInv'
<1>1. ConfirmedCovered'
  BY DEF GapInv, ConfirmedCovered, In
<1> QED BY <1>1, GapKept DEF In

\* A mined transaction has every nonce up to its own mined.
LEMMA MinedCovered ==
  ASSUME AllInv, NEW t \in Tx, NEW i \in DOMAIN mined, mined[i].tx = t,
         state[t] \in {"in_progress", "unconfirmed", "confirmed"}
  PROVE  nonce[t] \in Nat /\ \A n \in Nat : n <= nonce[t] => Covered(n)
<1>1. nonce[t] = mined[i].nonce
  BY DEF AllInv, PoolInv, SentIsSaved
<1>2. mined[i].nonce = i - 1
  BY DEF AllInv, PoolInv, MinedInOrder
<1>3. i \in 1 .. Len(mined) /\ Len(mined) \in Nat
  BY MinedLength DEF AllInv
<1> QED BY <1>1, <1>2, <1>3 DEF Covered

LEMMA OthersKeepGap ==
  ASSUME AllInv, GapInv, NEW t \in Tx,
         CreateTransaction(t) \/ Confirm(t) \/ Unconfirm(t) \/ Resend(t) \/ Reap(t)
  PROVE  GapInv'
<1>1. state \in [Tx -> TxState] /\ nonce \in [Tx -> Nat \cup {NoNonce}]
  BY NonceTypes DEF AllInv
<1>2. CASE CreateTransaction(t)
  <2>1. \A u \in Tx : state'[u] = state[u] \/ state'[u] \in {"unstarted", "removed"}
    BY <1>2 DEF CreateTransaction
  <2>2. UNCHANGED <<nonce, pool, mined, next, leftOver, stage>>
    BY <1>2 DEF CreateTransaction
  <2>3. \A n \in Nat : Covered(n) => Covered(n)'
    BY <2>2 DEF Covered
  <2>4. ConfirmedCovered'
    BY <2>1, <2>2, <2>3 DEF GapInv, ConfirmedCovered, In
  <2> QED BY <2>1, <2>2, <2>3, <2>4, GapKept DEF In
<1>3. CASE Confirm(t) \/ Unconfirm(t)
  <2>1. PICK s \in {"confirmed", "unconfirmed"} :
          /\ state' = [state EXCEPT ![t] = s]
          /\ state[t] \in {"confirmed", "unconfirmed"}
          /\ s = "unconfirmed" => state[t] = "confirmed"
          /\ s = "confirmed" => state[t] = "unconfirmed" /\ \E i \in DOMAIN mined : mined[i].tx = t
    BY <1>3 DEF Confirm, Unconfirm
  <2>2. UNCHANGED <<nonce, pool, mined, next, leftOver, stage>>
    BY <1>3 DEF Confirm, Unconfirm
  <2>3. \A u \in Tx : state'[u] = IF u = t THEN s ELSE state[u]
    BY <1>1, <2>1
  <2>4. \A n \in Nat : Covered(n) => Covered(n)'
    BY <2>2 DEF Covered
  <2>5. ConfirmedCovered'
    <3> SUFFICES ASSUME NEW u \in In({"confirmed"})', NEW n \in Nat, n <= nonce[u] PROVE Covered(n)'
      BY <2>2 DEF ConfirmedCovered
    <3>1. CASE u = t
      BY <2>1, <2>3, <2>4, <3>1, MinedCovered DEF In
    <3>2. CASE u # t
      BY <2>3, <2>4, <3>2 DEF GapInv, ConfirmedCovered, In
    <3> QED BY <3>1, <3>2
  <2>6. /\ In({"in_progress"})' \subseteq In({"in_progress"})
        /\ In({"unconfirmed"})' \subseteq In({"unconfirmed", "confirmed"})
    BY <2>1, <2>3 DEF In
  <2> QED BY <2>2, <2>4, <2>5, <2>6, GapKept
<1>4. CASE Resend(t)
  <2>1. UNCHANGED <<state, nonce, mined, next, leftOver, stage>> /\ pool' = Taken(Attempt(t, Highest(t)))
    BY <1>4 DEF Resend
  <2> QED BY <2>1, CoveredTaken, GapUntouched
<1>5. CASE Reap(t)
  <2>1. /\ state[t] = "confirmed" /\ state' = [state EXCEPT ![t] = "removed"]
        /\ nonce' = [nonce EXCEPT ![t] = NoNonce]
        /\ UNCHANGED <<pool, mined, next, leftOver, stage>>
    BY <1>5 DEF Reap
  <2>2. Covered(nonce[t])
    BY <2>1, NonceTypes DEF AllInv, GapInv, ConfirmedCovered, In
  <2>3. \A n \in Nat : Covered(n) => Covered(n)'
    BY <2>1 DEF Covered
  <2>4. \A u \in Tx : u # t => state'[u] = state[u] /\ nonce'[u] = nonce[u]
    BY <1>1, <2>1
  <2>5. state'[t] = "removed"
    BY <1>1, <2>1
  <2>6. ConfirmedCovered'
    BY <2>3, <2>4, <2>5 DEF GapInv, ConfirmedCovered, In
  <2>7. /\ \A u \in In({"in_progress", "unconfirmed", "confirmed"})' : nonce'[u] = nonce[u]
        /\ In({"in_progress"})' \subseteq In({"in_progress"})
        /\ In({"unconfirmed"})' \subseteq In({"unconfirmed", "confirmed"})
    BY <2>4, <2>5 DEF In
  <2>8. \A u \in Tx : nonce[u] \in Nat => nonce'[u] = nonce[u] \/ Covered(nonce[u])
    BY <2>2, <2>4
  <2> QED BY <2>1, <2>3, <2>6, <2>7, <2>8, GapKept
<1> QED BY <1>2, <1>3, <1>4, <1>5

\* A start with no transaction in progress finds every nonce held below the
\* one it loads, also if it loads that of the Ethereum node.
LEMMA StartKeepsGap == ASSUME AllInv, GapInv, Start PROVE GapInv'
<1>1. PICK local \in 0 .. MaxNonce, chain \in 0 .. MaxNonce, failed \in BOOLEAN :
        /\ IF failed THEN Pending(local) ELSE Loaded(local)
        /\ Pending(chain)
        /\ next' \in {local, IF chain > local THEN chain ELSE local}
  BY DEF Start
<1>2. /\ Len(mined) \in Nat /\ stage = "off" /\ stage' = "idle"
      /\ UNCHANGED <<state, nonce, pool, mined>>
      /\ leftOver' = (leftOver \/ In({"in_progress"}) # {})
  BY MinedLength DEF Start, AllInv
<1>3. ConfirmedCovered' /\ OneInProgress'
  BY <1>2 DEF GapInv, ConfirmedCovered, OneInProgress, Covered, In
<1>4. \A n \in Nat : Held(n)' <=> Held(n)
  BY <1>2 DEF Held
<1>5. ASSUME ~leftOver' PROVE NoGapInv'
  <2>1. HeldBelowSent /\ In({"in_progress"}) = {}
    BY <1>2, <1>5 DEF GapInv, NoGapInv
  <2>2. \A m \in Nat : Pending(m) => HeldBelow(m)
    BY <1>2 DEF Pending, HeldBelow, Held
  <2>3. Loaded(local) => HeldBelow(local)
    <3> SUFFICES ASSUME Loaded(local) PROVE HeldBelow(local)
      OBVIOUS
    <3>1. CASE \A t \in Tx : ~Taking(t)
      BY <2>2, <3>1 DEF Loaded
    <3>2. CASE ~ \A t \in Tx : ~Taking(t)
      <4>1. PICK t \in Tx : Taking(t) /\ nonce[t] + 1 = local
        BY <3>2 DEF Loaded
      <4>2. t \in In({"unconfirmed", "confirmed"}) /\ nonce[t] \in Nat
        BY <2>1, <4>1, NonceTypes DEF AllInv, Taking, In
      <4>3. HeldBelow(nonce[t])
        <5>1. CASE t \in In({"unconfirmed"})
          BY <2>1, <5>1 DEF HeldBelowSent
        <5>2. CASE t \in In({"confirmed"})
          <6>1. \A n \in Nat : n < nonce[t] => Covered(n)
            BY <4>2, <5>2 DEF GapInv, ConfirmedCovered
          <6> QED BY <6>1 DEF HeldBelow, Held, Covered
        <5> QED BY <4>2, <5>1, <5>2 DEF In
      <4>4. Held(nonce[t])
        BY DEF Held
      <4> QED BY <4>1, <4>2, <4>3, <4>4 DEF HeldBelow
    <3> QED BY <3>1, <3>2
  <2>4. HeldBelow(next')
    BY <1>1, <2>2, <2>3
  <2>5. HeldBelow(next)'
    BY <1>4, <2>4 DEF HeldBelow
  <2>6. In({"in_progress"})' = {}
    BY <1>2, <2>1 DEF In
  <2>7. HeldBelowSent'
    BY <1>2, <1>4, <2>1 DEF HeldBelowSent, HeldBelow, In
  <2> QED BY <2>5, <2>6, <2>7 DEF NoGapInv, NextInLine
<1> QED BY <1>3, <1>5 DEF GapInv

LEMMA StopKeepsGap == ASSUME AllInv, GapInv, Stop PROVE GapInv'
<1>1. stage' = "off" /\ UNCHANGED <<state, nonce, pool, mined, leftOver>>
  BY DEF Stop
<1>2. ConfirmedCovered' /\ OneInProgress'
  BY <1>1 DEF GapInv, ConfirmedCovered, OneInProgress, Covered, In
<1>3. HeldBelowSent => HeldBelowSent'
  BY <1>1 DEF HeldBelowSent, HeldBelow, Held, In
<1> QED BY <1>1, <1>2, <1>3 DEF GapInv, NoGapInv, NextInLine

LEMMA AbandonKeepsGap == ASSUME AllInv, GapInv, Abandon PROVE GapInv'
<1>1. stage' = "off" /\ UNCHANGED <<pool, mined, leftOver>>
  BY DEF Abandon
<1>2. \A t \in Tx : /\ state'[t] \notin {"in_progress", "unconfirmed"}
                    /\ state'[t] = "confirmed" => state[t] = "confirmed" /\ nonce'[t] = nonce[t]
  BY DEF Abandon, NoncesWithout, In
<1>3. ConfirmedCovered' /\ OneInProgress'
  BY <1>1, <1>2 DEF GapInv, ConfirmedCovered, OneInProgress, Covered, In
<1>4. NoGapInv'
  BY <1>1, <1>2 DEF NoGapInv, HeldBelowSent, NextInLine, In
<1> QED BY <1>3, <1>4 DEF GapInv

\* If an unconfirmed transaction is beyond the nonce that is claimed, the nonce
\* was held, and as no row had it, by the Ethereum node.
LEMMA ClaimKeepsGap == ASSUME AllInv, GapInv, Claim PROVE GapInv'
<1>1. /\ stage = "picked" /\ current \in Tx /\ stage' \in {"send", "idle"}
      /\ UNCHANGED <<pool, mined, next, leftOver>>
      /\ Len(mined) \in Nat /\ next \in Nat
  BY MinedLength DEF Claim, AllInv, TableInv, BroadcasterTypeOK
<1>c. \A n \in Nat : Covered(n) => Covered(n)'
  BY <1>1 DEF Covered
<1>2. CASE state[current] = "unstarted" /\ \A t \in Tx : nonce[t] # next
  <2>1. /\ state' = [state EXCEPT ![current] = "in_progress"]
        /\ nonce' = [nonce EXCEPT ![current] = next]
    BY <1>2 DEF Claim
  <2>2. /\ \A t \in Tx : t # current => state'[t] = state[t] /\ nonce'[t] = nonce[t]
        /\ state'[current] = "in_progress" /\ nonce'[current] = next
    BY <1>1, <2>1, NonceTypes DEF AllInv
  <2>3. In({"in_progress"})' = {current}
    <3>1. In({"in_progress"}) = {}
      BY <1>1 DEF AllInv, RoomInv, PickedRoom
    <3> QED BY <1>1, <2>2, <3>1 DEF In
  <2>4. ConfirmedCovered' /\ OneInProgress'
    BY <1>c, <2>2, <2>3 DEF GapInv, ConfirmedCovered, OneInProgress, In
  <2>5. nonce[current] \notin Nat
    BY <1>1, <1>2, NonceTypes DEF AllInv
  <2>6. \A n \in Nat : Held(n) => Held(n)'
    BY <1>1, <2>2, <2>5 DEF Held
  <2>7. ASSUME NoGapInv PROVE NoGapInv'
    <3>1. HeldBelowSent'
      BY <2>2, <2>6, <2>7 DEF NoGapInv, HeldBelowSent, HeldBelow, In
    <3>2. HeldBelow(next)'
      BY <1>1, <2>6, <2>7 DEF NoGapInv, NextInLine, HeldBelow
    <3>3. ASSUME NEW u \in In({"unconfirmed"})', nonce'[u] > next PROVE Covered(next)'
      <4>1. u \in In({"unconfirmed"}) /\ nonce[u] > next /\ u \in Tx
        BY <2>2, <3>3 DEF In
      <4>2. Held(next)
        BY <1>1, <2>7, <4>1 DEF NoGapInv, HeldBelowSent, HeldBelow
      <4>3. Covered(next)
        BY <1>2, <4>2 DEF Held, Covered
      <4> QED BY <1>1, <4>3 DEF Covered
    <3> QED BY <1>1, <2>2, <2>3, <3>1, <3>2, <3>3 DEF NoGapInv, NextInLine
  <2> QED BY <1>1, <2>4, <2>7 DEF GapInv
<1>3. CASE ~(state[current] = "unstarted" /\ \A t \in Tx : nonce[t] # next)
  BY <1>1, <1>c, <1>3, GapUntouched DEF Claim
<1> QED BY <1>2, <1>3

LEMMA OutcomeKeepsGap == ASSUME AllInv, GapInv, SaveSent \/ SaveSentLost \/ SaveFatal PROVE GapInv'
<1>1. /\ stage = "save" /\ stage' = "idle" /\ current \in Tx /\ state[current] = "in_progress"
      /\ UNCHANGED <<pool, mined, leftOver>>
      /\ Len(mined) \in Nat /\ next \in Nat /\ nonce[current] \in Nat
  BY MinedLength, NonceTypes DEF SaveSent, SaveSentLost, SaveFatal, AllInv, TableInv, BroadcasterTypeOK, InHand
<1>2. \A t \in Tx : state[t] = "in_progress" => t = current
  BY <1>1 DEF GapInv, OneInProgress, In
<1>3. NoGapInv => nonce[current] = next /\ HeldBelow(next)
  BY <1>1 DEF NoGapInv, NextInLine, In
<1>c. \A n \in Nat : Covered(n) => Covered(n)'
  BY <1>1 DEF Covered
<1>4. CASE SaveSent \/ SaveSentLost
  <2>1. /\ state' = [state EXCEPT ![current] = "unconfirmed"]
        /\ next' = next + 1 \/ next' = next
        /\ UNCHANGED nonce
    BY <1>4 DEF SaveSent, SaveSentLost, Saved
  <2>2. /\ \A t \in Tx : t # current => state'[t] = state[t]
        /\ state'[current] = "unconfirmed"
    BY <1>1, <2>1, NonceTypes DEF AllInv
  <2>3. In({"in_progress"})' = {}
    BY <1>2, <2>2 DEF In
  <2>4. ConfirmedCovered' /\ OneInProgress'
    BY <1>c, <2>1, <2>2, <2>3 DEF GapInv, ConfirmedCovered, OneInProgress, In
  <2>5. \A n \in Nat : Held(n) => Held(n)'
    BY <1>1, <2>1 DEF Held
  <2>6. ASSUME NoGapInv PROVE NoGapInv'
    <3>1. \A n \in Nat : n < next + 1 => Held(n)
      <4>1. Held(next)
        BY <1>1, <1>3, <2>6 DEF Held
      <4> QED BY <1>1, <1>3, <2>6, <4>1 DEF HeldBelow
    <3>2. HeldBelow(next)'
      BY <1>1, <2>1, <2>5, <3>1 DEF HeldBelow
    <3>3. HeldBelowSent'
      <4>1. \A n \in Nat : n < nonce[current] => Held(n)
        BY <1>3, <2>6 DEF HeldBelow
      <4> QED BY <2>1, <2>2, <2>5, <2>6, <4>1 DEF NoGapInv, HeldBelowSent, HeldBelow, In
    <3> QED BY <2>3, <3>2, <3>3 DEF NoGapInv, NextInLine
  <2> QED BY <1>1, <2>4, <2>6 DEF GapInv
<1>5. CASE SaveFatal
  <2>1. /\ state' = [state EXCEPT ![current] = "fatal_error"]
        /\ nonce' = [nonce EXCEPT ![current] = NoNonce]
        /\ UNCHANGED next
    BY <1>5 DEF SaveFatal, Discard
  <2>2. /\ \A t \in Tx : t # current => state'[t] = state[t] /\ nonce'[t] = nonce[t]
        /\ state'[current] = "fatal_error"
    BY <1>1, <2>1, NonceTypes DEF AllInv
  <2>3. In({"in_progress"})' = {}
    BY <1>2, <2>2 DEF In
  <2>4. ConfirmedCovered' /\ OneInProgress'
    BY <1>c, <2>2, <2>3 DEF GapInv, ConfirmedCovered, OneInProgress, In
  <2>5. ASSUME NEW n \in Nat, Held(n), n # nonce[current] \/ Covered(n) PROVE Held(n)'
    BY <1>1, <2>2, <2>5 DEF Held, Covered
  <2>6. ASSUME NoGapInv PROVE NoGapInv'
    <3>1. HeldBelow(next)'
      BY <1>1, <1>3, <2>1, <2>5, <2>6 DEF HeldBelow
    <3>2. ASSUME NEW u \in In({"unconfirmed"})' PROVE HeldBelow(nonce[u])'
      <4>1. u \in In({"unconfirmed"}) /\ nonce'[u] = nonce[u] /\ u \in Tx
        BY <2>2 DEF In
      <4>2. HeldBelow(nonce[u])
        BY <2>6, <4>1 DEF NoGapInv, HeldBelowSent
      <4>3. nonce[u] > nonce[current] => Covered(nonce[current])
        BY <1>1, <2>6, <4>1 DEF NoGapInv, NextInLine, In
      <4>4. nonce[u] \in Nat
        BY <4>1, NonceTypes DEF AllInv, In
      <4>5. ASSUME NEW n \in Nat, n < nonce[u] PROVE Held(n)'
        BY <1>1, <2>5, <4>2, <4>3, <4>4, <4>5 DEF HeldBelow
      <4> QED BY <4>1, <4>5 DEF HeldBelow
    <3> QED BY <2>3, <3>1, <3>2 DEF NoGapInv, HeldBelowSent, NextInLine
  <2> QED BY <1>1, <2>4, <2>6 DEF GapInv
<1> QED BY <1>4, <1>5

LEMMA GapStep == AllInv /\ GapInv /\ [BroadcasterNext]_broadcasterVars => GapInv'
<1> SUFFICES ASSUME AllInv, GapInv, [BroadcasterNext]_broadcasterVars PROVE GapInv'
  OBVIOUS
<1>t. state \in [Tx -> TxState]
  BY NonceTypes DEF AllInv
<1>u. UNCHANGED <<pool, mined>> => \A n \in Nat : Covered(n) => Covered(n)'
  BY DEF Covered
<1>1. CASE UNCHANGED broadcasterVars
  BY <1>1, <1>u, GapUntouched DEF broadcasterVars
<1>2. CASE PutBack \/ Retry \/ Bump \/ NewEstimation \/ \E t \in Tx : Resume(t) \/ Pick(t)
  BY <1>2, <1>u, GapUntouched DEF PutBack, Retry, Bump, NewEstimation, TryAgain, Resume, Pick
<1>3. CASE Accept \/ Reject
  <2>1. /\ stage = "send" /\ stage' = "save"
        /\ UNCHANGED <<state, nonce, next, leftOver, mined>>
        /\ pool' = Taken(Sent) \/ pool' = pool
    BY <1>3 DEF Accept, Reject
  <2> QED BY <2>1, CoveredTaken, GapUntouched
<1>4. CASE Refuse
  <2>1. /\ state[current] = "unstarted" /\ state' = [state EXCEPT ![current] = "fatal_error"]
        /\ stage = "picked" /\ stage' = "idle"
        /\ UNCHANGED <<nonce, pool, mined, next, leftOver>>
    BY <1>4 DEF Refuse
  <2>2. \A t \in Tx : state'[t] = state[t] \/ state'[t] = "fatal_error"
    BY <1>t, <2>1
  <2>3. ConfirmedCovered'
    BY <1>u, <2>1, <2>2 DEF GapInv, ConfirmedCovered, In
  <2> QED BY <1>u, <2>1, <2>2, <2>3, GapKept DEF In
<1>5. CASE Mine
  <2>1. UNCHANGED <<state, nonce, stage, next, leftOver>>
    BY <1>5 DEF Mine
  <2> QED BY <1>5, <2>1, CoveredMined, GapUntouched DEF AllInv
<1>6. CASE Reorg
  <2>1. UNCHANGED <<state, nonce, stage, next, leftOver>>
    BY <1>6 DEF Reorg
  <2> QED BY <1>6, <2>1, CoveredReorged, GapUntouched DEF AllInv
<1>7. CASE Start \/ Stop \/ Abandon \/ Claim \/ SaveSent \/ SaveSentLost \/ SaveFatal
  BY <1>7, StartKeepsGap, StopKeepsGap, AbandonKeepsGap, ClaimKeepsGap, OutcomeKeepsGap
<1>8. CASE \E t \in Tx : CreateTransaction(t) \/ Confirm(t) \/ Unconfirm(t) \/ Resend(t) \/ Reap(t)
  BY <1>8, OthersKeepGap
<1> QED BY <1>1, <1>2, <1>3, <1>4, <1>5, <1>6, <1>7, <1>8 DEF BroadcasterNext

\* The nonces have a gap only after a start that found a transaction in
\* progress: neither re-organisations nor a next nonce that is out of step
\* leave one.
THEOREM GapNeedsLeftOver == BroadcasterSpec => []GapOnlyAfterLeftOver
<1>1. BroadcasterSpec => []AllInv
  <2>1. BroadcasterInit => RoomInv /\ PoolInv
    BY RoomInitially, PoolInitially
  <2>2. TableInv /\ RoomInv /\ PoolInv /\ [BroadcasterNext]_broadcasterVars => RoomInv' /\ PoolInv'
    BY RoomStep, PoolStep
  <2> QED BY <2>1, <2>2, TableInvariant, PTL DEF BroadcasterSpec, AllInv
<1>2. AllInv /\ GapInv => GapOnlyAfterLeftOver
  BY DEF GapInv, NoGapInv, HeldBelowSent, HeldBelow, GapOnlyAfterLeftOver, NoNonceGap
<1> QED BY <1>1, <1>2, GapInitially, GapStep, PTL DEF BroadcasterSpec

-----------------------------------------------------------------------------
(***************************************************************************)
(* The broadcaster implements Delivery.  That nothing is mined twice or    *)
(* after its fatal_error rests on what can still be mined: the attempts in *)
(* the pool, one for each nonce that is not mined yet, and all of          *)
(* transactions that are on their way, were abandoned there, or were       *)
(* confirmed in a block that was dropped.                                  *)
(***************************************************************************)
OnTheWay == {"in_progress", "unconfirmed", "abandoned"}

PoolFresh ==
  /\ \A p \in pool : p.nonce >= Len(mined)
  /\ \A p \in pool : state[p.tx] \in OnTheWay \/ p.tx \in stale
  /\ \A p, q \in pool : p.nonce = q.nonce => p = q

\* A mined transaction has nothing in the pool, since it has one nonce.
LEMMA MinedNotInPool ==
  ASSUME PoolInv, PoolFresh, NEW p \in pool
  PROVE  p.tx \notin MinedTx
<1> SUFFICES ASSUME NEW i \in DOMAIN mined, mined[i].tx = p.tx PROVE FALSE
  BY DEF MinedTx
<1>1. p.nonce = mined[i].nonce
  BY DEF PoolInv, SentUnderOneNonce
<1>2. mined[i].nonce = i - 1
  BY DEF PoolInv, MinedInOrder
<1>3. i \in 1 .. Len(mined) /\ Len(mined) \in Nat
  BY MinedLength
<1>4. p.nonce >= Len(mined)
  BY DEF PoolFresh
<1> QED BY <1>1, <1>2, <1>3, <1>4

\* A transaction that waits is not mined: it was never accepted.
LEMMA FreshNotMined ==
  ASSUME TableInv, PoolInv, NEW t \in Tx, state[t] \in {"new", "unstarted", "fatal_error"}
  PROVE  t \notin MinedTx /\ \A p \in pool : p.tx # t
BY FreshNotAccepted DEF MinedTx, Accepted

LEMMA FreshRowsChange ==
  ASSUME PoolFresh, UNCHANGED <<pool, mined>>,
         \A p \in pool :
           \/ state'[p.tx] = state[p.tx] /\ (p.tx \in stale => p.tx \in stale')
           \/ state'[p.tx] \in OnTheWay
  PROVE  PoolFresh'
BY DEF PoolFresh

\* What is accepted replaces what had its nonce.
LEMMA FreshTaken ==
  ASSUME TableInv, PoolInv, PoolFresh, NEW t \in Tx, NEW f \in Fee,
         state[t] \in {"in_progress", "unconfirmed"},
         pool' = Taken(Attempt(t, f)), UNCHANGED <<state, mined, stale>>
  PROVE  PoolFresh'
<1> DEFINE sent == Attempt(t, f)
<1>1. CASE Known(sent)
  BY <1>1 DEF Taken, PoolFresh
<1>2. CASE ~Known(sent)
  <2>1. sent.tx = t /\ sent.nonce = nonce[t] /\ nonce[t] \in Nat
    BY NonceTypes DEF Attempt
  <2>2. sent.nonce >= Len(mined)
    BY <1>2, <2>1, MinedLength DEF Known
  <2>3. pool' = {p \in pool : p.nonce # sent.nonce} \cup {sent}
    BY <1>2 DEF Taken
  <2> HIDE DEF sent
  <2>4. (\A p \in pool : p.nonce >= Len(mined))'
    BY <2>2, <2>3 DEF PoolFresh
  <2>5. (\A p \in pool : state[p.tx] \in OnTheWay \/ p.tx \in stale)'
    BY <2>1, <2>3 DEF PoolFresh, OnTheWay
  <2>6. (\A p, q \in pool : p.nonce = q.nonce => p = q)'
    BY <2>3 DEF PoolFresh
  <2> QED BY <2>4, <2>5, <2>6 DEF PoolFresh
<1> QED BY <1>1, <1>2

\* The attempt mined was the only one with its nonce.
LEMMA FreshMined == ASSUME PoolInv, PoolFresh, Mine PROVE PoolFresh'
<1>1. PICK p \in pool :
        /\ p.nonce = Len(mined)
        /\ mined' = Append(mined, p)
        /\ pool' = pool \ {p}
        /\ UNCHANGED <<state, stale>>
  BY DEF Mine, confirmerVars
<1>2. Len(mined') = Len(mined) + 1 /\ Len(mined) \in Nat
  BY <1>1, MinedLength DEF PoolInv, PoolTypeOK
<1>3. ASSUME NEW q \in pool' PROVE q.nonce >= Len(mined')
  <2>1. q \in pool /\ q # p
    BY <1>1
  <2>2. q.nonce # Len(mined) /\ q.nonce >= Len(mined)
    BY <1>1, <2>1 DEF PoolFresh
  <2>3. q.nonce \in Nat
    BY <2>1 DEF PoolInv, PoolTypeOK, Message
  <2> QED BY <1>2, <2>2, <2>3
<1>4. (\A q \in pool : state[q.tx] \in OnTheWay \/ q.tx \in stale)' /\ (\A q, r \in pool : q.nonce = r.nonce => q = r)'
  BY <1>1 DEF PoolFresh
<1> QED BY <1>3, <1>4 DEF PoolFresh

\* What is dropped comes back to the pool, with the nonces below those there.
LEMMA FreshReorged == ASSUME TableInv, PoolInv, PoolFresh, Reorg PROVE PoolFresh'
<1>1. PICK k \in Nat :
        /\ k < Len(mined) /\ Len(mined') = k /\ DOMAIN mined = 1 .. Len(mined)
        /\ pool' = pool \cup {mined[i] : i \in (k + 1) .. Len(mined)}
        /\ \A i \in (k + 1) .. Len(mined) : state[mined[i].tx] # "removed"
        /\ stale' = stale \cup
             {t \in In({"confirmed"}) : \E i \in (k + 1) .. Len(mined) : mined[i].tx = t}
  BY ReorgEffect DEF PoolInv
<1>2. UNCHANGED state /\ Len(mined) \in Nat
  BY MinedLength DEF Reorg
<1>3. \A i \in (k + 1) .. Len(mined) :
        i \in DOMAIN mined /\ mined[i] \in Message /\ mined[i].nonce = i - 1
  BY <1>1, <1>2 DEF PoolInv, PoolTypeOK, MinedInOrder
<1>4. (\A p \in pool : p.nonce >= Len(mined))'
  <2>1. \A p \in pool : p.nonce \in Nat /\ p.nonce >= Len(mined)
    BY DEF PoolFresh, PoolInv, PoolTypeOK, Message
  <2> QED BY <1>1, <1>2, <1>3, <2>1
<1>5. ASSUME NEW p \in pool' PROVE state'[p.tx] \in OnTheWay \/ p.tx \in stale'
  <2>1. CASE p \in pool
    BY <1>1, <1>2, <2>1 DEF PoolFresh
  <2>2. CASE p \notin pool
    <3>1. PICK i \in (k + 1) .. Len(mined) : p = mined[i]
      BY <1>1, <2>2
    <3>2. p.tx \in Tx /\ p.nonce \in Nat
      BY <1>3, <3>1 DEF Message
    <3>3. state[p.tx] = "abandoned" \/ nonce[p.tx] = p.nonce
      BY <1>1, <1>3, <3>1 DEF PoolInv, SentIsSaved
    <3>4. state[p.tx] \in {"abandoned", "in_progress", "unconfirmed", "confirmed"}
      BY <3>2, <3>3, NonceTypes
    <3> QED BY <1>1, <1>2, <3>1, <3>2, <3>4 DEF OnTheWay, In
  <2> QED BY <2>1, <2>2
<1>6. (\A p, q \in pool : p.nonce = q.nonce => p = q)'
  <2> SUFFICES ASSUME NEW p \in pool', NEW q \in pool', p.nonce = q.nonce PROVE p = q
    OBVIOUS
  <2>1. \A r \in pool : r.nonce \in Nat /\ r.nonce >= Len(mined)
    BY DEF PoolFresh, PoolInv, PoolTypeOK, Message
  <2>2. CASE p \in pool /\ q \in pool
    BY <2>2 DEF PoolFresh
  <2>3. CASE p \notin pool \/ q \notin pool
    BY <1>1, <1>2, <1>3, <2>1, <2>3
  <2> QED BY <2>2, <2>3
<1> QED BY <1>4, <1>5, <1>6 DEF PoolFresh

LEMMA FreshInitially == BroadcasterInit => PoolFresh
BY DEF BroadcasterInit, PoolFresh

LEMMA FreshStep == AllInv /\ PoolFresh /\ [BroadcasterNext]_broadcasterVars => PoolFresh'
<1> SUFFICES ASSUME AllInv, PoolFresh, [BroadcasterNext]_broadcasterVars PROVE PoolFresh'
  OBVIOUS
<1> USE DEF AllInv
<1>t. state \in [Tx -> TxState] /\ \A p \in pool : p.tx \in Tx
  BY NonceTypes DEF PoolInv, PoolTypeOK, Message
<1>1. ASSUME UNCHANGED <<state, pool, mined, stale>> PROVE PoolFresh'
  BY <1>1, FreshRowsChange
<1>2. CASE \/ UNCHANGED broadcasterVars \/ Start \/ Stop \/ PutBack \/ Retry \/ Reject
           \/ Bump \/ NewEstimation \/ \E t \in Tx : Resume(t) \/ Pick(t)
  BY <1>1, <1>2 DEF broadcasterVars, confirmerVars, Start, Stop, PutBack, Retry, Reject, Bump,
     NewEstimation, TryAgain, Resume, Pick
<1>3. CASE Abandon
  BY <1>3, <1>t, FreshRowsChange DEF Abandon, OnTheWay, confirmerVars
<1>4. ASSUME NEW t \in Tx, CreateTransaction(t) PROVE PoolFresh'
  <2>1. /\ UNCHANGED <<pool, mined, stale>>
        /\ \A u \in Tx : state[u] \in OnTheWay \cup {"confirmed"} => state'[u] = state[u]
    BY <1>4 DEF CreateTransaction, Pruned, Unstarted, In, OnTheWay, confirmerVars
  <2>2. \A p \in pool : state'[p.tx] = state[p.tx]
    BY <1>t, <2>1 DEF PoolFresh, TableInv, BroadcasterTypeOK, In
  <2> QED BY <2>1, <2>2, FreshRowsChange
<1>5. ASSUME NEW t \in Tx, Confirm(t) \/ Reap(t) PROVE PoolFresh'
  <2>1. UNCHANGED <<pool, mined, stale>> /\ t \in MinedTx /\ \A u \in Tx : u # t => state'[u] = state[u]
    BY <1>5, <1>t DEF Confirm, Reap, MinedTx, confirmerVars
  <2>2. \A p \in pool : p.tx # t
    BY <2>1, MinedNotInPool
  <2> QED BY <1>t, <2>1, <2>2, FreshRowsChange
<1>6. ASSUME NEW t \in Tx, Unconfirm(t) PROVE PoolFresh'
  <2>1. UNCHANGED <<pool, mined>> /\ stale' = stale \ {t} /\ state' = [state EXCEPT ![t] = "unconfirmed"]
    BY <1>6 DEF Unconfirm
  <2>2. \A p \in pool : \/ state'[p.tx] = state[p.tx] /\ p.tx # t
                        \/ state'[p.tx] \in OnTheWay
    BY <1>t, <2>1 DEF OnTheWay
  <2> QED BY <2>1, <2>2, FreshRowsChange
<1>7. ASSUME NEW t \in Tx, Resend(t) PROVE PoolFresh'
  BY <1>7, HighestIsOnly, FreshTaken DEF Resend, confirmerVars
<1>8. CASE Refuse \/ Claim
  <2>1. UNCHANGED <<pool, mined, stale>> /\ current \in Tx
        /\ \/ UNCHANGED state
           \/ state[current] = "unstarted" /\ \A u \in Tx : u # current => state'[u] = state[u]
    BY <1>8, <1>t DEF Refuse, Claim, confirmerVars, TableInv, BroadcasterTypeOK
  <2>2. state[current] = "unstarted" => \A p \in pool : p.tx # current
    BY <2>1, FreshNotMined
  <2> QED BY <1>t, <2>1, <2>2, FreshRowsChange
<1>9. CASE Accept
  <2>1. current \in Tx /\ state[current] = "in_progress" /\ InProgressFee(current) \in Fee
        /\ pool' = Taken(Attempt(current, InProgressFee(current))) /\ UNCHANGED <<state, mined, stale>>
    BY <1>9, InProgressIsOnly DEF Accept, Sent, confirmerVars, TableInv, InHand, BroadcasterTypeOK
  <2> QED BY <2>1, FreshTaken
<1>10. CASE SaveSent \/ SaveSentLost
  <2>1. UNCHANGED <<pool, mined, stale>> /\ state' = [state EXCEPT ![current] = "unconfirmed"]
    BY <1>10 DEF SaveSent, SaveSentLost, Saved, confirmerVars
  <2> QED BY <1>t, <2>1, FreshRowsChange DEF OnTheWay
<1>11. CASE SaveFatal
  <2>1. UNCHANGED <<pool, mined, stale>> /\ \A u \in Tx : u # current => state'[u] = state[u]
    BY <1>11, <1>t DEF SaveFatal, Discard, confirmerVars
  <2>2. \A p \in pool : p.tx # current
    BY <1>11 DEF SaveFatal, GivenUp, PoolInv, NotTaken, Accepted
  <2> QED BY <1>t, <2>1, <2>2, FreshRowsChange
<1>12. CASE Mine \/ Reorg
  BY <1>12, FreshMined, FreshReorged
<1> QED BY <1>2, <1>3, <1>4, <1>5, <1>6, <1>7, <1>8, <1>9, <1>10, <1>11, <1>12 DEF BroadcasterNext

\* A row that changes changes its status.
LEMMA StatusChanges ==
  ASSUME TableInv, NEW t \in Tx, NEW s \in TxState, state' = [state EXCEPT ![t] = s]
  PROVE  StatusInTable' = [StatusInTable EXCEPT ![t] = StatusOf[s]]
<1>1. \A u \in Tx : state'[u] = IF u = t THEN s ELSE state[u]
  BY NonceTypes
<1>2. StatusInTable' = [u \in Tx |-> IF u = t THEN StatusOf[s] ELSE StatusOf[state[u]]]
  BY <1>1 DEF StatusInTable
<1> QED BY <1>2 DEF StatusInTable

LEMMA StatusValues ==
  /\ StatusOf["new"] = "none"
  /\ StatusOf["unstarted"] = "waiting"
  /\ StatusOf["in_progress"] = "sending"
  /\ StatusOf["unconfirmed"] = "sending"
  /\ StatusOf["confirmed"] = "done"
  /\ StatusOf["fatal_error"] = "failed"
  /\ StatusOf["abandoned"] = "abandoned"
  /\ StatusOf["removed"] = "forgotten"
BY DEF StatusOf

\* The states of the broadcaster: it never waits for a missing receipt.
Handled == \A t \in Tx : state[t] # "confirmed_missing_receipt"

\* What waits, and what is on its way.
LEMMA OutstandingInTable ==
  ASSUME TableInv, Handled
  PROVE  /\ Abstract!With("waiting") = In({"unstarted"})
         /\ Abstract!With("done") = In({"confirmed"})
         /\ Abstract!With("forgotten") = In({"removed"})
         /\ Abstract!Outstanding = In({"unconfirmed", "in_progress", "unstarted"})
<1>1. \A t \in Tx : /\ StatusInTable[t] = StatusOf[state[t]]
                    /\ state[t] \in TxState \ {"confirmed_missing_receipt"}
  BY NonceTypes DEF StatusInTable, Handled
<1>2. \A t \in Tx : /\ StatusInTable[t] = "waiting" <=> state[t] = "unstarted"
                    /\ StatusInTable[t] = "done" <=> state[t] = "confirmed"
                    /\ StatusInTable[t] = "forgotten" <=> state[t] = "removed"
                    /\ StatusInTable[t] = "sending" <=> state[t] \in {"unconfirmed", "in_progress"}
  BY <1>1, StatusValues DEF TxState
<1> QED BY <1>2 DEF Abstract!With, Abstract!Outstanding, In

LEMMA HandledStep ==
  ASSUME TableInv, Handled, [BroadcasterNext]_broadcasterVars
  PROVE  Handled'
<1>1. \A t \in Tx : state'[t] \in {state[t], "unstarted", "removed", "confirmed", "abandoned",
                                   "in_progress", "fatal_error", "unconfirmed"}
  BY NonceTypes DEF BroadcasterNext, broadcasterVars, CreateTransaction, Confirm, Unconfirm,
     Resend, Reap, Resume, Pick, Start, Stop, Abandon, Refuse, PutBack, Claim, Accept, Reject,
     SaveSent, SaveSentLost, Saved, SaveFatal, Discard, Bump, NewEstimation, TryAgain, Retry, Mine, Reorg
<1> QED BY <1>1 DEF Handled

DeliveryInv == AllInv /\ PoolFresh /\ Handled

LEMMA InitiallyDelivery == BroadcasterInit => Abstract!DeliveryInit
<1> SUFFICES ASSUME BroadcasterInit PROVE Abstract!DeliveryInit
  OBVIOUS
<1>1. StatusInTable = [t \in Tx |-> "none"]
  BY StatusValues DEF StatusInTable, BroadcasterInit, StoreInit
<1>2. MinedTx = {} /\ stale = {}
  BY DEF MinedTx, BroadcasterInit
<1> QED BY <1>1, <1>2 DEF Abstract!DeliveryInit

\* A new row comes to the queue, and the oldest may leave it.
LEMMA CreateIsSubmit ==
  ASSUME DeliveryInv, NEW t \in Tx, CreateTransaction(t)
  PROVE  \E S \in SUBSET Tx : Abstract!Submit(t, S)
<1> USE DEF DeliveryInv, AllInv
<1>1. /\ state[t] = "new"
      /\ state' = [u \in Tx |-> IF u = t THEN "unstarted"
                                ELSE IF u \in Pruned THEN "removed" ELSE state[u]]
      /\ UNCHANGED <<MinedTx, stale>>
  BY DEF CreateTransaction, MinedTx, confirmerVars
<1>2. StatusInTable' = [u \in Tx |-> IF u = t THEN "waiting"
                                     ELSE IF u \in Pruned THEN "forgotten" ELSE StatusInTable[u]]
  BY <1>1, StatusValues DEF StatusInTable
<1>3. StatusInTable[t] = "none"
  BY <1>1, StatusValues DEF StatusInTable
<1>4. Pruned \subseteq Abstract!With("waiting") /\ Pruned \in SUBSET Tx
  BY OutstandingInTable DEF Pruned, Unstarted, In
<1> QED BY <1>1, <1>2, <1>3, <1>4 DEF Abstract!Submit

\* A claimed row is on its way; what the node says of a row at hand.
LEMMA ClaimIsBegin ==
  ASSUME DeliveryInv, Claim
  PROVE  (\E t \in Tx : Abstract!Begin(t)) \/ UNCHANGED <<StatusInTable, MinedTx, stale>>
<1> USE DEF DeliveryInv, AllInv
<1>1. current \in Tx /\ UNCHANGED <<MinedTx, stale>>
  BY DEF Claim, confirmerVars, TableInv, BroadcasterTypeOK, MinedTx
<1>2. CASE UNCHANGED state
  BY <1>1, <1>2 DEF StatusInTable
<1>3. CASE state[current] = "unstarted" /\ state' = [state EXCEPT ![current] = "in_progress"]
  <2>1. StatusInTable[current] = "waiting"
    BY <1>1, <1>3, StatusValues DEF StatusInTable
  <2>2. StatusInTable' = [StatusInTable EXCEPT ![current] = "sending"]
    BY <1>1, <1>3, StatusChanges, StatusValues DEF TxState
  <2> QED BY <1>1, <2>1, <2>2 DEF Abstract!Begin, Abstract!Becomes
<1> QED BY <1>2, <1>3 DEF Claim

\* A refused row was never sent, and a discarded one never accepted.
LEMMA FatalIsFail ==
  ASSUME DeliveryInv, Refuse \/ SaveFatal
  PROVE  \E t \in Tx : Abstract!Fail(t)
<1> USE DEF DeliveryInv, AllInv
<1>1. /\ current \in Tx /\ UNCHANGED <<MinedTx, stale>>
      /\ state[current] \in {"unstarted", "in_progress"}
      /\ state' = [state EXCEPT ![current] = "fatal_error"]
  BY DEF Refuse, SaveFatal, Discard, confirmerVars, TableInv, BroadcasterTypeOK, InHand, MinedTx
<1>2. current \notin MinedTx
  <2>1. CASE Refuse
    BY <1>1, <2>1, FreshNotMined DEF Refuse
  <2>2. CASE SaveFatal
    BY <2>2 DEF SaveFatal, GivenUp, PoolInv, NotTaken, Accepted, MinedTx
  <2> QED BY <2>1, <2>2
<1>3. current \in Abstract!Outstanding
  BY <1>1, OutstandingInTable DEF In
<1>4. StatusInTable' = [StatusInTable EXCEPT ![current] = "failed"]
  BY <1>1, StatusChanges, StatusValues DEF TxState
<1> QED BY <1>1, <1>2, <1>3, <1>4 DEF Abstract!Fail, Abstract!Becomes

LEMMA SavedOrReaped ==
  ASSUME DeliveryInv
  PROVE  /\ SaveSent \/ SaveSentLost => UNCHANGED <<StatusInTable, MinedTx, stale>>
         /\ \A t \in Tx : Confirm(t) => Abstract!Report(t)
         /\ \A t \in Tx : Unconfirm(t) => Abstract!Withdraw(t)
         /\ \A t \in Tx : Reap(t) => Abstract!Forget(t)
<1> USE DEF DeliveryInv, AllInv
<1>1. ASSUME SaveSent \/ SaveSentLost PROVE UNCHANGED <<StatusInTable, MinedTx, stale>>
  <2>1. /\ current \in Tx /\ state[current] = "in_progress" /\ UNCHANGED <<MinedTx, stale>>
        /\ state' = [state EXCEPT ![current] = "unconfirmed"]
    BY <1>1 DEF SaveSent, SaveSentLost, Saved, confirmerVars, TableInv, BroadcasterTypeOK, InHand, MinedTx
  <2>2. StatusInTable' = [StatusInTable EXCEPT ![current] = "sending"]
    BY <2>1, StatusChanges, StatusValues DEF TxState
  <2>3. StatusInTable[current] = "sending"
    BY <2>1, StatusValues DEF StatusInTable
  <2> QED BY <2>1, <2>2, <2>3 DEF StatusInTable
<1>2. ASSUME NEW t \in Tx, Confirm(t) PROVE Abstract!Report(t)
  <2>1. /\ state[t] = "unconfirmed" /\ t \in MinedTx /\ UNCHANGED <<MinedTx, stale>>
        /\ state' = [state EXCEPT ![t] = "confirmed"]
    BY <1>2 DEF Confirm, MinedTx
  <2>2. StatusInTable[t] = "sending" /\ StatusInTable' = [StatusInTable EXCEPT ![t] = "done"]
    BY <2>1, StatusChanges, StatusValues DEF StatusInTable, TxState
  <2> QED BY <2>1, <2>2 DEF Abstract!Report, Abstract!Becomes
<1>3. ASSUME NEW t \in Tx, Unconfirm(t) PROVE Abstract!Withdraw(t)
  <2>1. /\ t \in stale /\ stale' = stale \ {t} /\ MinedTx' = MinedTx
        /\ state' = [state EXCEPT ![t] = "unconfirmed"]
    BY <1>3 DEF Unconfirm, MinedTx
  <2>2. StatusInTable' = [StatusInTable EXCEPT ![t] = "sending"]
    BY <2>1, StatusChanges, StatusValues DEF TxState
  <2> QED BY <2>1, <2>2 DEF Abstract!Withdraw, Abstract!Becomes
<1>4. ASSUME NEW t \in Tx, Reap(t) PROVE Abstract!Forget(t)
  <2>1. /\ state[t] = "confirmed" /\ t \in MinedTx \ stale /\ UNCHANGED <<MinedTx, stale>>
        /\ state' = [state EXCEPT ![t] = "removed"]
    BY <1>4 DEF Reap, MinedTx, confirmerVars
  <2>2. StatusInTable[t] = "done" /\ StatusInTable' = [StatusInTable EXCEPT ![t] = "forgotten"]
    BY <2>1, StatusChanges, StatusValues DEF StatusInTable, TxState
  <2> QED BY <2>1, <2>2 DEF Abstract!Forget, Abstract!Becomes
<1> QED BY <1>1, <1>2, <1>3, <1>4

\* What is mined is on its way, abandoned there or undone, and not mined now.
LEMMA MineIsCarryOut ==
  ASSUME DeliveryInv, Mine
  PROVE  \E t \in Tx : Abstract!CarryOut(t)
<1> USE DEF DeliveryInv, AllInv
<1>1. PICK p \in pool : mined' = Append(mined, p) /\ UNCHANGED <<state, stale>>
  BY DEF Mine, confirmerVars
<1>2. p \in Message /\ mined \in Seq(Message)
  BY DEF PoolInv, PoolTypeOK
<1>3. p.tx \in Tx /\ p.tx \notin MinedTx
  BY <1>2, MinedNotInPool DEF Message
<1>4. MinedTx' = MinedTx \cup {p.tx}
  <2>1. /\ DOMAIN mined' = DOMAIN mined \cup {Len(mined) + 1}
        /\ mined'[Len(mined) + 1] = p
        /\ \A i \in DOMAIN mined : mined'[i] = mined[i]
    BY <1>1, <1>2
  <2> QED BY <2>1 DEF MinedTx
<1>5. StatusInTable[p.tx] \in {"sending", "abandoned"} \/ p.tx \in stale
  BY <1>3, StatusValues DEF StatusInTable, PoolFresh, OnTheWay
<1>6. StatusInTable' = StatusInTable
  BY <1>1 DEF StatusInTable
<1> QED BY <1>1, <1>3, <1>4, <1>5, <1>6 DEF Abstract!CarryOut

\* What a re-organisation drops is undone.
LEMMA ReorgIsUndo ==
  ASSUME DeliveryInv, Reorg
  PROVE  \E S \in SUBSET Tx : Abstract!Undo(S)
<1> USE DEF DeliveryInv, AllInv
<1>1. PICK k \in Nat :
        /\ k < Len(mined) /\ DOMAIN mined' = 1 .. k /\ DOMAIN mined = 1 .. Len(mined)
        /\ \A i \in 1 .. k : mined'[i] = mined[i]
        /\ \A i \in (k + 1) .. Len(mined) : state[mined[i].tx] # "removed"
        /\ stale' = stale \cup
             {t \in In({"confirmed"}) : \E i \in (k + 1) .. Len(mined) : mined[i].tx = t}
  BY ReorgEffect DEF PoolInv
<1>2. UNCHANGED state /\ Len(mined) \in Nat
  BY MinedLength DEF Reorg
<1> DEFINE S == {mined[i].tx : i \in (k + 1) .. Len(mined)}
<1>3. \A i \in 1 .. Len(mined) : mined[i].tx \in Tx /\ mined[i].nonce = i - 1
  <2>1. \A i \in 1 .. Len(mined) : mined[i] \in Message
    BY DEF PoolInv, PoolTypeOK
  <2>2. \A i \in 1 .. Len(mined) : mined[i].nonce = i - 1
    BY <1>1 DEF PoolInv, MinedInOrder
  <2> QED BY <2>1, <2>2 DEF Message
<1>4. S \in SUBSET Tx
  BY <1>2, <1>3
<1>5. \A i \in 1 .. k, j \in (k + 1) .. Len(mined) : mined[i].tx # mined[j].tx
  <2> SUFFICES ASSUME NEW i \in 1 .. k, NEW j \in (k + 1) .. Len(mined), mined[i].tx = mined[j].tx
               PROVE  FALSE
    OBVIOUS
  <2>1. i \in DOMAIN mined /\ j \in DOMAIN mined /\ i # j /\ i \in Nat /\ j \in Nat
    BY <1>1, <1>2
  <2>2. mined[i].nonce = mined[j].nonce
    BY <2>1 DEF PoolInv, SentUnderOneNonce
  <2> QED BY <1>1, <1>3, <2>1, <2>2
<1>6. MinedTx' = {mined[i].tx : i \in 1 .. k}
  BY <1>1 DEF MinedTx
<1>7. MinedTx = {mined[i].tx : i \in 1 .. k} \cup S
  BY <1>1, <1>2 DEF MinedTx
<1>8. MinedTx' = MinedTx \ S
  BY <1>5, <1>6, <1>7
<1>9. S \subseteq MinedTx \ Abstract!With("forgotten")
  BY <1>1, <1>7, OutstandingInTable DEF In
<1>10. stale' = stale \cup (S \cap Abstract!With("done"))
  BY <1>1, OutstandingInTable DEF In
<1>11. StatusInTable' = StatusInTable
  BY <1>2 DEF StatusInTable
<1> HIDE DEF S
<1> QED BY <1>4, <1>8, <1>9, <1>10, <1>11 DEF Abstract!Undo

LEMMA AbandonIsGiveUp == ASSUME DeliveryInv, Abandon PROVE Abstract!GiveUp
<1> USE DEF DeliveryInv, AllInv
<1>1. /\ state' = [t \in Tx |-> IF t \in In({"unconfirmed", "in_progress", "unstarted"})
                                THEN "abandoned" ELSE state[t]]
      /\ UNCHANGED <<MinedTx, stale>>
  BY DEF Abandon, MinedTx, confirmerVars
<1>2. StatusInTable' = [t \in Tx |-> IF t \in In({"unconfirmed", "in_progress", "unstarted"})
                                     THEN "abandoned" ELSE StatusInTable[t]]
  BY <1>1, StatusValues DEF StatusInTable
<1> QED BY <1>1, <1>2, OutstandingInTable DEF Abstract!GiveUp

LEMMA DeliveryStep ==
  DeliveryInv /\ [BroadcasterNext]_broadcasterVars => [Abstract!DeliveryNext]_(Abstract!deliveryVars)
<1> SUFFICES ASSUME DeliveryInv, [BroadcasterNext]_broadcasterVars
             PROVE  [Abstract!DeliveryNext]_(Abstract!deliveryVars)
  OBVIOUS
<1>1. ASSUME UNCHANGED <<state, mined, stale>> PROVE UNCHANGED Abstract!deliveryVars
  BY <1>1 DEF Abstract!deliveryVars, StatusInTable, MinedTx
<1>2. CASE \/ UNCHANGED broadcasterVars \/ Start \/ Stop \/ PutBack \/ Retry \/ Accept \/ Reject
           \/ Bump \/ NewEstimation \/ \E t \in Tx : Resume(t) \/ Pick(t) \/ Resend(t)
  BY <1>1, <1>2 DEF broadcasterVars, confirmerVars, Start, Stop, PutBack, Retry, Accept, Reject, Bump,
     NewEstimation, TryAgain, Resume, Pick, Resend
<1>3. CASE Abandon
  BY <1>3, AbandonIsGiveUp DEF Abstract!DeliveryNext
<1>4. CASE \E t \in Tx : CreateTransaction(t)
  BY <1>4, CreateIsSubmit DEF Abstract!DeliveryNext
<1>5. CASE \E t \in Tx : Confirm(t) \/ Unconfirm(t) \/ Reap(t)
  BY <1>5, SavedOrReaped DEF Abstract!DeliveryNext
<1>6. CASE Refuse \/ SaveFatal
  BY <1>6, FatalIsFail DEF Abstract!DeliveryNext
<1>7. CASE Claim
  BY <1>7, ClaimIsBegin DEF Abstract!DeliveryNext, Abstract!deliveryVars
<1>8. CASE SaveSent \/ SaveSentLost
  BY <1>8, SavedOrReaped DEF Abstract!deliveryVars
<1>9. CASE Mine
  BY <1>9, MineIsCarryOut DEF Abstract!DeliveryNext
<1>10. CASE Reorg
  BY <1>10, ReorgIsUndo DEF Abstract!DeliveryNext
<1> QED BY <1>2, <1>3, <1>4, <1>5, <1>6, <1>7, <1>8, <1>9, <1>10 DEF BroadcasterNext

LEMMA DeliveryInvariant == BroadcasterSpec => []DeliveryInv
<1>1. BroadcasterInit => RoomInv /\ PoolInv /\ PoolFresh /\ Handled
  <2>1. BroadcasterInit => Handled
    BY DEF BroadcasterInit, StoreInit, Handled
  <2> QED BY <2>1, RoomInitially, PoolInitially, FreshInitially
<1>2. TableInv /\ RoomInv /\ PoolInv /\ PoolFresh /\ Handled /\ [BroadcasterNext]_broadcasterVars
        => RoomInv' /\ PoolInv' /\ PoolFresh' /\ Handled'
  BY RoomStep, PoolStep, FreshStep, HandledStep DEF AllInv
<1> QED BY <1>1, <1>2, TableInvariant, PTL DEF BroadcasterSpec, DeliveryInv, AllInv

\* Over any number of crashes, resets, lost answers and re-organisations, a
\* transaction is mined at most once on a chain, is confirmed only after that,
\* comes back only when its block was dropped, and is never mined after its
\* fatal_error.
THEOREM BroadcasterDelivers == BroadcasterSpec => ImplementsDelivery
<1> QED BY InitiallyDelivery, DeliveryStep, DeliveryInvariant, PTL
        DEF BroadcasterSpec, ImplementsDelivery, Abstract!DeliverySpec

\* In every state of the node: what is confirmed is mined, or was until its
\* block was dropped, and what was refused, given up with fatal_error or never
\* sent is not.
THEOREM BroadcasterReportsAreTrue == BroadcasterSpec => []Abstract!ReportsAreTrue
<1>1. Abstract!DeliveryInit => Abstract!ReportsAreTrue
  BY DEF Abstract!DeliveryInit, Abstract!ReportsAreTrue, Abstract!With
<1>2. ASSUME Abstract!ReportsAreTrue, [Abstract!DeliveryNext]_(Abstract!deliveryVars)
      PROVE  Abstract!ReportsAreTrue'
  <2> USE DEF Abstract!ReportsAreTrue, Abstract!With
  <2>1. CASE UNCHANGED Abstract!deliveryVars
    BY <1>2, <2>1 DEF Abstract!deliveryVars
  <2>2. CASE Abstract!GiveUp
    BY <1>2, <2>2 DEF Abstract!GiveUp, Abstract!Outstanding
  <2>3. ASSUME NEW t \in Tx, NEW S \in SUBSET Tx, Abstract!Submit(t, S) PROVE Abstract!ReportsAreTrue'
    BY <1>2, <2>3 DEF Abstract!Submit
  <2>4. ASSUME NEW t \in Tx,
               \/ Abstract!Begin(t) \/ Abstract!Fail(t) \/ Abstract!Report(t)
               \/ Abstract!Withdraw(t) \/ Abstract!Forget(t)
        PROVE  Abstract!ReportsAreTrue'
    <3>1. PICK s \in {"sending", "failed", "done", "forgotten"} :
            /\ StatusInTable' = [StatusInTable EXCEPT ![t] = s]
            /\ MinedTx' = MinedTx
            /\ s = "failed" => t \notin MinedTx
            /\ s = "done" => t \in MinedTx
            /\ \/ stale' = stale /\ (s = "done" \/ t \notin stale)
               \/ stale' = stale \ {t} /\ s = "sending"
      <4>1. CASE Abstract!Begin(t) \/ Abstract!Report(t)
        BY <1>2, <4>1 DEF Abstract!Begin, Abstract!Report, Abstract!Becomes
      <4>2. CASE Abstract!Fail(t)
        BY <1>2, <4>2 DEF Abstract!Fail, Abstract!Becomes, Abstract!Outstanding
      <4>3. CASE Abstract!Withdraw(t) \/ Abstract!Forget(t)
        BY <1>2, <4>3 DEF Abstract!Withdraw, Abstract!Forget, Abstract!Becomes
      <4> QED BY <2>4, <4>1, <4>2, <4>3
    <3>2. \A u \in Tx : StatusInTable'[u] = IF u = t THEN s ELSE StatusInTable[u]
      BY <3>1 DEF StatusInTable
    <3> QED BY <1>2, <3>1, <3>2
  <2>5. ASSUME NEW t \in Tx, Abstract!CarryOut(t) PROVE Abstract!ReportsAreTrue'
    BY <1>2, <2>5 DEF Abstract!CarryOut
  <2>6. ASSUME NEW S \in SUBSET Tx, Abstract!Undo(S) PROVE Abstract!ReportsAreTrue'
    BY <1>2, <2>6 DEF Abstract!Undo
  <2> QED BY <1>2, <2>1, <2>2, <2>3, <2>4, <2>5, <2>6 DEF Abstract!DeliveryNext
<1> QED BY <1>1, <1>2, BroadcasterDelivers, PTL DEF ImplementsDelivery, Abstract!DeliverySpec

=============================================================================
