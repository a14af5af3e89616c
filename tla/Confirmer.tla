----------------------------- MODULE Confirmer -----------------------------
(***************************************************************************)
(* The confirmer of a Chainlink node for one key (confirmer.go): what it   *)
(* does on each new head to the transactions that the broadcaster has      *)
(* sent, and how they get a receipt, a higher gas price, or a new start    *)
(* after a re-organisation of the chain.  Beside it run the broadcaster,   *)
(* here only the transactions it adds, and the resender.                   *)
(*                                                                         *)
(* The Ethereum node and its chain are external.  Transaction t has the    *)
(* nonce t - 1, so that the transactions are mined in the order of their   *)
(* numbers.  A query that writes the database is one action, or one with   *)
(* the questions to the Ethereum node before it: nothing else writes those *)
(* rows, and a crash or a lost answer is an alternative of the step.       *)
(***************************************************************************)
EXTENDS TxStore, Sequences

CONSTANTS
  FinalityDepth,     \* blocks that are not re-organised
  BumpThreshold,     \* heads before the gas price is bumped
  MinConfirmations,  \* blocks on top of a receipt before a job goes on
  BatchSize,         \* RPCDefaultBatchSize
  MaxHeight,         \* bound: the height of the chain
  MaxForks           \* bound: re-organisations

ASSUME ConfirmerAssumption ==
  /\ {FinalityDepth, BumpThreshold, MinConfirmations, MaxHeight, MaxForks} \subseteq Nat
  /\ BatchSize \in Nat \ {0}

\* A NULL block number.
NoBlock == 0

VARIABLES
  before,    \* evm.tx_attempts.broadcast_before_block_num
  receipts,  \* evm.receipts
  resumed,   \* the transactions with callback_completed
  step,      \* how far processHead is
  head,      \* the chain of the head it processes, as hashes by height
  todo,      \* the transactions a loop of it still has to handle
  asked,     \* the attempts whose receipts it still has to ask for
  fetched,   \* the receipts it has fetched and not saved
  chain,     \* the blocks of the Ethereum node
  forks,     \* how often its chain was re-organised
  used,      \* history: the most transactions it has had in its chain
  pool       \* the price at which it holds a transaction, 0 if it does not

chainVars == <<chain, forks, used>>
headVars == <<step, head, todo, asked, fetched>>
confirmerVars ==
  <<state, nonce, attempts, before, receipts, resumed, step, head, todo, asked, fetched,
    chain, forks, used, pool>>

ConfirmerInit ==
  /\ StoreInit
  /\ before = [t \in Tx |-> [f \in Fee |-> NoBlock]]
  /\ receipts = {}
  /\ resumed = {}
  /\ step = "idle"
  /\ head = <<>>
  /\ todo = {}
  /\ asked = {}
  /\ fetched = {}
  /\ chain = <<>>
  /\ forks = 0
  /\ used = 0
  /\ pool = [t \in Tx |-> 0]

-----------------------------------------------------------------------------
(***************************************************************************)
(* The Ethereum node.                                                      *)
(***************************************************************************)
\* SequenceAt: the transactions mined.
Mined == Cardinality({i \in DOMAIN chain : chain[i].tx # 0})

\* The pool after the attempt of t at the price f is sent.
Taken(t, f) ==
  IF t <= Mined \/ f <= pool[t] THEN pool ELSE [pool EXCEPT ![t] = f]

Block(t, f) == [fork |-> forks, tx |-> t, fee |-> f]

\* A block with the next transaction, or with none of this key.
Mine ==
  /\ Len(chain) < MaxHeight
  /\ \/ /\ chain' = Append(chain, Block(0, 0))
        /\ UNCHANGED <<pool, used>>
     \/ \E t \in Tx :
          /\ t = Mined + 1
          /\ pool[t] # 0
          /\ chain' = Append(chain, Block(t, pool[t]))
          /\ pool' = [pool EXCEPT ![t] = 0]
          /\ used' = IF t > used THEN t ELSE used
  /\ UNCHANGED <<state, nonce, attempts, before, receipts, resumed, forks>>
  /\ UNCHANGED headVars

\* Blocks are dropped; their transactions are pending again or lost.
Reorg ==
  /\ forks < MaxForks
  /\ forks' = forks + 1
  /\ \E keep \in DOMAIN chain \cup {0} :
       /\ keep >= Len(chain) - FinalityDepth
       /\ chain' = SubSeq(chain, 1, keep)
       /\ \E back \in SUBSET {chain[i].tx : i \in (keep + 1) .. Len(chain)} :
            pool' = [t \in Tx |->
              IF t \in back
              THEN (CHOOSE b \in {chain[i] : i \in DOMAIN chain} : b.tx = t).fee
              ELSE pool[t]]
  /\ UNCHANGED <<state, nonce, attempts, before, receipts, resumed, used>>
  /\ UNCHANGED headVars

-----------------------------------------------------------------------------
(***************************************************************************)
(* Broadcaster and resender.                                               *)
(***************************************************************************)
\* The broadcaster has sent t, and has saved it: the Ethereum node has it, or
\* was busy, which counts as sent.
Broadcast(t) ==
  /\ state[t] = "new"
  /\ \A u \in Tx : u < t => state[u] # "new"
  /\ state' = [state EXCEPT ![t] = "unconfirmed"]
  /\ nonce' = [nonce EXCEPT ![t] = t - 1]
  /\ attempts' = [attempts EXCEPT ![t][1] = "broadcast"]
  /\ pool' \in {pool, Taken(t, 1)}
  /\ UNCHANGED <<before, receipts, resumed, chainVars>>
  /\ UNCHANGED headVars

\* The resender sends the highest priced attempt that is not in progress.
Resend(t) ==
  /\ state[t] \in {"unconfirmed", "confirmed_missing_receipt"}
  /\ \E f \in Fee :
       /\ attempts[t][f] \in {"broadcast", "insufficient_eth"}
       /\ \A g \in Fee : attempts[t][g] \in {"broadcast", "insufficient_eth"} => g <= f
       /\ pool' = Taken(t, f)
  /\ UNCHANGED <<state, nonce, attempts, before, receipts, resumed, chainVars>>
  /\ UNCHANGED headVars

-----------------------------------------------------------------------------
(***************************************************************************)
(* processHead.                                                            *)
(***************************************************************************)
\* A crash, the timeout of processHead, or an error of the database or the
\* Ethereum node: the rest is left to the next head.
Abort ==
  /\ step # "idle"
  /\ step' = "idle"
  /\ todo' = {}
  /\ asked' = {}
  /\ fetched' = {}
  /\ UNCHANGED <<state, nonce, attempts, before, receipts, resumed, head, chainVars, pool>>

\* The head tracker passes on a head only if it is higher than the last one.
\* SetBroadcastBeforeBlockNum.
NewHead ==
  /\ step = "idle"
  /\ Len(chain) > Len(head)
  /\ head' = [i \in DOMAIN chain |-> chain[i].fork]
  /\ before' = [t \in Tx |-> [f \in Fee |->
       IF before[t][f] = NoBlock /\ attempts[t][f] = "broadcast"
       THEN Len(chain) ELSE before[t][f]]]
  /\ step' = "missing"
  /\ UNCHANGED <<state, nonce, attempts, receipts, resumed, todo, asked, fetched, chainVars, pool>>

Attempted(t) == \E f \in Fee : attempts[t][f] # "none"

\* CheckConfirmedMissingReceipt: what is taken to be mined is sent again, and
\* is unconfirmed if the answer is another one than that its nonce is used.
CheckConfirmedMissingReceipt ==
  /\ step = "missing"
  /\ \E M \in {{t \in In({"confirmed_missing_receipt"}) : Attempted(t)}} :
     \E answered \in SUBSET M :
       /\ pool' = [t \in Tx |-> IF t \in answered THEN Taken(t, Highest(t))[t] ELSE pool[t]]
       /\ state' = [t \in Tx |-> IF t \in M /\ (t \in answered => t > Mined)
                                 THEN "unconfirmed" ELSE state[t]]
  /\ step' = "fetch"
  /\ UNCHANGED <<nonce, attempts, before, receipts, resumed, head, todo, asked, fetched, chainVars>>

\* FindTxAttemptsRequiringReceiptFetch.
RequiringReceipt ==
  {a \in [tx : Tx, fee : Fee] :
     /\ state[a.tx] \in {"unconfirmed", "confirmed_missing_receipt"}
     /\ attempts[a.tx][a.fee] \in {"in_progress", "broadcast"}}

\* GetInProgressTxAttempts, as the transactions: each has at most one.
LeftInProgress ==
  {t \in In({"confirmed", "confirmed_missing_receipt", "unconfirmed"}) :
     \E f \in Fee : attempts[t][f] = "in_progress"}

\* CheckForReceipts returns when there is none to ask for.  Otherwise it asks
\* for those whose nonce is at most the number of mined ones.
FindAttempts ==
  /\ step = "fetch"
  /\ asked' = {a \in RequiringReceipt : a.tx - 1 <= Mined}
  /\ IF RequiringReceipt = {} THEN step' = "resend" /\ todo' = LeftInProgress
     ELSE step' = (IF asked' = {} THEN "mark" ELSE "receipts") /\ UNCHANGED todo
  /\ UNCHANGED <<state, nonce, attempts, before, receipts, resumed, head, fetched, chainVars, pool>>

\* By nonce, the higher price first.
AskedBefore(a, b) == a.tx < b.tx \/ (a.tx = b.tx /\ a.fee > b.fee)

Batch == {a \in asked : Cardinality({b \in asked : AskedBefore(b, a)}) < BatchSize}

Receipt(i) ==
  [tx |-> chain[i].tx, fee |-> chain[i].fee, num |-> i, fork |-> chain[i].fork]

\* One round of fetchAndSaveReceipts, up to the answer of the Ethereum node,
\* which need not hold every receipt.
FetchReceipts ==
  /\ step = "receipts"
  /\ fetched' \in SUBSET {Receipt(i) : i \in {j \in DOMAIN chain :
       [tx |-> chain[j].tx, fee |-> chain[j].fee] \in Batch}}
  /\ asked' = asked \ Batch
  /\ step' = "save"
  /\ UNCHANGED <<state, nonce, attempts, before, receipts, resumed, head, todo, chainVars, pool>>

\* An attempt that was mined was sent, whatever was known of it.
AttemptsSent ==
  [t \in Tx |-> [f \in Fee |->
     IF \E r \in fetched : r.tx = t /\ r.fee = f THEN "broadcast" ELSE attempts[t][f]]]

SaveFetchedReceipts ==
  /\ step = "save"
  /\ receipts' = receipts \cup fetched
  /\ state' = [t \in Tx |-> IF \E r \in fetched : r.tx = t THEN "confirmed" ELSE state[t]]
  /\ attempts' = AttemptsSent
  /\ before' = [t \in Tx |-> [f \in Fee |->
       IF before[t][f] = NoBlock /\ \E r \in fetched : r.tx = t /\ r.fee = f
       THEN (CHOOSE r \in fetched : r.tx = t /\ r.fee = f).num ELSE before[t][f]]]
  /\ step' = IF asked = {} THEN "mark" ELSE "receipts"
  /\ fetched' = {}
  /\ UNCHANGED <<nonce, resumed, head, todo, asked, chainVars, pool>>

\* What has a lower nonce than a confirmed transaction is taken to be mined.
MarkAllConfirmedMissingReceipt ==
  /\ step = "mark"
  /\ state' = [t \in Tx |->
       IF state[t] = "unconfirmed" /\ \E u \in In({"confirmed"}) : nonce[t] < nonce[u]
       THEN "confirmed_missing_receipt" ELSE state[t]]
  /\ step' = "old"
  /\ UNCHANGED <<nonce, attempts, before, receipts, resumed, head, todo, asked, fetched, chainVars, pool>>

\* All that is known of its attempts is that they were sent before the cutoff.
SentBefore(t, cutoff) ==
  LET blocks == {before[t][f] : f \in Fee} \ {NoBlock}
  IN  blocks # {} /\ \A b \in blocks : b < cutoff

\* Mutant: unconfirmed transactions as well.
OldUnconfirmed(cutoff) ==
  {t \in In({"confirmed_missing_receipt", "unconfirmed"}) : cutoff > 0 /\ SentBefore(t, cutoff)}

Old(cutoff) == {t \in In({"confirmed_missing_receipt"}) : cutoff > 0 /\ SentBefore(t, cutoff)}

MarkOldTxesMissingReceiptAsErrored ==
  LET old == Old(Len(head) - FinalityDepth)
  IN  /\ step = "old"
      /\ state' = [t \in Tx |-> IF t \in old THEN "fatal_error" ELSE state[t]]
      /\ nonce' = [t \in Tx |-> IF t \in old THEN NoNonce ELSE nonce[t]]
      /\ step' = "resend"
      /\ todo' = LeftInProgress \ old
      /\ UNCHANGED <<attempts, before, receipts, resumed, head, asked, fetched, chainVars, pool>>

-----------------------------------------------------------------------------
\* Mutant: an attempt whose fate is unknown is deleted.
Forgotten(t, f, A) == [A EXCEPT ![t][f] = "none"]

\* An attempt goes with its receipts.
WithoutAttempt(t, f) == {r \in receipts : ~(r.tx = t /\ r.fee = f)}

\* An attempt whose fate is unknown stays in progress.
LeftBehind(t, f, A) == A

\* handleInProgressAttempt for the attempt of t at the price f; the rows of
\* the attempts are A, their block numbers B.
Handled(t, f, A, B) ==
  \* The nonce is used: taken to be mined.
  \/ /\ t <= Mined
     /\ attempts' = [A EXCEPT ![t][f] = "broadcast"]
     /\ state' = [state EXCEPT ![t] = "confirmed_missing_receipt"]
     /\ before' = B
     /\ todo' = todo \ {t}
     /\ UNCHANGED <<receipts, step, pool>>
  \* It is sent, or known, or the Ethereum node is busy.
  \/ /\ t > Mined
     /\ pool' \in {pool, Taken(t, f)}
     /\ attempts' = [A EXCEPT ![t][f] = "broadcast"]
     /\ before' = B
     /\ todo' = todo \ {t}
     /\ UNCHANGED <<state, receipts, step>>
  \* The balance is too low.
  \/ /\ t > Mined /\ pool[t] # f
     /\ attempts' = [A EXCEPT ![t][f] = "insufficient_eth"]
     /\ before' = B
     /\ todo' = todo \ {t}
     /\ UNCHANGED <<state, receipts, step, pool>>
  \* The error is fatal, or the fee above the limit: the attempt is deleted.
  \/ /\ t > Mined /\ pool[t] # f
     /\ attempts' = [A EXCEPT ![t][f] = "none"]
     /\ receipts' = WithoutAttempt(t, f)
     /\ before' = [B EXCEPT ![t][f] = NoBlock]
     /\ todo' = todo \ {t}
     /\ UNCHANGED <<state, step, pool>>
  \* It is underpriced: a higher one takes its place and is handled next.
  \/ /\ t > Mined /\ pool[t] # f /\ f < MaxFee
     /\ \A g \in Fee : A[t][g] # "none" => g <= f
     /\ attempts' = [A EXCEPT ![t][f] = "none", ![t][f + 1] = "in_progress"]
     /\ receipts' = WithoutAttempt(t, f)
     /\ before' = [B EXCEPT ![t][f] = NoBlock]
     /\ UNCHANGED <<state, step, todo, pool>>
  \* Another error, or no answer: in progress until the next head.
  \/ /\ pool' \in {pool, Taken(t, f)}
     /\ attempts' = LeftBehind(t, f, A)
     /\ before' = B
     /\ step' = "idle"
     /\ todo' = {}
     /\ UNCHANGED <<state, receipts>>

\* handleAnyInProgressAttempts, in RebroadcastWhereNecessary and at the end of
\* EnsureConfirmedTransactionsInLongestChain.
HandleInProgress(t) ==
  /\ step \in {"resend", "bump", "again"}
  /\ t \in todo
  /\ \E f \in Fee :
       /\ attempts[t][f] = "in_progress"
       /\ Handled(t, f, attempts, before)
  /\ UNCHANGED <<nonce, resumed, head, asked, fetched, chainVars>>

\* FindTxsRequiringRebroadcast.
RequiringRebroadcast ==
  {t \in In({"unconfirmed"}) :
     \/ \E f \in Fee : attempts[t][f] = "insufficient_eth"
     \/ \A f \in Fee : attempts[t][f] # "none" =>
          /\ attempts[t][f] = "broadcast"
          /\ before[t][f] # NoBlock
          /\ before[t][f] <= Len(head) - BumpThreshold}

FindRebroadcasts ==
  /\ step = "resend"
  /\ todo = {}
  /\ step' = "bump"
  /\ todo' = RequiringRebroadcast
  /\ UNCHANGED <<state, nonce, attempts, before, receipts, resumed, head, asked, fetched, chainVars, pool>>

Sending(t, f) == [attempts EXCEPT ![t][f] = "in_progress"]

\* One round of rebroadcastWhereNecessary, in the order of the nonces:
\* attemptForRebroadcast, SaveInProgressAttempt and handleInProgressAttempt.
\* Without any attempt it is an error.
Rebroadcast(t) ==
  /\ step = "bump"
  /\ t \in todo
  /\ \A u \in todo : t <= u
  /\ Attempted(t)
  /\ \A f \in Fee : attempts[t][f] # "in_progress"
  /\ LET last == Highest(t)
         short == attempts[t][last] = "insufficient_eth"
     IN  \* The balance was too low: at the same price.
         \/ short /\ Handled(t, last, Sending(t, last), before)
         \* The price cannot be raised (IsBumpErr), because it is at the limit or
         \* nothing gets mined, say: the same attempt, as if it was new.
         \/ ~short /\ Handled(t, last, Sending(t, last), [before EXCEPT ![t][last] = NoBlock])
         \* At a higher price.
         \/ ~short /\ last < MaxFee /\ Handled(t, last + 1, Sending(t, last + 1), before)
  /\ UNCHANGED <<nonce, resumed, head, asked, fetched, chainVars>>

-----------------------------------------------------------------------------
InHead(r) == r.num <= Len(head) /\ head[r.num] = r.fork

Receipts(t) == {r \in receipts : r.tx = t}

\* Mutant: the head's own block is left out.
BelowHead(r) == r.num < Len(head)

\* FindTransactionsConfirmedInBlockRange looks at the receipt.
UpToHead(r) == r.num <= Len(head)

\* The transactions without a receipt in the longest chain.
Reorged ==
  {t \in In({"confirmed", "confirmed_missing_receipt"}) :
     /\ \E r \in Receipts(t) : UpToHead(r) /\ attempts[t][r.fee] = "broadcast"
     /\ ~ \E r \in Receipts(t) : InHead(r)}

\* UpdateTxForRebroadcast refuses t.
Refused(t) ==
  \/ state[t] # "confirmed"
  \/ attempts[t][Highest(t)] # "broadcast"

\* Mutant: the receipts of all that are to be marked are deleted at once.
ReceiptsOfAllDeleted(t) == {r \in receipts : r.tx \notin todo}

\* deleteEthReceipts.
ReceiptsDeleted(t) == {r \in receipts : r.tx # t}

\* Mutant: every attempt is put back.
AllUnbroadcast(t) ==
  [f \in Fee |-> IF attempts[t][f] = "broadcast" THEN "in_progress" ELSE attempts[t][f]]

\* updateEthTxAttemptUnbroadcast, for the highest priced attempt.
Unbroadcast(t) == [attempts[t] EXCEPT ![Highest(t)] = "in_progress"]

\* EnsureConfirmedTransactionsInLongestChain finds what it is to mark.
FindReorged ==
  /\ step = "ensure"
  /\ step' = "reorged"
  /\ todo' = Reorged
  /\ UNCHANGED <<state, nonce, attempts, before, receipts, resumed, head, asked, fetched, chainVars, pool>>

\* markForRebroadcast of one, in the order of the nonces.  The first that is
\* refused ends processHead.
MarkForRebroadcast(t) ==
  /\ step = "reorged"
  /\ t \in todo
  /\ \A u \in todo : t <= u
  /\ IF Refused(t)
     THEN /\ step' = "idle"
          /\ todo' = {}
          /\ UNCHANGED <<state, attempts, before, receipts>>
     ELSE /\ receipts' = ReceiptsDeleted(t)
          /\ state' = [state EXCEPT ![t] = "unconfirmed"]
          /\ attempts' = [attempts EXCEPT ![t] = Unbroadcast(t)]
          /\ before' = [before EXCEPT ![t][Highest(t)] = NoBlock]
          /\ todo' = todo \ {t}
          /\ UNCHANGED step
  /\ UNCHANGED <<nonce, resumed, head, asked, fetched, chainVars, pool>>

\* All are marked: the attempts that were put back are handled.
FindMarked ==
  /\ step = "reorged"
  /\ todo = {}
  /\ step' = "again"
  /\ todo' = LeftInProgress
  /\ UNCHANGED <<state, nonce, attempts, before, receipts, resumed, head, asked, fetched, chainVars, pool>>

\* A loop is at its end.
LoopEnds ==
  /\ todo = {}
  /\ \/ step = "bump" /\ step' = "ensure"
     \/ step = "again" /\ step' = "resume"
  /\ UNCHANGED <<state, nonce, attempts, before, receipts, resumed, head, todo, asked, fetched,
                 chainVars, pool>>

\* FindTxesPendingCallback.
PendingCallback ==
  {t \in Tx \ resumed : \E r \in Receipts(t) : r.num <= Len(head) - MinConfirmations}

\* ResumePendingTaskRuns: the job that waits for t goes on with a receipt.
ResumeTaskRun(t) ==
  /\ step = "resume"
  /\ t \in PendingCallback
  /\ resumed' = resumed \cup {t}
  /\ UNCHANGED <<state, nonce, attempts, before, receipts, chainVars, pool>>
  /\ UNCHANGED headVars

HeadIsDone ==
  /\ step = "resume"
  /\ PendingCallback = {}
  /\ step' = "idle"
  /\ UNCHANGED <<state, nonce, attempts, before, receipts, resumed, head, todo, asked, fetched,
                 chainVars, pool>>

-----------------------------------------------------------------------------
ConfirmerNext ==
  \/ Mine \/ Reorg
  \/ NewHead \/ Abort
  \/ CheckConfirmedMissingReceipt \/ FindAttempts \/ FetchReceipts \/ SaveFetchedReceipts
  \/ MarkAllConfirmedMissingReceipt \/ MarkOldTxesMissingReceiptAsErrored
  \/ FindRebroadcasts \/ FindReorged \/ FindMarked \/ LoopEnds \/ HeadIsDone
  \/ \E t \in Tx :
       \/ Broadcast(t) \/ Resend(t)
       \/ HandleInProgress(t) \/ Rebroadcast(t) \/ MarkForRebroadcast(t) \/ ResumeTaskRun(t)

ConfirmerSpec == ConfirmerInit /\ [][ConfirmerNext]_confirmerVars

-----------------------------------------------------------------------------
(***************************************************************************)
(* Properties.                                                             *)
(***************************************************************************)
\* The types; a transaction has at most one attempt in progress, in every
\* state and over any crash.
ConfirmerTypeOK ==
  /\ StoreTypeOK
  /\ \A t \in Tx : Cardinality({f \in Fee : attempts[t][f] = "in_progress"}) <= 1
  /\ before \in [Tx -> [Fee -> 0 .. MaxHeight]]
  /\ \A r \in receipts \cup fetched : r.tx \in Tx /\ r.fee \in Fee /\ r.num \in 1 .. MaxHeight
  /\ resumed \subseteq Tx
  /\ todo \subseteq Tx
  /\ asked \subseteq [tx : Tx, fee : Fee]
  /\ pool \in [Tx -> Fee \cup {0}]

\* Once a head is processed up to its callbacks, every confirmed transaction
\* has a receipt in the chain of that head, or in a block that came after it:
\* no re-organisation leaves a transaction confirmed that was dropped.
SettledInChain ==
  step = "resume" =>
    \A t \in In({"confirmed"}) : \E r \in Receipts(t) : InHead(r) \/ r.num > Len(head)

\* What the Ethereum node holds or has mined is in the table, with its price.
SentIsTracked ==
  /\ \A t \in Tx : pool[t] # 0 => attempts[t][pool[t]] # "none"
  /\ \A i \in DOMAIN chain : chain[i].tx # 0 => attempts[chain[i].tx][chain[i].fee] # "none"

\* A confirmed transaction has a receipt: whatever step fails, receipts are
\* written and deleted together with the state.
ConfirmedHasReceipt == \A t \in In({"confirmed"}) : Receipts(t) # {}

\* A transaction is given up, and its nonce freed, only if its nonce was used on
\* some chain of the Ethereum node: by itself, or by what took its place.  That
\* block may have been dropped since, when a re-organisation falls between the
\* query for the nonce and the step that gives up.
GivenUpOnEvidence ==
  [][\A t \in Tx :
       state[t] # "fatal_error" /\ state'[t] = "fatal_error" =>
         t <= used]_confirmerVars

\* Receipts are deleted when a transaction is marked unconfirmed.
UnconfirmedHasNoReceipt == \A t \in In({"unconfirmed"}) : Receipts(t) = {}
=============================================================================
