--------------------------- MODULE ConfirmerProofs ---------------------------
(***************************************************************************)
(* Theorems about Confirmer, for any numbers of transactions, prices,      *)
(* blocks and re-organisations, and any depths.                            *)
(***************************************************************************)
EXTENDS Confirmer, DataLemmas

USE TxStoreAssumption, ConfirmerAssumption

-----------------------------------------------------------------------------
(***************************************************************************)
(* The inductive invariant.                                                *)
(***************************************************************************)
Live == {"unconfirmed", "confirmed", "confirmed_missing_receipt"}

BlockRow == [fork : Nat, tx : Tx \cup {0}, fee : Fee \cup {0}]

ReceiptRow == [tx : Tx, fee : Fee, num : 1 .. MaxHeight, fork : Nat]

ConfirmerTypes ==
  /\ StoreTypeOK
  /\ before \in [Tx -> [Fee -> 0 .. MaxHeight]]
  /\ receipts \subseteq ReceiptRow
  /\ fetched \subseteq ReceiptRow
  /\ resumed \subseteq Tx
  /\ todo \subseteq Tx
  /\ asked \subseteq [tx : Tx, fee : Fee]
  /\ pool \in [Tx -> Fee \cup {0}]
  /\ head \in Seq(Nat)
  /\ Len(head) <= MaxHeight
  /\ chain \in Seq(BlockRow)
  /\ Len(chain) <= MaxHeight
  /\ forks \in Nat
  /\ used \in Nat

\* The transactions mined up to a block.
MinedBy(i) == Cardinality({j \in 1 .. i : chain[j].tx # 0})

ChainInOrder ==
  /\ Mined <= used
  /\ \A i \in DOMAIN chain : chain[i].tx # 0 =>
       chain[i].fee \in Fee /\ chain[i].tx = MinedBy(i)

RowsInOrder ==
  /\ \A t \in Tx : \A f, g \in Fee :
       attempts[t][f] = "in_progress" /\ attempts[t][g] # "none" => g <= f
  /\ \A t \in In({"new"}) : \A f \in Fee : attempts[t][f] = "none"
  /\ \A t \in In(Live) : nonce[t] = t - 1
  /\ \A t \in In({"confirmed_missing_receipt"}) : t <= used

ReceiptsInOrder == \A r \in receipts : r.tx <= used

LoopsInOrder ==
  /\ todo \subseteq In(Live)
  /\ step = "bump" => todo \subseteq In({"unconfirmed"})
  /\ step \notin {"receipts", "save"} => asked = {}
  /\ step # "save" => fetched = {}
  /\ \A r \in asked \cup fetched :
       state[r.tx] \in Live /\ attempts[r.tx][r.fee] \in {"in_progress", "broadcast"}
  /\ \A r \in fetched : r.tx <= used

\* What a receipt confirms was sent, as far as the table knows.
ConfirmedByBroadcast ==
  \A t \in In({"confirmed"}) : \E r \in Receipts(t) : attempts[t][r.fee] = "broadcast"

\* The confirmed transactions that a crash left with an attempt in progress.
Unfinished == {t \in In({"confirmed"}) : \E f \in Fee : attempts[t][f] = "in_progress"}

\* They are handled before processHead looks for re-organisations.
UnfinishedInOrder ==
  /\ step = "resend" => Unfinished \subseteq todo
  /\ step \in {"bump", "ensure", "reorged", "again", "resume"} => Unfinished = {}

\* A receipt in the chain of the head, or in a later block.
InChain(t) == \E r \in Receipts(t) : InHead(r) \/ r.num > Len(head)

\* The confirmed transactions are settled in the chain of the head, but for
\* those that are still to be marked.
Settled ==
  /\ step = "reorged" => \A t \in In({"confirmed"}) \ todo : InChain(t)
  /\ step \in {"again", "resume"} => \A t \in In({"confirmed"}) : InChain(t)

ConfirmerInv ==
  /\ ConfirmerTypes
  /\ ChainInOrder
  /\ RowsInOrder
  /\ ReceiptsInOrder
  /\ LoopsInOrder
  /\ SentIsTracked
  /\ ConfirmedByBroadcast
  /\ UnfinishedInOrder
  /\ Settled

-----------------------------------------------------------------------------
(***************************************************************************)
(* Facts about the operators.                                              *)
(***************************************************************************)
\* A transaction with an attempt has a highest priced one.
LEMMA HighestIsThere ==
  ASSUME NEW t \in Tx, Attempted(t)
  PROVE  /\ Highest(t) \in Fee
         /\ attempts[t][Highest(t)] # "none"
         /\ \A g \in Fee : attempts[t][g] # "none" => g <= Highest(t)
<1> DEFINE priced == {f \in Fee : attempts[t][f] # "none"}
<1>1. priced \in SUBSET (1 .. MaxFee) /\ priced # {}
  BY DEF Attempted, Fee
<1>2. Max(priced) \in priced /\ \A g \in priced : Max(priced) >= g
  <2> HIDE DEF priced
  <2> QED BY <1>1, MaxOfIndices
<1>3. \A g \in priced : g <= Max(priced)
  BY <1>1, <1>2
<1> QED BY <1>2, <1>3 DEF Highest

\* What is mined up to a block is among all that is mined.
LEMMA MinedIsCounted ==
  ASSUME chain \in Seq(BlockRow)
  PROVE  /\ Mined \in Nat
         /\ \A i \in DOMAIN chain : MinedBy(i) \in Nat /\ MinedBy(i) <= Mined
<1> DEFINE all == {i \in DOMAIN chain : chain[i].tx # 0}
<1>1. IsFiniteSet(DOMAIN chain)
  <2>1. DOMAIN chain = 1 .. Len(chain) /\ Len(chain) \in Int
    OBVIOUS
  <2> QED BY <2>1, FS_Interval
<1>2. IsFiniteSet(all)
  BY <1>1, FS_Subset
<1>3. Mined \in Nat
  BY <1>2, FS_CardinalityType DEF Mined
<1>4. ASSUME NEW i \in DOMAIN chain
      PROVE  MinedBy(i) \in Nat /\ MinedBy(i) <= Mined
  <2> DEFINE some == {j \in 1 .. i : chain[j].tx # 0}
  <2>1. some \in SUBSET all
    OBVIOUS
  <2>2. IsFiniteSet(some) /\ Cardinality(some) <= Cardinality(all)
    <3> HIDE DEF some, all
    <3> QED BY <1>2, <2>1, FS_Subset
  <2> QED BY <2>2, FS_CardinalityType DEF Mined, MinedBy
<1> QED BY <1>3, <1>4

\* No attempt of a transaction that is not mined is in the chain.
LEMMA NotMined ==
  ASSUME ConfirmerTypes, ChainInOrder, NEW t \in Tx, t > Mined
  PROVE  \A i \in DOMAIN chain : chain[i].tx # t
<1> SUFFICES ASSUME NEW i \in DOMAIN chain, chain[i].tx = t
             PROVE  FALSE
  OBVIOUS
<1>1. t # 0
  BY DEF Tx
<1>2. t = MinedBy(i)
  BY <1>1 DEF ChainInOrder
<1> QED BY <1>2, MinedIsCounted DEF ConfirmerTypes, Tx

LEMMA ConfirmerInitially == ConfirmerInit => ConfirmerInv
<1> SUFFICES ASSUME ConfirmerInit PROVE ConfirmerInv
  OBVIOUS
<1>1. ConfirmerTypes
  BY DEF ConfirmerInit, StoreInit, ConfirmerTypes, StoreTypeOK, TxState, AttemptState,
         NoAttempts, NoBlock
<1>2. ChainInOrder
  <2>1. Mined = 0
    BY FS_EmptySet DEF ConfirmerInit, Mined
  <2> QED BY <2>1 DEF ConfirmerInit, ChainInOrder
<1>3. RowsInOrder /\ ReceiptsInOrder /\ LoopsInOrder
  BY DEF ConfirmerInit, StoreInit, RowsInOrder, ReceiptsInOrder, LoopsInOrder, NoAttempts,
         In, Live
<1>4. SentIsTracked /\ ConfirmedByBroadcast /\ UnfinishedInOrder /\ Settled
  BY DEF ConfirmerInit, StoreInit, SentIsTracked, ConfirmedByBroadcast, UnfinishedInOrder,
         Settled, In
<1> QED BY <1>1, <1>2, <1>3, <1>4 DEF ConfirmerInv

-----------------------------------------------------------------------------
(***************************************************************************)
(* The chain.                                                              *)
(***************************************************************************)
\* Steps of the chain leave the table alone.
LEMMA TableUntouched ==
  ASSUME ConfirmerInv, used' \in Nat, used <= used',
         UNCHANGED <<state, nonce, attempts, receipts>>, UNCHANGED headVars
  PROVE  /\ RowsInOrder' /\ ReceiptsInOrder' /\ LoopsInOrder'
         /\ ConfirmedByBroadcast' /\ UnfinishedInOrder' /\ Settled'
<1>0. used \in Nat /\ receipts \subseteq ReceiptRow /\ fetched \subseteq ReceiptRow
  BY DEF ConfirmerInv, ConfirmerTypes
<1>1. \A n \in Nat : n <= used => n <= used'
  BY <1>0
<1>2. RowsInOrder'
  <2>1. Tx \subseteq Nat
    BY DEF Tx
  <2>2. \A t \in In({"confirmed_missing_receipt"})' : t <= used'
    BY <1>1, <2>1 DEF ConfirmerInv, RowsInOrder, In
  <2> QED BY <2>2 DEF ConfirmerInv, RowsInOrder, In
<1>3. ReceiptsInOrder'
  BY <1>0, <1>1 DEF ConfirmerInv, ReceiptsInOrder, ReceiptRow, Tx
<1>4. LoopsInOrder'
  BY <1>0, <1>1 DEF ConfirmerInv, LoopsInOrder, In, ReceiptRow, Tx, headVars
<1>5. ConfirmedByBroadcast' /\ UnfinishedInOrder'
  BY DEF ConfirmerInv, ConfirmedByBroadcast, UnfinishedInOrder, Unfinished, In, Receipts,
         headVars
<1>6. Settled'
  BY DEF ConfirmerInv, Settled, InChain, In, Receipts, InHead, headVars
<1> QED BY <1>2, <1>3, <1>4, <1>5, <1>6

\* A block is put on the chain.
LEMMA BlockIsMined ==
  ASSUME ConfirmerTypes, ChainInOrder, NEW t \in Tx \cup {0}, NEW f \in Fee \cup {0},
         chain' = Append(chain, Block(t, f))
  PROVE  /\ Len(chain') = Len(chain) + 1
         /\ \A i \in DOMAIN chain : chain'[i] = chain[i] /\ MinedBy(i)' = MinedBy(i)
         /\ chain'[Len(chain) + 1] = Block(t, f)
         /\ \A i \in Nat : i = Len(chain) + 1 => MinedBy(i)' = Mined'
         /\ Mined' = IF t = 0 THEN Mined ELSE Mined + 1
         /\ chain' \in Seq(BlockRow)
<1> DEFINE n == Len(chain)
           all == {i \in 1 .. n : chain[i].tx # 0}
           now == {i \in 1 .. n + 1 : chain'[i].tx # 0}
<1>1. /\ chain \in Seq(BlockRow)
      /\ Block(t, f) \in BlockRow
      /\ n \in Nat /\ DOMAIN chain = 1 .. n
  <2>1. Block(t, f) \in BlockRow
    BY DEF ConfirmerTypes, Block, BlockRow
  <2> QED BY <2>1 DEF ConfirmerTypes
<1>2. /\ Len(chain') = n + 1
      /\ \A i \in 1 .. n : chain'[i] = chain[i]
      /\ chain'[n + 1] = Block(t, f)
      /\ chain' \in Seq(BlockRow)
      /\ DOMAIN chain' = 1 .. n + 1
  BY <1>1
<1>3. ASSUME NEW i \in 1 .. n
      PROVE  MinedBy(i)' = MinedBy(i)
  <2>1. {j \in 1 .. i : chain[j].tx # 0} = {j \in 1 .. i : chain'[j].tx # 0}
    BY <1>2
  <2> QED BY <2>1 DEF MinedBy
<1>4. ASSUME NEW i \in Nat, i = n + 1
      PROVE  MinedBy(i)' = Mined'
  <2>1. {j \in 1 .. i : chain'[j].tx # 0} = {j \in DOMAIN chain' : chain'[j].tx # 0}
    BY <1>2, <1>4
  <2> QED BY <2>1 DEF MinedBy, Mined
<1>5. IsFiniteSet(all)
  <2>1. IsFiniteSet(1 .. n)
    BY <1>1, FS_Interval
  <2> QED BY <2>1, FS_Subset
<1>6. Mined = Cardinality(all) /\ Mined' = Cardinality(now) /\ Mined \in Nat
  BY <1>1, <1>2, <1>5, FS_CardinalityType DEF Mined
<1>7. CASE t = 0
  <2>1. now = all
    BY <1>1, <1>2, <1>7 DEF Block
  <2> QED BY <1>1, <1>2, <1>3, <1>4, <1>6, <1>7, <2>1
<1>8. CASE t # 0
  <2>1. now = all \cup {n + 1} /\ n + 1 \notin all
    BY <1>1, <1>2, <1>8 DEF Block
  <2>2. Cardinality(all \cup {n + 1}) = Cardinality(all) + 1
    <3> HIDE DEF all
    <3> QED BY <1>5, <2>1, FS_AddElement
  <2> QED BY <1>1, <1>2, <1>3, <1>4, <1>6, <1>8, <2>1, <2>2
<1> QED BY <1>7, <1>8

LEMMA MineKeeps == ASSUME ConfirmerInv, Mine PROVE ConfirmerInv'
<1>1. PICK t \in Tx \cup {0}, f \in Fee \cup {0} :
        /\ chain' = Append(chain, Block(t, f))
        /\ \/ t = 0 /\ f = 0 /\ UNCHANGED <<pool, used>>
           \/ /\ t # 0 /\ f # 0 /\ f = pool[t]
              /\ t = Mined + 1
              /\ pool' = [pool EXCEPT ![t] = 0]
              /\ used' = IF t > used THEN t ELSE used
        /\ Len(chain) < MaxHeight
  <2>0. Len(chain) < MaxHeight
    BY DEF Mine
  <2>1. CASE chain' = Append(chain, Block(0, 0)) /\ UNCHANGED <<pool, used>>
    BY <2>0, <2>1
  <2>2. CASE \E t \in Tx : /\ t = Mined + 1
                           /\ pool[t] # 0
                           /\ chain' = Append(chain, Block(t, pool[t]))
                           /\ pool' = [pool EXCEPT ![t] = 0]
                           /\ used' = IF t > used THEN t ELSE used
    <3>1. PICK t \in Tx : /\ t = Mined + 1
                          /\ pool[t] # 0
                          /\ chain' = Append(chain, Block(t, pool[t]))
                          /\ pool' = [pool EXCEPT ![t] = 0]
                          /\ used' = IF t > used THEN t ELSE used
      BY <2>2
    <3>2. pool[t] \in Fee \cup {0}
      BY DEF ConfirmerInv, ConfirmerTypes
    <3>3. t # 0
      BY DEF Tx
    <3> DEFINE price == pool[t]
    <3>4. /\ t \in Tx \cup {0} /\ price \in Fee \cup {0}
          /\ chain' = Append(chain, Block(t, price))
          /\ t # 0 /\ price # 0 /\ price = pool[t]
          /\ t = Mined + 1
          /\ pool' = [pool EXCEPT ![t] = 0]
          /\ used' = IF t > used THEN t ELSE used
      BY <3>1, <3>2, <3>3
    <3> HIDE DEF price
    <3> QED BY <2>0, <3>4
  <2> QED BY <2>1, <2>2 DEF Mine
<1>2. /\ UNCHANGED <<state, nonce, attempts, before, receipts, resumed, forks>>
      /\ UNCHANGED headVars
  BY DEF Mine
<1>3. /\ ConfirmerTypes /\ ChainInOrder /\ SentIsTracked /\ used \in Nat
      /\ pool \in [Tx -> Fee \cup {0}]
      /\ chain \in Seq(BlockRow)
  BY DEF ConfirmerInv, ConfirmerTypes
<1>4. /\ Len(chain') = Len(chain) + 1
      /\ \A i \in DOMAIN chain : chain'[i] = chain[i] /\ MinedBy(i)' = MinedBy(i)
      /\ chain'[Len(chain) + 1] = Block(t, f)
      /\ \A i \in Nat : i = Len(chain) + 1 => MinedBy(i)' = Mined'
      /\ Mined' = IF t = 0 THEN Mined ELSE Mined + 1
      /\ chain' \in Seq(BlockRow)
  BY <1>1, <1>3, BlockIsMined
<1>5. DOMAIN chain' = DOMAIN chain \cup {Len(chain) + 1}
  BY <1>1, <1>3
<1>6. Mined \in Nat /\ Mined <= used
  BY <1>3, MinedIsCounted DEF ChainInOrder
<1>7. used' \in Nat /\ used <= used' /\ Mined' <= used'
  BY <1>1, <1>3, <1>4, <1>6 DEF Tx
<1>8. pool' \in [Tx -> Fee \cup {0}] /\ \A u \in Tx : pool'[u] \in {0, pool[u]}
  BY <1>1, <1>3 DEF Fee
<1>9. ConfirmerTypes'
  <2>1. Len(chain') <= MaxHeight
    BY <1>1, <1>3, <1>4
  <2> QED BY <1>2, <1>3, <1>4, <1>7, <1>8, <2>1 DEF ConfirmerTypes, StoreTypeOK, headVars
<1>10. ChainInOrder'
  <2>1. ASSUME NEW i \in DOMAIN chain', chain'[i].tx # 0
        PROVE  chain'[i].fee \in Fee /\ chain'[i].tx = MinedBy(i)'
    <3>1. CASE i \in DOMAIN chain
      BY <1>3, <1>4, <2>1, <3>1 DEF ChainInOrder
    <3>2. CASE i = Len(chain) + 1
      <4>1. i \in Nat /\ chain'[i] = Block(t, f) /\ MinedBy(i)' = Mined'
        BY <1>3, <1>4, <3>2
      <4>2. t # 0 /\ f # 0 /\ t = Mined + 1
        BY <1>1, <2>1, <4>1 DEF Block
      <4> QED BY <1>4, <4>1, <4>2 DEF Block
    <3> QED BY <1>5, <2>1, <3>1, <3>2
  <2> QED BY <1>7, <2>1 DEF ChainInOrder
<1>11. SentIsTracked'
  <2>1. ASSUME NEW i \in DOMAIN chain', chain'[i].tx # 0
        PROVE  attempts[chain'[i].tx][chain'[i].fee] # "none"
    <3>1. CASE i \in DOMAIN chain
      BY <1>3, <1>4, <2>1, <3>1 DEF SentIsTracked
    <3>2. CASE i = Len(chain) + 1
      BY <1>1, <1>3, <1>4, <2>1, <3>2 DEF Block, SentIsTracked
    <3> QED BY <1>5, <2>1, <3>1, <3>2
  <2>2. ASSUME NEW u \in Tx, pool'[u] # 0
        PROVE  attempts[u][pool'[u]] # "none"
    BY <1>3, <1>8, <2>2 DEF SentIsTracked
  <2> QED BY <1>2, <2>1, <2>2 DEF SentIsTracked
<1> QED BY <1>2, <1>7, <1>9, <1>10, <1>11, TableUntouched DEF ConfirmerInv

LEMMA ReorgKeeps == ASSUME ConfirmerInv, Reorg PROVE ConfirmerInv'
<1>1. PICK keep \in DOMAIN chain \cup {0} :
        /\ chain' = SubSeq(chain, 1, keep)
        /\ \E back \in SUBSET {chain[i].tx : i \in (keep + 1) .. Len(chain)} :
             pool' = [t \in Tx |->
               IF t \in back
               THEN (CHOOSE b \in {chain[i] : i \in DOMAIN chain} : b.tx = t).fee
               ELSE pool[t]]
  BY DEF Reorg
<1>2. PICK back \in SUBSET {chain[i].tx : i \in (keep + 1) .. Len(chain)} :
        pool' = [t \in Tx |->
          IF t \in back
          THEN (CHOOSE b \in {chain[i] : i \in DOMAIN chain} : b.tx = t).fee
          ELSE pool[t]]
  BY <1>1
<1>3. /\ UNCHANGED <<state, nonce, attempts, before, receipts, resumed, used>>
      /\ UNCHANGED headVars
      /\ forks' = forks + 1
  BY DEF Reorg
<1>4. /\ ConfirmerTypes /\ ChainInOrder /\ SentIsTracked /\ used \in Nat
      /\ pool \in [Tx -> Fee \cup {0}]
      /\ chain \in Seq(BlockRow)
      /\ Len(chain) \in Nat /\ Len(chain) <= MaxHeight
      /\ DOMAIN chain = 1 .. Len(chain) /\ keep \in Nat /\ keep <= Len(chain)
  BY DEF ConfirmerInv, ConfirmerTypes
<1>5. /\ chain' \in Seq(BlockRow)
      /\ Len(chain') = keep
      /\ DOMAIN chain' = 1 .. keep
      /\ \A i \in 1 .. keep : chain'[i] = chain[i]
  <2>1. 1 \in Int /\ keep \in Int /\ \A i \in 1 .. keep : chain[i] \in BlockRow
    BY <1>4
  <2>2. /\ SubSeq(chain, 1, keep) \in Seq(BlockRow)
        /\ Len(SubSeq(chain, 1, keep)) = IF 1 <= keep THEN keep - 1 + 1 ELSE 0
        /\ \A i \in 1 .. keep - 1 + 1 : SubSeq(chain, 1, keep)[i] = chain[1 + i - 1]
    BY <2>1, SubSeqProperties
  <2>3. Len(chain') = keep /\ chain' \in Seq(BlockRow)
    BY <1>1, <1>4, <2>2
  <2>4. ASSUME NEW i \in 1 .. keep
        PROVE  chain'[i] = chain[i]
    <3>1. i \in 1 .. keep - 1 + 1 /\ 1 + i - 1 = i
      BY <1>4
    <3> QED BY <1>1, <2>2, <3>1
  <2> QED BY <1>4, <2>3, <2>4
<1>6. ASSUME NEW i \in 1 .. keep
      PROVE  MinedBy(i)' = MinedBy(i)
  <2>1. {j \in 1 .. i : chain[j].tx # 0} = {j \in 1 .. i : chain'[j].tx # 0}
    BY <1>4, <1>5
  <2> QED BY <2>1 DEF MinedBy
<1>7. Mined' \in Nat /\ Mined' <= Mined
  <2> DEFINE all == {i \in DOMAIN chain : chain[i].tx # 0}
             kept == {i \in DOMAIN chain' : chain'[i].tx # 0}
  <2>1. kept \in SUBSET all
    BY <1>4, <1>5
  <2>2. IsFiniteSet(all)
    <3>1. IsFiniteSet(1 .. Len(chain))
      BY <1>4, FS_Interval
    <3> QED BY <1>4, <3>1, FS_Subset
  <2>3. IsFiniteSet(kept) /\ Cardinality(kept) <= Cardinality(all)
    <3> HIDE DEF kept, all
    <3> QED BY <2>1, <2>2, FS_Subset
  <2> QED BY <2>3, FS_CardinalityType DEF Mined
<1>8. ASSUME NEW t \in Tx
      PROVE  /\ pool'[t] \in Fee \cup {0}
             /\ pool'[t] # 0 => attempts[t][pool'[t]] # "none"
  <2>1. CASE t \in back
    <3> DEFINE b == CHOOSE c \in {chain[i] : i \in DOMAIN chain} : c.tx = t
    <3>1. \E c \in {chain[i] : i \in DOMAIN chain} : c.tx = t
      <4>1. PICK i \in (keep + 1) .. Len(chain) : t = chain[i].tx
        BY <2>1
      <4>2. i \in DOMAIN chain
        BY <1>4
      <4> QED BY <4>1, <4>2
    <3>2. b \in {chain[i] : i \in DOMAIN chain} /\ b.tx = t
      BY <3>1
    <3>3. pool'[t] = b.fee
      BY <1>2, <2>1
    <3> HIDE DEF b
    <3>4. PICK i \in DOMAIN chain : b = chain[i]
      BY <3>2
    <3>5. chain[i].tx # 0
      BY <3>2, <3>4 DEF Tx
    <3> QED BY <1>4, <3>2, <3>3, <3>4, <3>5 DEF ChainInOrder, SentIsTracked
  <2>2. CASE t \notin back
    BY <1>2, <1>4, <2>2 DEF SentIsTracked
  <2> QED BY <2>1, <2>2
<1>9. pool' \in [Tx -> Fee \cup {0}]
  BY <1>2, <1>8
<1>10. ConfirmerTypes'
  <2>1. Len(chain') <= MaxHeight /\ forks' \in Nat
    BY <1>3, <1>4, <1>5 DEF ConfirmerTypes
  <2> QED BY <1>3, <1>4, <1>5, <1>9, <2>1 DEF ConfirmerTypes, StoreTypeOK, headVars
<1>11. ChainInOrder'
  <2>1. Mined' <= used'
    BY <1>3, <1>4, <1>7, MinedIsCounted DEF ChainInOrder
  <2>2. \A i \in 1 .. keep : chain'[i].tx # 0 =>
          chain'[i].fee \in Fee /\ chain'[i].tx = MinedBy(i)'
    BY <1>4, <1>5, <1>6 DEF ChainInOrder
  <2> QED BY <1>5, <2>1, <2>2 DEF ChainInOrder
<1>12. SentIsTracked'
  BY <1>3, <1>4, <1>5, <1>8 DEF SentIsTracked
<1> QED BY <1>3, <1>4, <1>10, <1>11, <1>12, TableUntouched DEF ConfirmerInv

-----------------------------------------------------------------------------
(***************************************************************************)
(* Broadcaster, resender, and the steps of processHead that leave the      *)
(* receipts alone.                                                         *)
(***************************************************************************)
LEMMA ChainUntouched ==
  ASSUME ChainInOrder, UNCHANGED chainVars
  PROVE  ChainInOrder'
BY DEF ChainInOrder, Mined, MinedBy, chainVars

\* An attempt that is sent is in the pool, or what was there before.
LEMMA TakenIsSent ==
  ASSUME pool \in [Tx -> Fee \cup {0}], NEW t \in Tx, NEW f \in Fee
  PROVE  /\ Taken(t, f) \in [Tx -> Fee \cup {0}]
         /\ \A u \in Tx : Taken(t, f)[u] = pool[u] \/ (u = t /\ Taken(t, f)[u] = f)
BY DEF Taken

\* No attempt is deleted, and only attempts of the table are sent.
LEMMA TrackingKept ==
  ASSUME ConfirmerInv, UNCHANGED chain,
         \A t \in Tx : \A f \in Fee : attempts[t][f] # "none" => attempts'[t][f] # "none",
         \A t \in Tx : pool'[t] \in {0, pool[t]} \/ attempts'[t][pool'[t]] # "none"
  PROVE  SentIsTracked'
<1>1. /\ SentIsTracked /\ ChainInOrder
      /\ pool \in [Tx -> Fee \cup {0}]
      /\ chain \in Seq(BlockRow)
  BY DEF ConfirmerInv, ConfirmerTypes
<1>2. ASSUME NEW t \in Tx, pool'[t] # 0
      PROVE  attempts'[t][pool'[t]] # "none"
  BY <1>1, <1>2 DEF SentIsTracked
<1>3. ASSUME NEW i \in DOMAIN chain', chain'[i].tx # 0
      PROVE  attempts'[chain'[i].tx][chain'[i].fee] # "none"
  <2>1. chain[i].fee \in Fee /\ chain[i] \in BlockRow
    BY <1>1, <1>3 DEF ChainInOrder
  <2>2. chain[i].tx \in Tx
    BY <1>3, <2>1 DEF BlockRow
  <2> QED BY <1>1, <1>3, <2>1, <2>2 DEF SentIsTracked
<1> QED BY <1>2, <1>3 DEF SentIsTracked

LEMMA BroadcastKeeps ==
  ASSUME ConfirmerInv, NEW t \in Tx, Broadcast(t)
  PROVE  ConfirmerInv'
<1>1. /\ state[t] = "new"
      /\ state' = [state EXCEPT ![t] = "unconfirmed"]
      /\ nonce' = [nonce EXCEPT ![t] = t - 1]
      /\ attempts' = [attempts EXCEPT ![t][1] = "broadcast"]
      /\ pool' \in {pool, Taken(t, 1)}
      /\ UNCHANGED <<before, receipts, resumed, chainVars>>
      /\ UNCHANGED headVars
  BY DEF Broadcast
<1>2. /\ ConfirmerTypes /\ StoreTypeOK /\ RowsInOrder /\ ReceiptsInOrder /\ LoopsInOrder
      /\ SentIsTracked /\ ConfirmedByBroadcast /\ UnfinishedInOrder /\ Settled
      /\ ChainInOrder
  BY DEF ConfirmerInv, ConfirmerTypes
<1>3. 1 \in Fee /\ t - 1 \in Nat
  BY DEF Fee, Tx
<1>4. /\ attempts \in [Tx -> [Fee -> AttemptState]]
      /\ state \in [Tx -> TxState]
      /\ nonce \in [Tx -> Nat \cup {NoNonce}]
      /\ pool \in [Tx -> Fee \cup {0}]
  BY <1>2 DEF StoreTypeOK, ConfirmerTypes
<1>5. /\ \A f \in Fee : attempts[t][f] = "none"
      /\ \A f \in Fee : attempts'[t][f] = IF f = 1 THEN "broadcast" ELSE "none"
      /\ \A u \in Tx : u # t => attempts'[u] = attempts[u] /\ state'[u] = state[u]
                                /\ nonce'[u] = nonce[u]
      /\ state'[t] = "unconfirmed" /\ nonce'[t] = t - 1
  BY <1>1, <1>2, <1>3, <1>4 DEF RowsInOrder, In
<1>6. /\ pool' \in [Tx -> Fee \cup {0}]
      /\ \A u \in Tx : pool'[u] = pool[u] \/ (u = t /\ pool'[u] = 1)
  BY <1>1, <1>3, <1>4, TakenIsSent
<1>7. StoreTypeOK'
  BY <1>1, <1>3, <1>4 DEF StoreTypeOK, TxState, AttemptState
<1>8. ConfirmerTypes'
  BY <1>1, <1>2, <1>6, <1>7 DEF ConfirmerTypes, headVars, chainVars
<1>9. RowsInOrder'
  <2>1. \A u \in Tx : \A f, g \in Fee :
          attempts'[u][f] = "in_progress" /\ attempts'[u][g] # "none" => g <= f
    BY <1>2, <1>5 DEF RowsInOrder
  <2>2. \A u \in Tx : state'[u] = "new" => \A f \in Fee : attempts'[u][f] = "none"
    BY <1>2, <1>5 DEF RowsInOrder, In
  <2>3. \A u \in Tx : state'[u] \in Live => nonce'[u] = u - 1
    BY <1>2, <1>5 DEF RowsInOrder, In
  <2>4. \A u \in Tx : state'[u] = "confirmed_missing_receipt" => u <= used'
    BY <1>1, <1>2, <1>5 DEF RowsInOrder, In, chainVars
  <2> QED BY <2>1, <2>2, <2>3, <2>4 DEF RowsInOrder, In
<1>10. ReceiptsInOrder'
  BY <1>1, <1>2 DEF ReceiptsInOrder, chainVars
<1>11. LoopsInOrder'
  <2>1. /\ todo \subseteq Tx /\ t \notin todo
        /\ \A r \in asked \cup fetched : r.tx \in Tx /\ r.tx # t
    BY <1>1, <1>2 DEF ConfirmerTypes, LoopsInOrder, In, Live, ReceiptRow
  <2> QED BY <1>1, <1>2, <1>5, <2>1 DEF LoopsInOrder, In, headVars, chainVars
<1>12. \A u \in Tx : state'[u] = "confirmed" =>
         u # t /\ state[u] = "confirmed" /\ attempts'[u] = attempts[u]
  BY <1>5
<1>13. ConfirmedByBroadcast' /\ UnfinishedInOrder' /\ Settled'
  <2>1. ConfirmedByBroadcast'
    BY <1>1, <1>2, <1>12 DEF ConfirmedByBroadcast, Receipts, In
  <2>2. UnfinishedInOrder'
    BY <1>1, <1>2, <1>12 DEF UnfinishedInOrder, Unfinished, In, headVars
  <2>3. Settled'
    BY <1>1, <1>2, <1>12 DEF Settled, InChain, Receipts, InHead, In, headVars
  <2> QED BY <2>1, <2>2, <2>3
<1>14. SentIsTracked'
  <2>1. \A u \in Tx : \A f \in Fee : attempts[u][f] # "none" => attempts'[u][f] # "none"
    BY <1>5
  <2>2. \A u \in Tx : pool'[u] \in {0, pool[u]} \/ attempts'[u][pool'[u]] # "none"
    BY <1>3, <1>5, <1>6
  <2> QED BY <1>1, <2>1, <2>2, TrackingKept DEF chainVars
<1> QED BY <1>1, <1>2, <1>8, <1>9, <1>10, <1>11, <1>13, <1>14, ChainUntouched DEF ConfirmerInv

\* Steps that change none of the rows: attempts of the table are sent, and a
\* loop starts, goes on or ends.
LEMMA RowsUntouched ==
  ASSUME ConfirmerInv, UNCHANGED <<state, nonce, attempts, receipts, chainVars>>,
         before' \in [Tx -> [Fee -> 0 .. MaxHeight]], resumed' \subseteq Tx,
         head' \in Seq(Nat), Len(head') <= MaxHeight,
         pool' \in [Tx -> Fee \cup {0}],
         \A t \in Tx : pool'[t] \in {0, pool[t]} \/ attempts[t][pool'[t]] # "none",
         fetched' \subseteq ReceiptRow, asked' \subseteq [tx : Tx, fee : Fee],
         LoopsInOrder', UnfinishedInOrder', Settled'
  PROVE  ConfirmerInv'
<1>1. /\ ConfirmerTypes /\ RowsInOrder /\ ReceiptsInOrder
      /\ ConfirmedByBroadcast /\ ChainInOrder
  BY DEF ConfirmerInv
<1>2. todo' \subseteq Tx
  BY DEF LoopsInOrder, In
<1>3. ConfirmerTypes'
  BY <1>1, <1>2 DEF ConfirmerTypes, StoreTypeOK, chainVars
<1>4. RowsInOrder' /\ ReceiptsInOrder'
  BY <1>1 DEF RowsInOrder, ReceiptsInOrder, In, chainVars
<1>5. ConfirmedByBroadcast'
  BY <1>1 DEF ConfirmedByBroadcast, In, Receipts
<1>6. SentIsTracked'
  BY TrackingKept DEF chainVars
<1> QED BY <1>1, <1>3, <1>4, <1>5, <1>6, ChainUntouched DEF ConfirmerInv

LEMMA ResendKeeps ==
  ASSUME ConfirmerInv, NEW t \in Tx, Resend(t)
  PROVE  ConfirmerInv'
<1>1. PICK f \in Fee : attempts[t][f] # "none" /\ pool' = Taken(t, f)
  BY DEF Resend
<1>2. /\ UNCHANGED <<state, nonce, attempts, before, receipts, resumed, chainVars>>
      /\ UNCHANGED headVars
  BY DEF Resend
<1>3. /\ ConfirmerTypes /\ LoopsInOrder /\ UnfinishedInOrder /\ Settled /\ pool \in [Tx -> Fee \cup {0}]
  BY DEF ConfirmerInv, ConfirmerTypes
<1>4. /\ pool' \in [Tx -> Fee \cup {0}]
      /\ \A u \in Tx : pool'[u] \in {0, pool[u]} \/ attempts[u][pool'[u]] # "none"
  BY <1>1, <1>3, TakenIsSent
<1>5. LoopsInOrder' /\ UnfinishedInOrder'
  BY <1>2, <1>3 DEF LoopsInOrder, UnfinishedInOrder, Unfinished, In, headVars, chainVars
<1>6. Settled'
  BY <1>2, <1>3 DEF Settled, InChain, In, Receipts, InHead, headVars
<1> QED BY <1>2, <1>3, <1>4, <1>5, <1>6, RowsUntouched DEF ConfirmerTypes, headVars

\* The steps between the loops.
LEMMA HeadStepKeeps ==
  ASSUME ConfirmerInv,
         \/ Abort \/ NewHead \/ FindRebroadcasts \/ FindMarked \/ LoopEnds \/ HeadIsDone
         \/ \E t \in Tx : ResumeTaskRun(t)
  PROVE  ConfirmerInv'
<1>1. /\ ConfirmerTypes /\ LoopsInOrder /\ UnfinishedInOrder /\ Settled
      /\ pool \in [Tx -> Fee \cup {0}] /\ chain \in Seq(BlockRow)
  BY DEF ConfirmerInv, ConfirmerTypes
<1>2. /\ UNCHANGED <<state, nonce, attempts, receipts, chainVars, pool>>
      /\ fetched' \in {fetched, {}} /\ asked' \in {asked, {}}
  BY DEF Abort, NewHead, FindRebroadcasts, FindMarked, LoopEnds, HeadIsDone, ResumeTaskRun,
         headVars
<1>3. before' \in [Tx -> [Fee -> 0 .. MaxHeight]]
  <2>1. before \in [Tx -> [Fee -> 0 .. MaxHeight]] /\ Len(chain) \in 0 .. MaxHeight
    BY <1>1 DEF ConfirmerTypes
  <2>2. CASE NewHead
    BY <2>1, <2>2 DEF NewHead
  <2>3. CASE ~ NewHead
    BY <2>1, <2>3 DEF Abort, FindRebroadcasts, FindMarked, LoopEnds, HeadIsDone, ResumeTaskRun
  <2> QED BY <2>2, <2>3
<1>4. head' \in Seq(Nat) /\ Len(head') <= MaxHeight
  <2>1. CASE NewHead
    <3>1. \A i \in DOMAIN chain : chain[i].fork \in Nat
      <4>1. \A i \in DOMAIN chain : chain[i] \in BlockRow
        BY <1>1
      <4> QED BY <4>1 DEF BlockRow
    <3>2. /\ DOMAIN chain = 1 .. Len(chain) /\ Len(chain) \in Nat
          /\ Len(chain) <= MaxHeight
      BY <1>1 DEF ConfirmerTypes
    <3>3. head' \in [1 .. Len(chain) -> Nat]
      BY <2>1, <3>1, <3>2 DEF NewHead
    <3> QED BY <3>2, <3>3, FunctionIsSequence
  <2>2. CASE ~ NewHead
    BY <1>1, <2>2
       DEF ConfirmerTypes, Abort, FindRebroadcasts, FindMarked, LoopEnds, HeadIsDone,
           ResumeTaskRun, headVars
  <2> QED BY <2>1, <2>2
<1>5. LoopsInOrder'
  <2>1. CASE FindRebroadcasts
    BY <1>1, <2>1
       DEF FindRebroadcasts, RequiringRebroadcast, LoopsInOrder, In, Live, chainVars
  <2>2. CASE FindMarked
    BY <1>1, <2>2 DEF FindMarked, LeftInProgress, LoopsInOrder, In, Live, chainVars
  <2>3. CASE ~ FindRebroadcasts /\ ~ FindMarked
    BY <1>1, <2>3
       DEF LoopsInOrder, In, Abort, NewHead, LoopEnds, HeadIsDone, ResumeTaskRun, headVars,
           chainVars
  <2> QED BY <2>1, <2>2, <2>3
<1>6. UnfinishedInOrder'
  <2>1. Unfinished' = Unfinished
    BY <1>2 DEF Unfinished, In
  <2>2. CASE FindRebroadcasts
    BY <1>1, <2>1, <2>2 DEF FindRebroadcasts, UnfinishedInOrder
  <2>3. CASE ~ FindRebroadcasts
    BY <1>1, <2>1, <2>3
       DEF UnfinishedInOrder, Abort, NewHead, FindMarked, LoopEnds, HeadIsDone, ResumeTaskRun,
           headVars
  <2> QED BY <2>2, <2>3
<1>7. Settled'
  <2>1. CASE step' \in {"reorged", "again", "resume"}
    <3>1. /\ head' = head
          /\ \/ step' = "reorged" /\ step = "reorged" /\ todo' = todo
             \/ step' # "reorged" /\ step = "reorged" /\ todo = {}
             \/ step' # "reorged" /\ step \in {"again", "resume"}
      BY <2>1 DEF Abort, NewHead, FindRebroadcasts, FindMarked, LoopEnds, HeadIsDone,
                  ResumeTaskRun, headVars
    <3>2. /\ \A t \in Tx : InChain(t) => InChain(t)'
          /\ In({"confirmed"})' = In({"confirmed"})
      BY <1>2, <3>1 DEF InChain, In, Receipts, InHead
    <3>3. In({"confirmed"}) \subseteq Tx
      BY DEF In
    <3> QED BY <1>1, <3>1, <3>2, <3>3 DEF Settled
  <2>2. CASE step' \notin {"reorged", "again", "resume"}
    BY <2>2 DEF Settled
  <2> QED BY <2>1, <2>2
<1>8. resumed' \subseteq Tx
  BY <1>1
     DEF ConfirmerTypes, Abort, NewHead, FindRebroadcasts, FindMarked, LoopEnds, HeadIsDone,
         ResumeTaskRun
<1>9. fetched' \subseteq ReceiptRow /\ asked' \subseteq [tx : Tx, fee : Fee]
  BY <1>1, <1>2 DEF ConfirmerTypes
<1> QED BY <1>1, <1>2, <1>3, <1>4, <1>5, <1>6, <1>7, <1>8, <1>9, RowsUntouched

LEMMA FindAttemptsKeeps == ASSUME ConfirmerInv, FindAttempts PROVE ConfirmerInv'
<1>1. /\ ConfirmerTypes /\ LoopsInOrder /\ pool \in [Tx -> Fee \cup {0}]
  BY DEF ConfirmerInv, ConfirmerTypes
<1>2. /\ UNCHANGED <<state, nonce, attempts, before, receipts, resumed, head, fetched,
                     chainVars, pool>>
      /\ step = "fetch"
      /\ asked' \subseteq RequiringReceipt
      /\ \/ step' = "resend" /\ todo' = LeftInProgress /\ RequiringReceipt = {}
         \/ step' \in {"mark", "receipts"} /\ todo' = todo /\ (step' = "mark" => asked' = {})
  BY DEF FindAttempts
<1>3. asked' \subseteq [tx : Tx, fee : Fee]
  BY <1>2 DEF RequiringReceipt
<1>4. LoopsInOrder'
  <2>1. todo' \subseteq In(Live)'
    BY <1>1, <1>2 DEF LoopsInOrder, LeftInProgress, In, Live
  <2>2. step' \notin {"receipts", "save"} => asked' = {}
    BY <1>2
  <2>3. \A r \in asked' :
          state'[r.tx] \in Live /\ attempts'[r.tx][r.fee] \in {"in_progress", "broadcast"}
    BY <1>2 DEF RequiringReceipt, Live
  <2>4. fetched' = {} /\ step' \notin {"save", "bump"}
    BY <1>1, <1>2 DEF LoopsInOrder
  <2> QED BY <2>1, <2>2, <2>3, <2>4 DEF LoopsInOrder
<1>5. UnfinishedInOrder' /\ Settled'
  BY <1>2 DEF UnfinishedInOrder, Settled, Unfinished, LeftInProgress, In
<1> QED BY <1>1, <1>2, <1>3, <1>4, <1>5, RowsUntouched DEF ConfirmerTypes

LEMMA FetchKeeps == ASSUME ConfirmerInv, FetchReceipts PROVE ConfirmerInv'
<1>1. /\ ConfirmerTypes /\ LoopsInOrder /\ ChainInOrder
      /\ pool \in [Tx -> Fee \cup {0}] /\ chain \in Seq(BlockRow)
      /\ asked \subseteq [tx : Tx, fee : Fee]
  BY DEF ConfirmerInv, ConfirmerTypes
<1>2. /\ UNCHANGED <<state, nonce, attempts, before, receipts, resumed, head, todo,
                     chainVars, pool>>
      /\ step = "receipts" /\ step' = "save"
      /\ asked' \subseteq asked
  BY DEF FetchReceipts
<1>3. ASSUME NEW r \in fetched'
      PROVE  /\ r \in ReceiptRow
             /\ r.tx <= used
             /\ state[r.tx] \in Live
             /\ attempts[r.tx][r.fee] \in {"in_progress", "broadcast"}
  <2>1. PICK i \in DOMAIN chain :
          /\ r = Receipt(i)
          /\ [tx |-> chain[i].tx, fee |-> chain[i].fee] \in asked
    BY DEF FetchReceipts, Batch
  <2>2. chain[i] \in BlockRow /\ i \in 1 .. MaxHeight
    BY <1>1 DEF ConfirmerTypes
  <2>3. /\ chain[i].tx \in Tx /\ chain[i].fee \in Fee
        /\ state[chain[i].tx] \in Live
        /\ attempts[chain[i].tx][chain[i].fee] \in {"in_progress", "broadcast"}
    BY <1>1, <2>1 DEF LoopsInOrder
  <2>4. chain[i].fork \in Nat /\ chain[i].tx # 0
    BY <2>2, <2>3 DEF BlockRow, Tx
  <2>5. chain[i].tx = MinedBy(i)
    BY <1>1, <2>4 DEF ChainInOrder
  <2>6. chain[i].tx <= used
    BY <1>1, <2>5, MinedIsCounted DEF ChainInOrder, ConfirmerTypes
  <2>7. r = [tx |-> chain[i].tx, fee |-> chain[i].fee, num |-> i, fork |-> chain[i].fork]
    BY <2>1 DEF Receipt
  <2> QED BY <2>2, <2>3, <2>4, <2>6, <2>7 DEF ReceiptRow
<1>4. LoopsInOrder'
  <2>1. \A r \in asked' \cup fetched' :
          state[r.tx] \in Live /\ attempts[r.tx][r.fee] \in {"in_progress", "broadcast"}
    BY <1>1, <1>2, <1>3 DEF LoopsInOrder
  <2> QED BY <1>1, <1>2, <1>3, <2>1 DEF LoopsInOrder, In, chainVars
<1>5. UnfinishedInOrder' /\ Settled'
  BY <1>2 DEF UnfinishedInOrder, Settled
<1>6. fetched' \subseteq ReceiptRow /\ asked' \subseteq [tx : Tx, fee : Fee]
  BY <1>1, <1>2, <1>3
<1> QED BY <1>1, <1>2, <1>4, <1>5, <1>6, RowsUntouched DEF ConfirmerTypes

LEMMA FindReorgedKeeps == ASSUME ConfirmerInv, FindReorged PROVE ConfirmerInv'
<1>1. /\ ConfirmerTypes /\ LoopsInOrder /\ UnfinishedInOrder /\ ConfirmedByBroadcast
      /\ pool \in [Tx -> Fee \cup {0}] /\ receipts \subseteq ReceiptRow
      /\ Len(head) \in Int
  BY DEF ConfirmerInv, ConfirmerTypes
<1>2. /\ UNCHANGED <<state, nonce, attempts, before, receipts, resumed, head, asked, fetched,
                     chainVars, pool>>
      /\ step = "ensure" /\ step' = "reorged" /\ todo' = Reorged
  BY DEF FindReorged
<1>3. LoopsInOrder'
  BY <1>1, <1>2 DEF LoopsInOrder, Reorged, In, Live, chainVars
<1>4. UnfinishedInOrder'
  BY <1>1, <1>2 DEF UnfinishedInOrder, Unfinished, In
<1>5. Settled'
  <2>1. ASSUME NEW t \in Tx, state[t] = "confirmed", t \notin Reorged
        PROVE  InChain(t)
    <3>1. PICK s \in Receipts(t) : attempts[t][s.fee] = "broadcast"
      BY <1>1, <2>1 DEF ConfirmedByBroadcast, In
    <3>2. s.num \in Int
      BY <1>1 DEF Receipts, ReceiptRow
    <3>3. (\E r \in Receipts(t) : InHead(r)) \/ ~ UpToHead(s)
      BY <2>1, <3>1 DEF Reorged, In
    <3> QED BY <1>1, <3>1, <3>2, <3>3 DEF InChain, UpToHead
  <2>2. \A t \in Tx : InChain(t) => InChain(t)'
    BY <1>2 DEF InChain, Receipts, InHead
  <2> QED BY <1>2, <2>1, <2>2 DEF Settled, In
<1> QED BY <1>1, <1>2, <1>3, <1>4, <1>5, RowsUntouched DEF ConfirmerTypes

-----------------------------------------------------------------------------
(***************************************************************************)
(* The steps of processHead that change the rows.                          *)
(***************************************************************************)
LEMMA CheckKeeps ==
  ASSUME ConfirmerInv, CheckConfirmedMissingReceipt
  PROVE  ConfirmerInv'
<1>1. /\ ConfirmerTypes /\ StoreTypeOK /\ RowsInOrder /\ ReceiptsInOrder /\ LoopsInOrder
      /\ ConfirmedByBroadcast /\ ChainInOrder
      /\ pool \in [Tx -> Fee \cup {0}]
  BY DEF ConfirmerInv, ConfirmerTypes
<1>2. /\ UNCHANGED <<nonce, attempts, before, receipts, resumed, head, todo, asked, fetched,
                     chainVars>>
      /\ step = "missing" /\ step' = "fetch"
  BY DEF CheckConfirmedMissingReceipt
<1> DEFINE M == {t \in In({"confirmed_missing_receipt"}) : Attempted(t)}
<1>3. PICK answered \in SUBSET M :
        /\ pool' = [t \in Tx |-> IF t \in answered THEN Taken(t, Highest(t))[t] ELSE pool[t]]
        /\ state' = [t \in Tx |-> IF t \in M /\ (t \in answered => t > Mined)
                                  THEN "unconfirmed" ELSE state[t]]
  BY DEF CheckConfirmedMissingReceipt
<1>4. ASSUME NEW t \in Tx
      PROVE  /\ state'[t] \in TxState
             /\ \/ state'[t] = state[t]
                \/ state[t] = "confirmed_missing_receipt" /\ state'[t] = "unconfirmed"
  BY <1>1, <1>3 DEF In, StoreTypeOK, TxState
<1>5. ASSUME NEW t \in Tx
      PROVE  /\ pool'[t] \in Fee \cup {0}
             /\ pool'[t] = pool[t] \/ attempts[t][pool'[t]] # "none"
  <2>1. CASE t \in answered
    <3>1. Attempted(t)
      BY <1>3, <2>1
    <3>2. Highest(t) \in Fee /\ attempts[t][Highest(t)] # "none"
      BY <3>1, HighestIsThere
    <3>3. pool'[t] = Taken(t, Highest(t))[t]
      BY <1>3, <2>1
    <3> QED BY <1>1, <3>2, <3>3, TakenIsSent
  <2>2. CASE t \notin answered
    BY <1>1, <1>3, <2>2
  <2> QED BY <2>1, <2>2
<1>6. ConfirmerTypes'
  <2>1. state' \in [Tx -> TxState] /\ pool' \in [Tx -> Fee \cup {0}]
    BY <1>3, <1>4, <1>5
  <2> QED BY <1>1, <1>2, <2>1 DEF ConfirmerTypes, StoreTypeOK, chainVars
<1>7. RowsInOrder'
  BY <1>1, <1>2, <1>4 DEF RowsInOrder, In, Live, chainVars
<1>8. ReceiptsInOrder'
  BY <1>1, <1>2 DEF ReceiptsInOrder, chainVars
<1>9. LoopsInOrder'
  <2>1. asked = {} /\ fetched = {} /\ todo' \subseteq In(Live)'
    BY <1>1, <1>2, <1>4 DEF LoopsInOrder, In, Live
  <2> QED BY <1>2, <2>1 DEF LoopsInOrder
<1>10. ConfirmedByBroadcast' /\ UnfinishedInOrder' /\ Settled'
  BY <1>1, <1>2, <1>4 DEF ConfirmedByBroadcast, UnfinishedInOrder, Settled, In, Receipts
<1>11. SentIsTracked'
  BY <1>2, <1>5, TrackingKept DEF chainVars
<1> QED BY <1>1, <1>2, <1>6, <1>7, <1>8, <1>9, <1>10, <1>11, ChainUntouched DEF ConfirmerInv

LEMMA SaveKeeps == ASSUME ConfirmerInv, SaveFetchedReceipts PROVE ConfirmerInv'
<1>1. /\ ConfirmerTypes /\ StoreTypeOK /\ RowsInOrder /\ ReceiptsInOrder /\ LoopsInOrder
      /\ ConfirmedByBroadcast /\ ChainInOrder
      /\ pool \in [Tx -> Fee \cup {0}]
      /\ attempts \in [Tx -> [Fee -> AttemptState]]
      /\ before \in [Tx -> [Fee -> 0 .. MaxHeight]]
  BY DEF ConfirmerInv, ConfirmerTypes, StoreTypeOK
<1>2. /\ UNCHANGED <<nonce, resumed, head, todo, asked, chainVars, pool>>
      /\ step = "save"
      /\ \/ step' = "mark" /\ asked = {}
         \/ step' = "receipts"
      /\ receipts' = receipts \cup fetched
      /\ fetched' = {}
      /\ state' = [t \in Tx |-> IF \E r \in fetched : r.tx = t THEN "confirmed" ELSE state[t]]
  BY DEF SaveFetchedReceipts
<1>3. ASSUME NEW r \in fetched
      PROVE  /\ r \in ReceiptRow /\ r.tx \in Tx /\ r.fee \in Fee /\ r.num \in 0 .. MaxHeight
             /\ r.tx <= used
             /\ state[r.tx] \in Live
             /\ state'[r.tx] = "confirmed"
             /\ attempts[r.tx][r.fee] \in {"in_progress", "broadcast"}
             /\ attempts'[r.tx][r.fee] = "broadcast"
  <2>1. r \in ReceiptRow /\ r.tx \in Tx /\ r.fee \in Fee /\ r.num \in 0 .. MaxHeight
    BY <1>1 DEF ConfirmerTypes, ReceiptRow
  <2>2. attempts'[r.tx][r.fee] = "broadcast"
    BY <2>1 DEF SaveFetchedReceipts, AttemptsSent
  <2> QED BY <1>1, <1>2, <2>1, <2>2 DEF LoopsInOrder
<1>4. ASSUME NEW t \in Tx, NEW f \in Fee
      PROVE  \/ attempts'[t][f] = attempts[t][f]
             \/ attempts'[t][f] = "broadcast" /\ attempts[t][f] # "none"
  <2>1. attempts'[t][f] = IF \E r \in fetched : r.tx = t /\ r.fee = f
                          THEN "broadcast" ELSE attempts[t][f]
    BY DEF SaveFetchedReceipts, AttemptsSent
  <2> QED BY <1>3, <2>1
<1>5. ASSUME NEW t \in Tx
      PROVE  \/ state'[t] = state[t] /\ ~ \E r \in fetched : r.tx = t
             \/ /\ state[t] \in Live
                /\ state'[t] = "confirmed"
                /\ \E r \in fetched : r.tx = t
  BY <1>2, <1>3
<1>6. ConfirmerTypes'
  <2>1. StoreTypeOK'
    <3>1. state' \in [Tx -> TxState]
      BY <1>1, <1>2 DEF StoreTypeOK, TxState
    <3>2. attempts' \in [Tx -> [Fee -> AttemptState]]
      <4>1. attempts' = [t \in Tx |-> [f \in Fee |->
              IF \E r \in fetched : r.tx = t /\ r.fee = f THEN "broadcast" ELSE attempts[t][f]]]
        BY DEF SaveFetchedReceipts, AttemptsSent
      <4> QED BY <1>1, <4>1 DEF AttemptState
    <3> QED BY <1>1, <1>2, <3>1, <3>2 DEF StoreTypeOK
  <2>2. before' \in [Tx -> [Fee -> 0 .. MaxHeight]]
    <3> DEFINE found(t, f) == CHOOSE r \in fetched : r.tx = t /\ r.fee = f
    <3>1. \A t \in Tx, f \in Fee :
            (\E r \in fetched : r.tx = t /\ r.fee = f) => found(t, f) \in fetched
      OBVIOUS
    <3>2. before' = [t \in Tx |-> [f \in Fee |->
            IF before[t][f] = NoBlock /\ \E r \in fetched : r.tx = t /\ r.fee = f
            THEN found(t, f).num ELSE before[t][f]]]
      BY DEF SaveFetchedReceipts
    <3> HIDE DEF found
    <3>3. \A t \in Tx, f \in Fee :
            (\E r \in fetched : r.tx = t /\ r.fee = f) => found(t, f).num \in 0 .. MaxHeight
      BY <1>3, <3>1
    <3> QED BY <1>1, <3>2, <3>3
  <2>3. receipts' \subseteq ReceiptRow /\ fetched' \subseteq ReceiptRow
    BY <1>1, <1>2 DEF ConfirmerTypes
  <2> QED BY <1>1, <1>2, <2>1, <2>2, <2>3 DEF ConfirmerTypes, chainVars
<1>7. RowsInOrder'
  <2>1. \A u \in Tx : \A f, g \in Fee :
          attempts'[u][f] = "in_progress" /\ attempts'[u][g] # "none" => g <= f
    BY <1>1, <1>4 DEF RowsInOrder
  <2>2. \A u \in Tx : state'[u] = "new" => \A f \in Fee : attempts'[u][f] = "none"
    BY <1>1, <1>4, <1>5 DEF RowsInOrder, In
  <2>3. \A u \in Tx : state'[u] \in Live => nonce'[u] = u - 1
    BY <1>1, <1>2, <1>5 DEF RowsInOrder, In, Live
  <2>4. \A u \in Tx : state'[u] = "confirmed_missing_receipt" => u <= used'
    BY <1>1, <1>2, <1>5 DEF RowsInOrder, In, chainVars
  <2> QED BY <2>1, <2>2, <2>3, <2>4 DEF RowsInOrder, In
<1>8. ReceiptsInOrder'
  BY <1>1, <1>2, <1>3 DEF ReceiptsInOrder, chainVars
<1>9. LoopsInOrder'
  <2>1. ASSUME NEW r \in asked
        PROVE  /\ state'[r.tx] \in Live
               /\ attempts'[r.tx][r.fee] \in {"in_progress", "broadcast"}
    <3>1. r.tx \in Tx /\ r.fee \in Fee
      BY <1>1 DEF ConfirmerTypes
    <3> QED BY <1>1, <1>4, <1>5, <3>1 DEF LoopsInOrder, Live
  <2>2. todo' \subseteq In(Live)'
    BY <1>1, <1>2, <1>5 DEF LoopsInOrder, In, Live
  <2>3. step' \notin {"receipts", "save"} => asked' = {}
    BY <1>2
  <2> QED BY <1>2, <2>1, <2>2, <2>3 DEF LoopsInOrder
<1>10. ConfirmedByBroadcast' /\ UnfinishedInOrder' /\ Settled'
  <2>1. ASSUME NEW t \in Tx, state'[t] = "confirmed"
        PROVE  \E r \in Receipts(t)' : attempts'[t][r.fee] = "broadcast"
    <3>1. CASE \E r \in fetched : r.tx = t
      BY <1>2, <1>3, <3>1 DEF Receipts
    <3>2. CASE ~ \E r \in fetched : r.tx = t
      <4>1. state[t] = "confirmed"
        BY <1>5, <2>1, <3>2
      <4>2. PICK r \in receipts : r.tx = t /\ attempts[t][r.fee] = "broadcast"
        BY <1>1, <4>1 DEF ConfirmedByBroadcast, Receipts, In
      <4>3. r.fee \in Fee
        BY <1>1 DEF ConfirmerTypes, ReceiptRow
      <4> QED BY <1>2, <1>4, <4>2, <4>3 DEF Receipts
    <3> QED BY <3>1, <3>2
  <2>2. ConfirmedByBroadcast'
    BY <2>1 DEF ConfirmedByBroadcast, In
  <2> QED BY <1>2, <2>2 DEF UnfinishedInOrder, Settled
<1>11. SentIsTracked'
  <2>1. \A t \in Tx : \A f \in Fee : attempts[t][f] # "none" => attempts'[t][f] # "none"
    BY <1>4
  <2> QED BY <1>2, <2>1, TrackingKept DEF chainVars
<1> QED BY <1>1, <1>2, <1>6, <1>7, <1>8, <1>9, <1>10, <1>11, ChainUntouched DEF ConfirmerInv

\* A transaction below a confirmed one has had its nonce used, by itself or by
\* what took its place: the confirmed one has a receipt.
LEMMA BelowConfirmedIsUsed ==
  ASSUME ConfirmerInv, NEW t \in Tx, NEW u \in In({"confirmed"}), state[t] = "unconfirmed",
         nonce[t] < nonce[u]
  PROVE  t <= used
<1>1. Tx \subseteq Nat /\ used \in Nat
  BY DEF ConfirmerInv, ConfirmerTypes, Tx
<1>2. nonce[t] = t - 1 /\ nonce[u] = u - 1 /\ u \in Tx
  BY DEF ConfirmerInv, RowsInOrder, In, Live
<1>3. PICK r \in receipts : r.tx = u
  BY DEF ConfirmerInv, ConfirmedByBroadcast, Receipts
<1>4. u <= used
  BY <1>3 DEF ConfirmerInv, ReceiptsInOrder
<1> QED BY <1>1, <1>2, <1>4

LEMMA MarkAllKeeps ==
  ASSUME ConfirmerInv, MarkAllConfirmedMissingReceipt
  PROVE  ConfirmerInv'
<1>1. /\ ConfirmerTypes /\ StoreTypeOK /\ RowsInOrder /\ ReceiptsInOrder /\ LoopsInOrder
      /\ ConfirmedByBroadcast /\ ChainInOrder
  BY DEF ConfirmerInv, ConfirmerTypes
<1>2. /\ UNCHANGED <<nonce, attempts, before, receipts, resumed, head, todo, asked, fetched,
                     chainVars, pool>>
      /\ step = "mark" /\ step' = "old"
      /\ state' = [t \in Tx |->
           IF state[t] = "unconfirmed" /\ \E u \in In({"confirmed"}) : nonce[t] < nonce[u]
           THEN "confirmed_missing_receipt" ELSE state[t]]
  BY DEF MarkAllConfirmedMissingReceipt
<1>3. ASSUME NEW t \in Tx
      PROVE  \/ state'[t] = state[t]
             \/ /\ state[t] = "unconfirmed" /\ state'[t] = "confirmed_missing_receipt"
                /\ t <= used
  BY <1>2, BelowConfirmedIsUsed
<1>4. ConfirmerTypes'
  <2>1. state' \in [Tx -> TxState]
    BY <1>1, <1>2 DEF StoreTypeOK, TxState
  <2> QED BY <1>1, <1>2, <2>1 DEF ConfirmerTypes, StoreTypeOK, chainVars
<1>5. RowsInOrder'
  BY <1>1, <1>2, <1>3 DEF RowsInOrder, In, Live, chainVars
<1>6. ReceiptsInOrder'
  BY <1>1, <1>2 DEF ReceiptsInOrder, chainVars
<1>7. LoopsInOrder'
  <2>1. asked = {} /\ fetched = {} /\ todo' \subseteq In(Live)'
    BY <1>1, <1>2, <1>3 DEF LoopsInOrder, In, Live
  <2> QED BY <1>2, <2>1 DEF LoopsInOrder
<1>8. ConfirmedByBroadcast' /\ UnfinishedInOrder' /\ Settled'
  BY <1>1, <1>2, <1>3 DEF ConfirmedByBroadcast, UnfinishedInOrder, Settled, In, Receipts
<1>9. SentIsTracked'
  BY <1>2, TrackingKept DEF chainVars
<1> QED BY <1>1, <1>2, <1>4, <1>5, <1>6, <1>7, <1>8, <1>9, ChainUntouched DEF ConfirmerInv

LEMMA MarkOldKeeps ==
  ASSUME ConfirmerInv, MarkOldTxesMissingReceiptAsErrored
  PROVE  ConfirmerInv'
<1> DEFINE old == Old(Len(head) - FinalityDepth)
<1>1. /\ ConfirmerTypes /\ StoreTypeOK /\ RowsInOrder /\ ReceiptsInOrder /\ LoopsInOrder
      /\ ConfirmedByBroadcast /\ ChainInOrder
  BY DEF ConfirmerInv, ConfirmerTypes
<1>2. /\ UNCHANGED <<attempts, before, receipts, resumed, head, asked, fetched, chainVars, pool>>
      /\ step = "old" /\ step' = "resend"
      /\ state' = [t \in Tx |-> IF t \in old THEN "fatal_error" ELSE state[t]]
      /\ nonce' = [t \in Tx |-> IF t \in old THEN NoNonce ELSE nonce[t]]
      /\ todo' = LeftInProgress \ old
  BY DEF MarkOldTxesMissingReceiptAsErrored
<1> HIDE DEF old
<1>3. ASSUME NEW t \in Tx
      PROVE  \/ state'[t] = "fatal_error" /\ t \in old
             \/ state'[t] = state[t] /\ t \notin old /\ nonce'[t] = nonce[t]
  BY <1>2
<1>4. ConfirmerTypes'
  <2>1. state' \in [Tx -> TxState]
    BY <1>1, <1>2 DEF StoreTypeOK, TxState
  <2>2. nonce' \in [Tx -> Nat \cup {NoNonce}]
    BY <1>1, <1>2 DEF StoreTypeOK
  <2> QED BY <1>1, <1>2, <2>1, <2>2
          DEF ConfirmerTypes, StoreTypeOK, LeftInProgress, In, chainVars
<1>5. RowsInOrder'
  BY <1>1, <1>2, <1>3 DEF RowsInOrder, In, Live, chainVars
<1>6. ReceiptsInOrder'
  BY <1>1, <1>2 DEF ReceiptsInOrder, chainVars
<1>7. LoopsInOrder'
  <2>1. asked = {} /\ fetched = {} /\ todo' \subseteq In(Live)'
    BY <1>1, <1>2, <1>3 DEF LoopsInOrder, LeftInProgress, In, Live
  <2> QED BY <1>2, <2>1 DEF LoopsInOrder
<1>8. ConfirmedByBroadcast' /\ UnfinishedInOrder' /\ Settled'
  <2>1. ConfirmedByBroadcast' /\ Settled'
    BY <1>1, <1>2, <1>3 DEF ConfirmedByBroadcast, Settled, In, Receipts
  <2>2. Unfinished' \subseteq todo'
    BY <1>2, <1>3 DEF Unfinished, LeftInProgress, In
  <2> QED BY <1>2, <2>1, <2>2 DEF UnfinishedInOrder
<1>9. SentIsTracked'
  BY <1>2, TrackingKept DEF chainVars
<1> QED BY <1>1, <1>2, <1>4, <1>5, <1>6, <1>7, <1>8, <1>9, ChainUntouched DEF ConfirmerInv

-----------------------------------------------------------------------------
(***************************************************************************)
(* The loops.                                                              *)
(***************************************************************************)
\* The rows A of the attempts are those of the table, but that the attempt of
\* t at the price f is in progress, above all others.  It was so before if t is
\* confirmed.
Prepared(t, f, A) ==
  /\ A \in [Tx -> [Fee -> AttemptState]]
  /\ \A u \in Tx : u # t => A[u] = attempts[u]
  /\ \A g \in Fee : g # f => A[t][g] = attempts[t][g]
  /\ A[t][f] = "in_progress"
  /\ \A g \in Fee : g # f => A[t][g] # "in_progress"
  /\ \A g \in Fee : A[t][g] # "none" => g <= f
  /\ state[t] = "confirmed" => attempts[t][f] = "in_progress"

\* What an answer does to the attempt that is handled, and to the next.
LEMMA HandledRows ==
  ASSUME ConfirmerInv, NEW t \in Tx, NEW f \in Fee, NEW A, NEW B,
         Prepared(t, f, A), B \in [Tx -> [Fee -> 0 .. MaxHeight]], Handled(t, f, A, B)
  PROVE  /\ attempts' \in [Tx -> [Fee -> AttemptState]]
         /\ before' \in [Tx -> [Fee -> 0 .. MaxHeight]]
         /\ \A u \in Tx : u # t => attempts'[u] = attempts[u]
         /\ \A g \in Fee : attempts'[t][g] = attempts[t][g] \/ g >= f
         /\ \A g, h \in Fee : attempts'[t][g] = "in_progress" /\ attempts'[t][h] # "none" => h <= g
         /\ attempts'[t][f] # "none" \/ (t > Mined /\ pool[t] # f /\ UNCHANGED pool)
         /\ \A g \in Fee : g > f => attempts[t][g] = "none"
         /\ \A r \in receipts : r \in receipts' \/ (r.tx = t /\ r.fee = f)
         /\ receipts' \subseteq receipts
         /\ \/ \A g \in Fee : attempts'[t][g] # "in_progress"
            \/ todo' = todo
            \/ step' = "idle"
<1>1. /\ A \in [Tx -> [Fee -> AttemptState]]
      /\ \A u \in Tx : u # t => A[u] = attempts[u]
      /\ \A g \in Fee : g # f => A[t][g] = attempts[t][g]
      /\ A[t][f] = "in_progress"
      /\ \A g \in Fee : g # f => A[t][g] # "in_progress"
      /\ \A g \in Fee : A[t][g] # "none" => g <= f
      /\ f \in Nat /\ Fee \subseteq Nat
  BY DEF Prepared, Fee
<1>9. /\ \A r \in receipts : r \in receipts' \/ (r.tx = t /\ r.fee = f)
      /\ receipts' \subseteq receipts
  <2>1. receipts' \in {receipts, WithoutAttempt(t, f)}
    BY DEF Handled
  <2> QED BY <2>1 DEF WithoutAttempt
<1>10. \/ \A g \in Fee : attempts'[t][g] # "in_progress"
       \/ todo' = todo
       \/ step' = "idle"
  <2>1. \/ \E s \in {"broadcast", "insufficient_eth", "none"} : attempts' = [A EXCEPT ![t][f] = s]
        \/ todo' = todo
        \/ step' = "idle"
    BY DEF Handled
  <2>2. ASSUME NEW s \in {"broadcast", "insufficient_eth", "none"},
               attempts' = [A EXCEPT ![t][f] = s]
        PROVE  \A g \in Fee : attempts'[t][g] # "in_progress"
    <3>1. \A g \in Fee : attempts'[t][g] = IF g = f THEN s ELSE A[t][g]
      BY <1>1, <2>2
    <3> QED BY <1>1, <3>1
  <2> QED BY <2>1, <2>2
<1>2. NoBlock \in 0 .. MaxHeight
  BY DEF NoBlock
<1>3. before' \in [Tx -> [Fee -> 0 .. MaxHeight]]
  <2>1. before' \in {B, [B EXCEPT ![t][f] = NoBlock]}
    BY DEF Handled
  <2> QED BY <1>2, <2>1
<1>0. ASSUME NEW g \in Fee, g > f
      PROVE  attempts[t][g] = "none"
  <2>1. g # f /\ ~ (g <= f)
    BY <1>0, <1>1 DEF Fee
  <2> QED BY <1>1, <2>1
<1>4. ASSUME NEW s \in {"broadcast", "insufficient_eth", "in_progress", "none"},
             attempts' = [A EXCEPT ![t][f] = s],
             s # "none" \/ (t > Mined /\ pool[t] # f /\ UNCHANGED pool)
      PROVE  /\ attempts' \in [Tx -> [Fee -> AttemptState]]
             /\ \A u \in Tx : u # t => attempts'[u] = attempts[u]
             /\ \A g \in Fee : attempts'[t][g] = attempts[t][g] \/ g >= f
             /\ \A g, h \in Fee :
                  attempts'[t][g] = "in_progress" /\ attempts'[t][h] # "none" => h <= g
             /\ attempts'[t][f] # "none" \/ (t > Mined /\ pool[t] # f /\ UNCHANGED pool)
             /\ \A g \in Fee : g > f => attempts[t][g] = "none"
  <2>1. /\ \A u \in Tx : u # t => attempts'[u] = A[u]
        /\ \A g \in Fee : attempts'[t][g] = IF g = f THEN s ELSE A[t][g]
        /\ attempts' \in [Tx -> [Fee -> AttemptState]]
    BY <1>1, <1>4 DEF AttemptState
  <2>2. \A g, h \in Fee :
          attempts'[t][g] = "in_progress" /\ attempts'[t][h] # "none" => h <= g
    BY <1>1, <2>1
  <2> QED BY <1>0, <1>1, <1>4, <2>1, <2>2
<1>5. CASE \E s \in {"broadcast", "insufficient_eth"} : attempts' = [A EXCEPT ![t][f] = s]
  BY <1>3, <1>4, <1>5, <1>9, <1>10
<1>6. CASE /\ t > Mined /\ pool[t] # f
           /\ attempts' = [A EXCEPT ![t][f] = "none"]
           /\ UNCHANGED pool
  BY <1>3, <1>4, <1>6, <1>9, <1>10
<1>7. CASE /\ t > Mined /\ pool[t] # f /\ f < MaxFee
           /\ attempts' = [A EXCEPT ![t][f] = "none", ![t][f + 1] = "in_progress"]
           /\ UNCHANGED pool
  <2>1. f + 1 \in Fee
    BY <1>1, <1>7 DEF Fee
  <2>2. /\ \A u \in Tx : u # t => attempts'[u] = A[u]
        /\ \A g \in Fee : attempts'[t][g] = IF g = f THEN "none"
                                            ELSE IF g = f + 1 THEN "in_progress" ELSE A[t][g]
        /\ attempts' \in [Tx -> [Fee -> AttemptState]]
    BY <1>1, <1>7, <2>1 DEF AttemptState
  <2>3. ASSUME NEW g \in Fee, NEW h \in Fee,
               attempts'[t][g] = "in_progress", attempts'[t][h] # "none"
        PROVE  h <= g
    BY <1>1, <2>2, <2>3
  <2>4. ASSUME NEW g \in Fee
        PROVE  attempts'[t][g] = attempts[t][g] \/ g >= f
    <3>1. CASE g = f \/ g = f + 1
      BY <1>1, <3>1
    <3>2. CASE ~ (g = f \/ g = f + 1)
      BY <1>1, <2>2, <3>2
    <3> QED BY <3>1, <3>2
  <2> QED BY <1>0, <1>1, <1>3, <1>7, <1>9, <1>10, <2>2, <2>3, <2>4
<1>8. CASE attempts' = A
  <2>1. A = [A EXCEPT ![t][f] = "in_progress"]
    BY <1>1
  <2> QED BY <1>3, <1>4, <1>8, <1>9, <1>10, <2>1
<1>11. \/ \E s \in {"broadcast", "insufficient_eth"} : attempts' = [A EXCEPT ![t][f] = s]
       \/ /\ t > Mined /\ pool[t] # f
          /\ attempts' = [A EXCEPT ![t][f] = "none"]
          /\ UNCHANGED pool
       \/ /\ t > Mined /\ pool[t] # f /\ f < MaxFee
          /\ attempts' = [A EXCEPT ![t][f] = "none", ![t][f + 1] = "in_progress"]
          /\ UNCHANGED pool
       \/ attempts' = A
  BY DEF Handled, LeftBehind
<1> QED BY <1>5, <1>6, <1>7, <1>8, <1>9, <1>10, <1>11

LEMMA HandledKeeps ==
  ASSUME ConfirmerInv, NEW t \in Tx, NEW f \in Fee, NEW A, NEW B,
         step \in {"resend", "bump", "again"}, t \in todo,
         Prepared(t, f, A), B \in [Tx -> [Fee -> 0 .. MaxHeight]], Handled(t, f, A, B),
         UNCHANGED <<nonce, resumed, head, asked, fetched, chainVars>>
  PROVE  ConfirmerInv'
<1>1. /\ ConfirmerTypes /\ StoreTypeOK /\ RowsInOrder /\ ReceiptsInOrder /\ LoopsInOrder
      /\ ConfirmedByBroadcast /\ ChainInOrder /\ SentIsTracked
      /\ UnfinishedInOrder /\ Settled
      /\ pool \in [Tx -> Fee \cup {0}] /\ state \in [Tx -> TxState]
      /\ todo \subseteq Tx
  BY DEF ConfirmerInv, ConfirmerTypes, StoreTypeOK
<1>2. /\ attempts' \in [Tx -> [Fee -> AttemptState]]
      /\ before' \in [Tx -> [Fee -> 0 .. MaxHeight]]
      /\ \A u \in Tx : u # t => attempts'[u] = attempts[u]
      /\ \A g \in Fee : attempts'[t][g] = attempts[t][g] \/ g >= f
      /\ \A g, h \in Fee : attempts'[t][g] = "in_progress" /\ attempts'[t][h] # "none" => h <= g
      /\ attempts'[t][f] # "none" \/ (t > Mined /\ pool[t] # f /\ UNCHANGED pool)
      /\ \A g \in Fee : g > f => attempts[t][g] = "none"
      /\ \A r \in receipts : r \in receipts' \/ (r.tx = t /\ r.fee = f)
      /\ receipts' \subseteq receipts
      /\ \/ \A g \in Fee : attempts'[t][g] # "in_progress"
         \/ todo' = todo
         \/ step' = "idle"
  BY HandledRows
<1>3. f \in Nat /\ f <= MaxFee /\ Fee \subseteq Nat /\ Tx \subseteq Nat /\ t # 0
  BY DEF Fee, Tx
<1>4. state[t] = "confirmed" => attempts[t][f] = "in_progress"
  BY DEF Prepared
<1>5. state[t] \in Live /\ state[t] # "new"
  BY <1>1 DEF LoopsInOrder, In, Live
<1>6. /\ \/ UNCHANGED state
         \/ /\ state' = [state EXCEPT ![t] = "confirmed_missing_receipt"]
            /\ t <= Mined /\ todo' = todo \ {t}
      /\ step' \in {step, "idle"}
      /\ todo' \subseteq todo
      /\ step' = "idle" \/ todo' \in {todo, todo \ {t}}
      /\ pool' \in {pool, Taken(t, f)}
  BY DEF Handled
<1>7. ASSUME NEW u \in Tx
      PROVE  \/ state'[u] = state[u]
             \/ /\ u = t /\ state'[u] = "confirmed_missing_receipt"
                /\ u <= used /\ u \notin todo'
  <2>1. Mined \in Nat /\ used \in Nat /\ Mined <= used
    BY <1>1, MinedIsCounted DEF ConfirmerTypes, ChainInOrder
  <2> QED BY <1>1, <1>3, <1>6, <2>1
<1>8. /\ pool' \in [Tx -> Fee \cup {0}]
      /\ \A u \in Tx : pool'[u] = pool[u] \/ (u = t /\ pool'[u] = f)
  BY <1>1, <1>6, TakenIsSent
<1>9. ConfirmerTypes'
  <2>1. state' \in [Tx -> TxState]
    BY <1>1, <1>6 DEF TxState
  <2>2. todo' \subseteq Tx
    BY <1>1, <1>6
  <2>3. receipts' \subseteq ReceiptRow
    BY <1>1, <1>2 DEF ConfirmerTypes
  <2> QED BY <1>1, <1>2, <1>8, <2>1, <2>2, <2>3 DEF ConfirmerTypes, StoreTypeOK, chainVars
<1>10. RowsInOrder'
  <2>1. ASSUME NEW u \in Tx, NEW g \in Fee, NEW h \in Fee,
               attempts'[u][g] = "in_progress", attempts'[u][h] # "none"
        PROVE  h <= g
    <3>1. CASE u = t
      BY <1>2, <2>1, <3>1
    <3>2. CASE u # t
      <4>1. attempts[u][g] = "in_progress" /\ attempts[u][h] # "none"
        BY <1>2, <2>1, <3>2
      <4> QED BY <1>1, <4>1 DEF RowsInOrder
    <3> QED BY <3>1, <3>2
  <2>2. \A u \in Tx : state'[u] = "new" => \A g \in Fee : attempts'[u][g] = "none"
    <3>1. state'[t] # "new"
      BY <1>5, <1>7
    <3>2. ASSUME NEW u \in Tx, u # t, state'[u] = "new"
          PROVE  \A g \in Fee : attempts'[u][g] = "none"
      BY <1>1, <1>2, <1>7, <3>2 DEF RowsInOrder, In
    <3> QED BY <3>1, <3>2
  <2>3. \A u \in Tx : state'[u] \in Live => nonce'[u] = u - 1
    BY <1>1, <1>5, <1>7 DEF RowsInOrder, In, Live
  <2>4. \A u \in Tx : state'[u] = "confirmed_missing_receipt" => u <= used'
    BY <1>1, <1>7 DEF RowsInOrder, In, chainVars
  <2> QED BY <2>1, <2>2, <2>3, <2>4 DEF RowsInOrder, In
<1>11. ReceiptsInOrder'
  BY <1>1, <1>2 DEF ReceiptsInOrder, chainVars
<1>12. LoopsInOrder'
  <2>1. asked = {} /\ fetched = {}
    BY <1>1 DEF LoopsInOrder
  <2>2. todo' \subseteq In(Live)'
    BY <1>1, <1>6, <1>7 DEF LoopsInOrder, In
  <2>3. step' = "bump" => todo' \subseteq In({"unconfirmed"})'
    BY <1>1, <1>6, <1>7 DEF LoopsInOrder, In
  <2> QED BY <2>1, <2>2, <2>3 DEF LoopsInOrder
<1>13. ConfirmedByBroadcast' /\ UnfinishedInOrder' /\ Settled'
  <2>1. ASSUME NEW u \in Tx, state'[u] = "confirmed"
        PROVE  state[u] = "confirmed"
    BY <1>7, <2>1
  <2>2. ASSUME NEW u \in Tx, state'[u] = "confirmed"
        PROVE  \E r \in Receipts(u)' : attempts'[u][r.fee] = "broadcast"
    <3>1. PICK r \in receipts : r.tx = u /\ attempts[u][r.fee] = "broadcast"
      BY <1>1, <2>1, <2>2 DEF ConfirmedByBroadcast, Receipts, In
    <3>2. r.fee \in Fee
      BY <1>1 DEF ConfirmerTypes, ReceiptRow
    <3>3. CASE u = t
      <4>1. r.fee # f
        BY <1>4, <2>1, <2>2, <3>1, <3>3
      <4>2. ~ (r.fee > f)
        BY <1>2, <3>1, <3>2, <3>3
      <4>3. ~ (r.fee >= f)
        <5>1. r.fee \in Nat /\ f \in Nat
          BY <1>3, <3>2
        <5> QED BY <4>1, <4>2, <5>1
      <4> QED BY <1>2, <3>1, <3>2, <3>3, <4>1, <4>3 DEF Receipts
    <3>4. CASE u # t
      BY <1>2, <3>1, <3>4 DEF Receipts
    <3> QED BY <3>3, <3>4
  <2>3. ConfirmedByBroadcast'
    BY <2>2 DEF ConfirmedByBroadcast, In
  <2>4. step \in {"bump", "again"} => state[t] # "confirmed"
    BY <1>1, <1>4 DEF UnfinishedInOrder, Unfinished, LoopsInOrder, In
  <2>5. ASSUME NEW u \in Unfinished', step' # "idle"
        PROVE  step = "resend" /\ u \in todo'
    <3>1. u \in Tx /\ state'[u] = "confirmed" /\ \E g \in Fee : attempts'[u][g] = "in_progress"
      BY DEF Unfinished, In
    <3>2. state[u] = "confirmed"
      BY <2>1, <3>1
    <3>3. CASE u # t
      <4>1. u \in Unfinished
        BY <1>2, <3>1, <3>2, <3>3 DEF Unfinished, In
      <4> QED BY <1>1, <1>6, <2>5, <3>3, <4>1 DEF UnfinishedInOrder
    <3>4. CASE u = t
      BY <1>2, <2>4, <2>5, <3>1, <3>2, <3>4
    <3> QED BY <3>3, <3>4
  <2>6. UnfinishedInOrder'
    BY <1>6, <2>5 DEF UnfinishedInOrder
  <2>7. ASSUME step = "again", step' = "again", NEW u \in Tx, state'[u] = "confirmed"
        PROVE  InChain(u)'
    <3>1. u # t /\ InChain(u)
      BY <1>1, <2>1, <2>4, <2>7 DEF Settled, In
    <3> QED BY <1>2, <3>1 DEF InChain, Receipts, InHead
  <2>8. Settled'
    BY <1>6, <2>7 DEF Settled, In
  <2> QED BY <2>3, <2>6, <2>8
<1>14. SentIsTracked'
  <2>1. ASSUME NEW u \in Tx, pool'[u] # 0
        PROVE  attempts'[u][pool'[u]] # "none"
    <3>1. CASE u = t /\ pool'[u] = f
      <4>1. attempts'[t][f] # "none"
        BY <1>2, <3>1
      <4> QED BY <3>1, <4>1
    <3>2. CASE pool'[u] = pool[u] /\ ~ (u = t /\ pool'[u] = f)
      <4>1. pool[u] \in Fee /\ attempts[u][pool[u]] # "none"
        BY <1>1, <2>1, <3>2 DEF SentIsTracked
      <4>2. u = t => pool[u] < f
        BY <1>2, <1>3, <3>2, <4>1 DEF Fee
      <4>3. CASE u = t
        <5>1. ~ (pool[u] >= f)
          BY <1>3, <4>1, <4>2, <4>3 DEF Fee
        <5> QED BY <1>2, <3>2, <4>1, <4>3, <5>1
      <4>4. CASE u # t
        BY <1>2, <3>2, <4>1, <4>4
      <4> QED BY <4>3, <4>4
    <3> QED BY <1>8, <3>1, <3>2
  <2>2. ASSUME NEW i \in DOMAIN chain, chain[i].tx # 0
        PROVE  attempts'[chain[i].tx][chain[i].fee] # "none"
    <3>1. chain[i].fee \in Fee /\ chain[i] \in BlockRow
      BY <1>1, <2>2 DEF ChainInOrder, ConfirmerTypes
    <3>2. chain[i].tx \in Tx
      BY <2>2, <3>1 DEF BlockRow
    <3>3. attempts[chain[i].tx][chain[i].fee] # "none"
      BY <1>1, <2>2 DEF SentIsTracked
    <3>4. CASE chain[i].tx = t /\ chain[i].fee = f
      BY <1>1, <1>2, <3>4, NotMined
    <3>5. CASE chain[i].tx = t /\ chain[i].fee # f
      <4>1. ~ (chain[i].fee > f)
        BY <1>2, <3>1, <3>3, <3>5
      <4>2. chain[i].fee \in Nat /\ f \in Nat
        BY <1>3, <3>1
      <4>3. ~ (chain[i].fee >= f)
        BY <3>5, <4>1, <4>2
      <4> QED BY <1>2, <3>1, <3>3, <3>5, <4>3
    <3>6. CASE chain[i].tx # t
      BY <1>2, <3>2, <3>3, <3>6
    <3> QED BY <3>4, <3>5, <3>6
  <2> QED BY <2>1, <2>2 DEF SentIsTracked, chainVars
<1> QED BY <1>1, <1>9, <1>10, <1>11, <1>12, <1>13, <1>14, ChainUntouched DEF ConfirmerInv

LEMMA HandleKeeps ==
  ASSUME ConfirmerInv, NEW t \in Tx, HandleInProgress(t)
  PROVE  ConfirmerInv'
<1>1. PICK f \in Fee : attempts[t][f] = "in_progress" /\ Handled(t, f, attempts, before)
  BY DEF HandleInProgress
<1>2. /\ StoreTypeOK /\ RowsInOrder
      /\ before \in [Tx -> [Fee -> 0 .. MaxHeight]]
      /\ Fee \subseteq Nat
  BY DEF ConfirmerInv, ConfirmerTypes, Fee
<1>3. Prepared(t, f, attempts)
  <2>1. \A g \in Fee : attempts[t][g] # "none" => g <= f
    BY <1>1, <1>2 DEF RowsInOrder
  <2>2. \A g \in Fee : attempts[t][g] = "in_progress" => f <= g
    BY <1>1, <1>2 DEF RowsInOrder
  <2>3. \A g \in Fee : g # f => attempts[t][g] # "in_progress"
    BY <1>2, <2>1, <2>2
  <2> QED BY <1>1, <1>2, <2>1, <2>3 DEF Prepared, StoreTypeOK
<1>4. /\ step \in {"resend", "bump", "again"} /\ t \in todo
      /\ UNCHANGED <<nonce, resumed, head, asked, fetched, chainVars>>
  BY DEF HandleInProgress
<1> QED BY <1>1, <1>2, <1>3, <1>4, HandledKeeps

LEMMA RebroadcastKeeps ==
  ASSUME ConfirmerInv, NEW t \in Tx, Rebroadcast(t)
  PROVE  ConfirmerInv'
<1>1. /\ StoreTypeOK /\ RowsInOrder /\ LoopsInOrder
      /\ before \in [Tx -> [Fee -> 0 .. MaxHeight]]
      /\ Fee \subseteq Nat /\ attempts \in [Tx -> [Fee -> AttemptState]]
  BY DEF ConfirmerInv, ConfirmerTypes, StoreTypeOK, Fee
<1>2. /\ step = "bump" /\ t \in todo /\ Attempted(t)
      /\ \A f \in Fee : attempts[t][f] # "in_progress"
      /\ UNCHANGED <<nonce, resumed, head, asked, fetched, chainVars>>
  BY DEF Rebroadcast
<1>3. /\ Highest(t) \in Fee
      /\ \A g \in Fee : attempts[t][g] # "none" => g <= Highest(t)
  BY <1>2, HighestIsThere
<1>4. state[t] = "unconfirmed"
  BY <1>1, <1>2 DEF LoopsInOrder, In
<1>5. PICK f \in Fee, B \in [Tx -> [Fee -> 0 .. MaxHeight]] :
        f >= Highest(t) /\ Handled(t, f, Sending(t, f), B)
  <2>1. \/ Handled(t, Highest(t), Sending(t, Highest(t)), before)
        \/ Handled(t, Highest(t), Sending(t, Highest(t)), [before EXCEPT ![t][Highest(t)] = NoBlock])
        \/ /\ Highest(t) < MaxFee
           /\ Handled(t, Highest(t) + 1, Sending(t, Highest(t) + 1), before)
    BY DEF Rebroadcast
  <2>2. Highest(t) >= Highest(t) /\ Highest(t) + 1 >= Highest(t)
    BY <1>3 DEF Fee
  <2>3. Highest(t) < MaxFee => Highest(t) + 1 \in Fee
    BY <1>3 DEF Fee
  <2>4. [before EXCEPT ![t][Highest(t)] = NoBlock] \in [Tx -> [Fee -> 0 .. MaxHeight]]
    BY <1>1, <1>3 DEF NoBlock
  <2> QED BY <1>1, <1>3, <2>1, <2>2, <2>3, <2>4
<1> DEFINE A == Sending(t, f)
<1>6. Prepared(t, f, A)
  <2>1. /\ A \in [Tx -> [Fee -> AttemptState]]
        /\ \A u \in Tx : u # t => A[u] = attempts[u]
        /\ \A g \in Fee : A[t][g] = IF g = f THEN "in_progress" ELSE attempts[t][g]
    BY <1>1 DEF AttemptState, Sending
  <2> HIDE DEF A
  <2>2. ASSUME NEW g \in Fee, A[t][g] # "none"
        PROVE  g <= f
    <3>1. g \in Nat /\ f \in Nat /\ Highest(t) \in Nat
      BY <1>1, <1>3
    <3>2. g = f \/ g <= Highest(t)
      BY <1>3, <2>1, <2>2
    <3> QED BY <1>5, <3>1, <3>2
  <2> QED BY <1>2, <1>4, <2>1, <2>2 DEF Prepared
<1>7. Handled(t, f, A, B)
  BY <1>5
<1> HIDE DEF A
<1> QED BY <1>2, <1>6, <1>7, HandledKeeps

LEMMA MarkForRebroadcastKeeps ==
  ASSUME ConfirmerInv, NEW t \in Tx, MarkForRebroadcast(t)
  PROVE  ConfirmerInv'
<1>1. /\ ConfirmerTypes /\ StoreTypeOK /\ RowsInOrder /\ ReceiptsInOrder /\ LoopsInOrder
      /\ ConfirmedByBroadcast /\ UnfinishedInOrder /\ Settled /\ ChainInOrder
      /\ pool \in [Tx -> Fee \cup {0}]
      /\ attempts \in [Tx -> [Fee -> AttemptState]]
      /\ before \in [Tx -> [Fee -> 0 .. MaxHeight]]
      /\ state \in [Tx -> TxState]
      /\ receipts \subseteq ReceiptRow
  BY DEF ConfirmerInv, ConfirmerTypes, StoreTypeOK
<1>2. /\ UNCHANGED <<nonce, resumed, head, asked, fetched, chainVars, pool>>
      /\ step = "reorged" /\ t \in todo
  BY DEF MarkForRebroadcast
<1>3. asked = {} /\ fetched = {}
  BY <1>1, <1>2 DEF LoopsInOrder
<1>4. CASE Refused(t)
  <2>1. UNCHANGED <<state, attempts, before, receipts>> /\ step' = "idle" /\ todo' = {}
    BY <1>4 DEF MarkForRebroadcast
  <2>2. LoopsInOrder' /\ UnfinishedInOrder' /\ Settled'
    BY <1>2, <1>3, <2>1 DEF LoopsInOrder, UnfinishedInOrder, Settled
  <2> QED BY <1>1, <1>2, <2>1, <2>2, RowsUntouched DEF ConfirmerTypes
<1>5. CASE ~ Refused(t)
  <2> DEFINE last == Highest(t)
  <2>1. /\ receipts' = {r \in receipts : r.tx # t}
        /\ state' = [state EXCEPT ![t] = "unconfirmed"]
        /\ attempts' = [attempts EXCEPT ![t] = Unbroadcast(t)]
        /\ before' = [before EXCEPT ![t][last] = NoBlock]
        /\ todo' = todo \ {t}
        /\ step' = "reorged"
    BY <1>2, <1>5 DEF MarkForRebroadcast, ReceiptsDeleted
  <2>2. state[t] = "confirmed" /\ attempts[t][last] = "broadcast"
    BY <1>5 DEF Refused
  <2>3. Attempted(t)
    <3>1. PICK r \in receipts : r.tx = t /\ attempts[t][r.fee] = "broadcast"
      BY <1>1, <2>2 DEF ConfirmedByBroadcast, Receipts, In
    <3> QED BY <1>1, <3>1 DEF Attempted, ReceiptRow
  <2>4. /\ last \in Fee
        /\ \A g \in Fee : attempts[t][g] # "none" => g <= last
    BY <2>3, HighestIsThere
  <2>5. \A g \in Fee : attempts[t][g] # "in_progress"
    BY <1>1, <1>2, <2>2 DEF UnfinishedInOrder, Unfinished, In
  <2> HIDE DEF last
  <2>6. /\ \A u \in Tx : u # t => /\ state'[u] = state[u] /\ attempts'[u] = attempts[u]
                                  /\ before'[u] = before[u]
        /\ state'[t] = "unconfirmed"
        /\ \A g \in Fee : attempts'[t][g] = IF g = last THEN "in_progress" ELSE attempts[t][g]
        /\ attempts' \in [Tx -> [Fee -> AttemptState]]
        /\ before' \in [Tx -> [Fee -> 0 .. MaxHeight]]
    <3>1. attempts'[t] = [attempts[t] EXCEPT ![last] = "in_progress"]
      BY <1>1, <2>1 DEF Unbroadcast, last
    <3>2. attempts'[t] \in [Fee -> AttemptState]
      BY <1>1, <3>1 DEF AttemptState
    <3>3. attempts' \in [Tx -> [Fee -> AttemptState]]
      BY <1>1, <2>1, <3>2
    <3>4. before' \in [Tx -> [Fee -> 0 .. MaxHeight]]
      BY <1>1, <2>1, <2>4 DEF NoBlock
    <3> QED BY <1>1, <2>1, <2>4, <3>1, <3>3, <3>4
  <2>7. ConfirmerTypes'
    <3>1. state' \in [Tx -> TxState] /\ todo' \subseteq Tx
      BY <1>1, <2>1 DEF TxState, ConfirmerTypes
    <3>2. receipts' \subseteq ReceiptRow
      BY <1>1, <2>1
    <3> QED BY <1>1, <1>2, <2>6, <3>1, <3>2 DEF ConfirmerTypes, StoreTypeOK, chainVars
  <2>8. RowsInOrder'
    <3>1. ASSUME NEW u \in Tx, NEW f \in Fee, NEW g \in Fee,
                 attempts'[u][f] = "in_progress", attempts'[u][g] # "none"
          PROVE  g <= f
      <4>1. CASE u = t
        <5>1. f = last /\ (g = last \/ attempts[t][g] # "none")
          BY <2>5, <2>6, <3>1, <4>1
        <5>2. last <= last
          BY <2>4 DEF Fee
        <5> QED BY <2>4, <5>1, <5>2
      <4>2. CASE u # t
        BY <1>1, <2>6, <3>1, <4>2 DEF RowsInOrder
      <4> QED BY <4>1, <4>2
    <3>2. ASSUME NEW u \in Tx, state'[u] = "new"
          PROVE  \A f \in Fee : attempts'[u][f] = "none"
      <4>1. state[u] = "new" /\ attempts'[u] = attempts[u]
        BY <2>6, <3>2
      <4> QED BY <1>1, <4>1 DEF RowsInOrder, In
    <3>3. \A u \in Tx : state'[u] \in Live => nonce'[u] = u - 1
      BY <1>1, <1>2, <2>2, <2>6 DEF RowsInOrder, In, Live
    <3>4. \A u \in Tx : state'[u] = "confirmed_missing_receipt" => u <= used'
      BY <1>1, <1>2, <2>6 DEF RowsInOrder, In, chainVars
    <3> QED BY <3>1, <3>2, <3>3, <3>4 DEF RowsInOrder, In
  <2>9. ReceiptsInOrder'
    BY <1>1, <1>2, <2>1 DEF ReceiptsInOrder, chainVars
  <2>10. LoopsInOrder'
    <3>1. todo' \subseteq In(Live)'
      BY <1>1, <2>1, <2>6 DEF LoopsInOrder, In
    <3> QED BY <1>2, <1>3, <2>1, <3>1 DEF LoopsInOrder
  <2>11. ASSUME NEW u \in Tx, state'[u] = "confirmed"
         PROVE  /\ u # t /\ state[u] = "confirmed" /\ attempts'[u] = attempts[u]
                /\ Receipts(u) \subseteq Receipts(u)'
    BY <2>1, <2>6, <2>11 DEF Receipts
  <2>12. ConfirmedByBroadcast'
    BY <1>1, <2>11 DEF ConfirmedByBroadcast, In
  <2>13. UnfinishedInOrder'
    BY <1>1, <1>2, <2>1, <2>11 DEF UnfinishedInOrder, Unfinished, In
  <2>14. Settled'
    <3>1. ASSUME NEW u \in Tx, state'[u] = "confirmed", u \notin todo'
          PROVE  InChain(u)'
      <4>1. InChain(u)
        BY <1>1, <1>2, <2>1, <2>11, <3>1 DEF Settled, In
      <4> QED BY <1>2, <2>11, <3>1, <4>1 DEF InChain, InHead
    <3> QED BY <2>1, <3>1 DEF Settled, In
  <2>15. SentIsTracked'
    <3>1. \A u \in Tx : \A f \in Fee : attempts[u][f] # "none" => attempts'[u][f] # "none"
      BY <2>6
    <3> QED BY <1>2, <3>1, TrackingKept DEF chainVars
  <2> QED BY <1>1, <1>2, <2>7, <2>8, <2>9, <2>10, <2>12, <2>13, <2>14, <2>15, ChainUntouched
       DEF ConfirmerInv
<1> QED BY <1>4, <1>5

LEMMA ConfirmerStutters ==
  ASSUME ConfirmerInv, UNCHANGED confirmerVars
  PROVE  ConfirmerInv'
<1>1. /\ ConfirmerTypes /\ StoreTypeOK /\ RowsInOrder /\ ReceiptsInOrder /\ LoopsInOrder
      /\ SentIsTracked /\ ConfirmedByBroadcast /\ UnfinishedInOrder /\ Settled
      /\ ChainInOrder
  BY DEF ConfirmerInv, ConfirmerTypes
<1>2. ConfirmerTypes' /\ ChainInOrder'
  BY <1>1, ChainUntouched DEF ConfirmerTypes, StoreTypeOK, confirmerVars, chainVars
<1>3. RowsInOrder' /\ ReceiptsInOrder' /\ LoopsInOrder'
  BY <1>1 DEF RowsInOrder, ReceiptsInOrder, LoopsInOrder, In, confirmerVars
<1>4. SentIsTracked' /\ ConfirmedByBroadcast' /\ UnfinishedInOrder'
  BY <1>1 DEF SentIsTracked, ConfirmedByBroadcast, UnfinishedInOrder, Unfinished, In, Receipts,
              confirmerVars
<1>5. Settled'
  BY <1>1 DEF Settled, InChain, In, Receipts, InHead, confirmerVars
<1> QED BY <1>2, <1>3, <1>4, <1>5 DEF ConfirmerInv

LEMMA ConfirmerInvariant == ConfirmerSpec => []ConfirmerInv
<1>1. ConfirmerInv /\ [ConfirmerNext]_confirmerVars => ConfirmerInv'
  <2> SUFFICES ASSUME ConfirmerInv, [ConfirmerNext]_confirmerVars
               PROVE  ConfirmerInv'
    OBVIOUS
  <2>1. CASE Mine \/ Reorg
    BY <2>1, MineKeeps, ReorgKeeps
  <2>2. CASE \/ Abort \/ NewHead \/ FindRebroadcasts \/ FindMarked \/ LoopEnds \/ HeadIsDone
             \/ \E t \in Tx : ResumeTaskRun(t)
    BY <2>2, HeadStepKeeps
  <2>3. CASE CheckConfirmedMissingReceipt \/ FindAttempts \/ FetchReceipts \/ SaveFetchedReceipts
    BY <2>3, CheckKeeps, FindAttemptsKeeps, FetchKeeps, SaveKeeps
  <2>4. CASE \/ MarkAllConfirmedMissingReceipt \/ MarkOldTxesMissingReceiptAsErrored
             \/ FindReorged \/ \E t \in Tx : MarkForRebroadcast(t)
    BY <2>4, MarkAllKeeps, MarkOldKeeps, FindReorgedKeeps, MarkForRebroadcastKeeps
  <2>5. CASE \E t \in Tx : Broadcast(t) \/ Resend(t)
    BY <2>5, BroadcastKeeps, ResendKeeps
  <2>6. CASE \E t \in Tx : HandleInProgress(t) \/ Rebroadcast(t)
    BY <2>6, HandleKeeps, RebroadcastKeeps
  <2>7. CASE UNCHANGED confirmerVars
    BY <2>7, ConfirmerStutters
  <2> QED BY <2>1, <2>2, <2>3, <2>4, <2>5, <2>6, <2>7 DEF ConfirmerNext
<1> QED BY <1>1, ConfirmerInitially, PTL DEF ConfirmerSpec

-----------------------------------------------------------------------------
(***************************************************************************)
(* The theorems.                                                           *)
(***************************************************************************)
\* The types, and in every state, over any crash, at most one attempt of a
\* transaction in progress.
THEOREM ConfirmerTypeCorrect == ConfirmerSpec => []ConfirmerTypeOK
<1>1. ConfirmerInv => ConfirmerTypeOK
  <2> SUFFICES ASSUME ConfirmerInv PROVE ConfirmerTypeOK
    OBVIOUS
  <2>1. ConfirmerTypes /\ StoreTypeOK /\ RowsInOrder
    BY DEF ConfirmerInv, ConfirmerTypes
  <2>2. ASSUME NEW t \in Tx
        PROVE  Cardinality({f \in Fee : attempts[t][f] = "in_progress"}) <= 1
    <3> DEFINE doing == {f \in Fee : attempts[t][f] = "in_progress"}
    <3>1. CASE doing = {}
      BY <3>1, FS_EmptySet
    <3>2. CASE doing # {}
      <4>1. PICK f \in Fee : attempts[t][f] = "in_progress"
        BY <3>2
      <4>2. ASSUME NEW g \in Fee, attempts[t][g] = "in_progress"
            PROVE  g = f
        <5>1. f <= g /\ g <= f
          BY <2>1, <4>1, <4>2 DEF RowsInOrder
        <5> QED BY <4>1, <4>2, <5>1 DEF Fee
      <4>3. doing = {f}
        BY <4>1, <4>2
      <4>4. Cardinality(doing) = 1
        <5> HIDE DEF doing
        <5> QED BY <4>3, FS_Singleton
      <4> QED BY <4>4
    <3> QED BY <3>1, <3>2
  <2>3. \A r \in receipts \cup fetched : r.tx \in Tx /\ r.fee \in Fee /\ r.num \in 1 .. MaxHeight
    BY <2>1 DEF ConfirmerTypes, ReceiptRow
  <2> QED BY <2>1, <2>2, <2>3 DEF ConfirmerTypeOK, ConfirmerTypes
<1> QED BY <1>1, ConfirmerInvariant, PTL

\* Once a head is processed up to its callbacks, no confirmed transaction has
\* been dropped by a re-organisation.
THEOREM ConfirmedIsInChain == ConfirmerSpec => []SettledInChain
<1>1. ConfirmerInv => SettledInChain
  BY DEF ConfirmerInv, Settled, InChain, SettledInChain
<1> QED BY <1>1, ConfirmerInvariant, PTL

\* Whatever the Ethereum node holds or has mined is in the table: an attempt
\* is deleted only if it was never taken.
THEOREM SentIsInTable == ConfirmerSpec => []SentIsTracked
<1>1. ConfirmerInv => SentIsTracked
  BY DEF ConfirmerInv
<1> QED BY <1>1, ConfirmerInvariant, PTL

\* Receipts are written and deleted together with the state.
THEOREM ConfirmedByReceipt == ConfirmerSpec => []ConfirmedHasReceipt
<1>1. ConfirmerInv => ConfirmedHasReceipt
  BY DEF ConfirmerInv, ConfirmedByBroadcast, ConfirmedHasReceipt
<1> QED BY <1>1, ConfirmerInvariant, PTL

\* A transaction is given up only if its nonce was used on some chain.
THEOREM NoneGivenUpUnused == ConfirmerSpec => GivenUpOnEvidence
<1>1. ConfirmerInv /\ [ConfirmerNext]_confirmerVars =>
        \A t \in Tx : state[t] # "fatal_error" /\ state'[t] = "fatal_error" => t <= used
  <2> SUFFICES ASSUME ConfirmerInv, [ConfirmerNext]_confirmerVars, NEW t \in Tx,
                      state[t] # "fatal_error", state'[t] = "fatal_error"
               PROVE  t <= used
    OBVIOUS
  <2>1. state \in [Tx -> TxState]
    BY DEF ConfirmerInv, ConfirmerTypes, StoreTypeOK
  <2>2. CASE MarkOldTxesMissingReceiptAsErrored
    <3>1. t \in Old(Len(head) - FinalityDepth)
      BY <2>2 DEF MarkOldTxesMissingReceiptAsErrored
    <3> QED BY <3>1 DEF Old, ConfirmerInv, RowsInOrder
  <2>3. CASE UNCHANGED state
    BY <2>3
  <2>4. CASE CheckConfirmedMissingReceipt \/ SaveFetchedReceipts \/ MarkAllConfirmedMissingReceipt
    BY <2>4 DEF CheckConfirmedMissingReceipt, SaveFetchedReceipts, MarkAllConfirmedMissingReceipt
  <2>5. CASE \E u \in Tx : \/ Broadcast(u) \/ HandleInProgress(u) \/ Rebroadcast(u)
                         \/ MarkForRebroadcast(u)
    <3>1. PICK u \in Tx : \/ Broadcast(u) \/ HandleInProgress(u) \/ Rebroadcast(u)
                          \/ MarkForRebroadcast(u)
      BY <2>5
    <3>2. \E s \in {"unconfirmed", "confirmed_missing_receipt"} :
            state' \in {state, [state EXCEPT ![u] = s]}
      BY <3>1 DEF Broadcast, HandleInProgress, Rebroadcast, Handled, MarkForRebroadcast
    <3> QED BY <2>1, <3>2
  <2>6. CASE \/ Mine \/ Reorg \/ Abort \/ NewHead \/ FindRebroadcasts \/ FindReorged
             \/ FindMarked \/ LoopEnds \/ HeadIsDone
    BY <2>6 DEF Mine, Reorg, Abort, NewHead, FindRebroadcasts, FindReorged, FindMarked, LoopEnds,
                HeadIsDone
  <2>7. CASE FindAttempts \/ FetchReceipts \/ \E u \in Tx : Resend(u) \/ ResumeTaskRun(u)
    BY <2>7 DEF FindAttempts, FetchReceipts, Resend, ResumeTaskRun
  <2> QED BY <2>2, <2>3, <2>4, <2>5, <2>6, <2>7 DEF ConfirmerNext, confirmerVars
<1>2. ConfirmerSpec => [][ConfirmerNext]_confirmerVars
  BY DEF ConfirmerSpec
<1> QED BY <1>1, <1>2, ConfirmerInvariant, PTL DEF GivenUpOnEvidence

=============================================================================
