---------------------------- MODULE PayboxProofs ----------------------------
(***************************************************************************)
(* Theorems about Paybox, for any accounts, intervals and bounds.          *)
(***************************************************************************)
EXTENDS Paybox, DataLemmas

USE PayboxAssumption

-----------------------------------------------------------------------------
(***************************************************************************)
(* The inductive invariant: dashboards are numbered as they are scheduled, *)
(* every dashboard has an owner who is a user, and myAccount is the last   *)
(* dashboard of each.  That the owners are users, of whom the factory is   *)
(* none, is what makes the calls of payStaff revert.                       *)
(***************************************************************************)
Entry == [myAccout : Nat, FutureTime : Nat]

PayboxTypes ==
  /\ time \in Nat
  /\ dashOwner \in Seq(User)
  /\ payrolls \in Seq(Nat)
  /\ arrayAddress \in Seq(Entry)
  /\ DOMAIN myAccount = User

Numbered ==
  /\ Len(arrayAddress) = Len(dashOwner)
  /\ Len(payrolls) = Len(dashOwner)
  /\ \A i \in 1 .. Len(dashOwner) : arrayAddress[i].myAccout = i

Of(u) == {d \in 1 .. Len(dashOwner) : dashOwner[d] = u}

LastCreated ==
  \A u \in User : myAccount[u] = IF Of(u) = {} THEN NoAccount ELSE Max(Of(u))

PayboxInv == PayboxTypes /\ Numbered /\ LastCreated

LEMMA PayboxInitially == PayboxInit => PayboxInv
<1> SUFFICES ASSUME PayboxInit
             PROVE  PayboxInv
  OBVIOUS
<1>1. PayboxTypes
  BY DEF PayboxInit, PayboxTypes
<1>2. Numbered
  BY DEF PayboxInit, Numbered
<1>3. LastCreated
  <2>1. \A u \in User : Of(u) = {}
    BY DEF PayboxInit, Of
  <2> QED BY <2>1 DEF PayboxInit, LastCreated
<1> QED BY <1>1, <1>2, <1>3 DEF PayboxInv

\* Max is the number that bounds the others.
LEMMA MaxIsGreatest ==
  ASSUME NEW n \in Nat, NEW T \in SUBSET (1 .. n), n \in T
  PROVE  Max(T) = n
<1>1. T # {}
  OBVIOUS
<1>2. Max(T) \in T /\ \A i \in T : Max(T) >= i
  BY <1>1, MaxOfIndices
<1>3. Max(T) \in 1 .. n /\ Max(T) >= n
  BY <1>2
<1> DEFINE m == Max(T)
<1> HIDE DEF m
<1>4. m \in 1 .. n /\ m >= n
  BY <1>3 DEF m
<1>5. m = n
  BY <1>4
<1> QED BY <1>5 DEF m

\* Append adds an entry behind the others.
LEMMA AppendedLast ==
  ASSUME NEW S, NEW s \in Seq(S), NEW e \in S
  PROVE  /\ Len(Append(s, e)) = Len(s) + 1
         /\ Append(s, e)[Len(s) + 1] = e
         /\ \A i \in 1 .. Len(s) : Append(s, e)[i] = s[i]
OBVIOUS

LEMMA CreateAccountKeeps ==
  ASSUME PayboxInv, NEW caller \in User, NEW interval \in Nat,
         CreateAccount(caller, interval)
  PROVE  PayboxInv'
<1> DEFINE n == Len(dashOwner)
           entry == [myAccout |-> n + 1, FutureTime |-> FutureTime(interval)]
<1>1. /\ time \in Nat /\ dashOwner \in Seq(User) /\ payrolls \in Seq(Nat)
      /\ arrayAddress \in Seq(Entry) /\ DOMAIN myAccount = User
      /\ Len(arrayAddress) = n /\ Len(payrolls) = n /\ n \in Nat
  BY DEF PayboxInv, PayboxTypes, Numbered
<1>2. /\ dashOwner' = Append(dashOwner, caller)
      /\ payrolls' = Append(payrolls, 0)
      /\ myAccount' = [myAccount EXCEPT ![caller] = n + 1]
      /\ arrayAddress' = Append(arrayAddress, entry)
      /\ time' = time
  BY DEF CreateAccount, Scheduled
<1>3. entry \in Entry /\ entry.myAccout = n + 1
  BY <1>1 DEF Entry, FutureTime
<1> HIDE DEF n, entry
<1>4. PayboxTypes'
  BY <1>1, <1>2, <1>3 DEF PayboxTypes
<1>5. /\ Len(dashOwner') = n + 1 /\ Len(payrolls') = n + 1 /\ Len(arrayAddress') = n + 1
      /\ arrayAddress'[n + 1] = entry /\ dashOwner'[n + 1] = caller
      /\ \A i \in 1 .. n : arrayAddress'[i] = arrayAddress[i] /\ dashOwner'[i] = dashOwner[i]
  <2>0. Len(dashOwner) = n
    BY DEF n
  <2>1. /\ Len(dashOwner') = n + 1 /\ dashOwner'[n + 1] = caller
        /\ \A i \in 1 .. n : dashOwner'[i] = dashOwner[i]
    BY <1>1, <1>2, <2>0
  <2>2. Len(payrolls') = n + 1
    BY <1>1, <1>2
  <2>3. /\ Len(arrayAddress') = n + 1 /\ arrayAddress'[n + 1] = entry
        /\ \A i \in 1 .. n : arrayAddress'[i] = arrayAddress[i]
    <3>1. arrayAddress \in Seq(Entry) /\ entry \in Entry /\ Len(arrayAddress) = n
      BY <1>1, <1>3
    <3> QED BY <1>2, <3>1, AppendedLast
  <2> QED BY <2>1, <2>2, <2>3
<1>6. Numbered'
  <2>1. ASSUME NEW i \in 1 .. n + 1
        PROVE  arrayAddress'[i].myAccout = i
    <3>1. CASE i = n + 1
      BY <1>3, <1>5, <3>1
    <3>2. CASE i # n + 1
      <4>1. i \in 1 .. n
        BY <1>1, <3>2
      <4> QED BY <1>5, <4>1 DEF PayboxInv, Numbered, n
    <3> QED BY <3>1, <3>2
  <2> QED BY <1>5, <2>1 DEF Numbered
<1>7. LastCreated'
  <2> SUFFICES ASSUME NEW u \in User
               PROVE  myAccount'[u] = IF Of(u)' = {} THEN NoAccount ELSE Max(Of(u)')
    BY DEF LastCreated
  <2>1. Of(u)' = {d \in 1 .. n + 1 : dashOwner'[d] = u}
    BY <1>5 DEF Of
  <2>2. CASE u = caller
    <3>1. n + 1 \in Of(u)' /\ Of(u)' \in SUBSET (1 .. n + 1) /\ n + 1 \in Nat
      BY <1>1, <1>5, <2>1, <2>2
    <3>2. Max(Of(u)') = n + 1
      BY <3>1, MaxIsGreatest
    <3>3. myAccount'[u] = n + 1
      BY <1>1, <1>2, <2>2
    <3> QED BY <3>1, <3>2, <3>3
  <2>3. CASE u # caller
    <3>1. Of(u)' = Of(u)
      <4>1. \A d \in 1 .. n + 1 : d = n + 1 \/ d \in 1 .. n
        BY <1>1
      <4>2. 1 .. n \subseteq 1 .. n + 1
        BY <1>1
      <4>3. Of(u) = {d \in 1 .. n : dashOwner[d] = u}
        BY DEF Of, n
      <4> QED BY <1>5, <2>1, <2>3, <4>1, <4>2, <4>3
    <3>2. myAccount'[u] = myAccount[u]
      BY <1>1, <1>2, <2>3
    <3> QED BY <3>1, <3>2 DEF PayboxInv, LastCreated
  <2> QED BY <2>2, <2>3
<1> QED BY <1>4, <1>6, <1>7 DEF PayboxInv

\* A payroll changes the number of payrolls of some dashboards, only.
LEMMA PaysAllKeeps ==
  ASSUME PayboxInv, NEW caller, NEW D, PaysAll(caller, D),
         UNCHANGED <<time, dashOwner, myAccount, userExist, arrayAddress>>
  PROVE  PayboxInv'
<1>1. payrolls \in Seq(Nat) /\ Len(payrolls) = Len(dashOwner) /\ Len(dashOwner) \in Nat
  BY DEF PayboxInv, PayboxTypes, Numbered
<1>2. payrolls' = [d \in 1 .. Len(dashOwner) |-> payrolls[d] + IF d \in D THEN 1 ELSE 0]
  BY <1>1 DEF PaysAll
<1>3. payrolls' \in [1 .. Len(dashOwner) -> Nat]
  BY <1>1, <1>2
<1>4. payrolls' \in Seq(Nat) /\ Len(payrolls') = Len(dashOwner)
  BY <1>1, <1>3, FunctionIsSequence
<1>5. PayboxTypes'
  BY <1>4 DEF PayboxInv, PayboxTypes
<1>6. Numbered'
  BY <1>4 DEF PayboxInv, Numbered
<1>7. LastCreated'
  BY DEF PayboxInv, LastCreated, Of
<1> QED BY <1>5, <1>6, <1>7 DEF PayboxInv

LEMMA PayboxInvariant == PayboxSpec => []PayboxInv
<1>1. ASSUME PayboxInv, [PayboxNext]_payboxVars
      PROVE  PayboxInv'
  <2>1. CASE Later
    BY <1>1, <2>1 DEF Later, PayboxInv, PayboxTypes, Numbered, LastCreated, Of
  <2>2. CASE PayStaff
    BY <1>1, <2>2, PaysAllKeeps DEF PayStaff
  <2>3. ASSUME NEW caller \in User, NEW interval \in {Daily, Biweekly, Monthly},
               CreateAccount(caller, interval)
        PROVE  PayboxInv'
    BY <1>1, <2>3, CreateAccountKeeps
  <2>4. ASSUME NEW caller \in User, NEW d \in DOMAIN dashOwner, OwnerPays(caller, d)
        PROVE  PayboxInv'
    BY <1>1, <2>4, PaysAllKeeps DEF OwnerPays
  <2>5. CASE UNCHANGED payboxVars
    BY <1>1, <2>5 DEF payboxVars, PayboxInv, PayboxTypes, Numbered, LastCreated, Of
  <2> QED BY <1>1, <2>1, <2>2, <2>3, <2>4, <2>5 DEF PayboxNext
<1> QED BY <1>1, PayboxInitially, PTL DEF PayboxSpec

-----------------------------------------------------------------------------
\* showMyAcct gives an owner the dashboard it created last, and every dashboard
\* is in the schedule once, however often an owner calls createAccount.
THEOREM AccountsScheduled == PayboxSpec => []AccountsAreScheduled
<1>1. ASSUME PayboxInv
      PROVE  AccountsAreScheduled
  <2>1. /\ DOMAIN dashOwner = 1 .. Len(dashOwner) /\ DOMAIN arrayAddress = 1 .. Len(dashOwner)
        /\ \A i \in 1 .. Len(dashOwner) : arrayAddress[i].myAccout = i
    BY <1>1 DEF PayboxInv, PayboxTypes, Numbered
  <2>2. ASSUME NEW u \in User
        PROVE  LET mine == {d \in DOMAIN dashOwner : dashOwner[d] = u}
               IN  showMyAcct(u) = IF mine = {} THEN NoAccount ELSE Max(mine)
    <3>1. Of(u) = {d \in DOMAIN dashOwner : dashOwner[d] = u}
      BY <2>1 DEF Of
    <3> QED BY <1>1, <3>1 DEF PayboxInv, LastCreated, showMyAcct
  <2>3. ASSUME NEW d \in DOMAIN dashOwner
        PROVE  Cardinality({i \in DOMAIN arrayAddress : arrayAddress[i].myAccout = d}) = 1
    <3>1. {i \in DOMAIN arrayAddress : arrayAddress[i].myAccout = d} = {d}
      BY <2>1, <2>3
    <3> QED BY <3>1, FS_Singleton
  <2> QED BY <2>2, <2>3 DEF AccountsAreScheduled
<1> QED BY <1>1, PayboxInvariant, PTL

\* payStaff pays nobody: a call that does not revert leaves every dashboard and
\* the schedule as they are, at any time.
THEOREM PayStaffDoesNothing == PayboxSpec => PayStaffIsIdle
<1>1. ASSUME PayboxInv, PayStaff
      PROVE  UNCHANGED payboxVars
  <2> DEFINE Reached(i) == \A j \in 1 .. i : arrayAddress[j].FutureTime >= time
             due == {i \in DOMAIN arrayAddress : Reached(i)}
             D == {arrayAddress[i].myAccout : i \in due}
  <2>1. PaysAll(Factory, D)
    BY <1>1 DEF PayStaff
  <2>2. UNCHANGED <<time, dashOwner, myAccount, userExist, arrayAddress>>
    BY <1>1 DEF PayStaff
  <2>3. /\ DOMAIN arrayAddress = 1 .. Len(dashOwner)
        /\ \A i \in 1 .. Len(dashOwner) : arrayAddress[i].myAccout = i /\ dashOwner[i] \in User
        /\ payrolls \in Seq(Nat)
    BY <1>1 DEF PayboxInv, PayboxTypes, Numbered
  <2>4. D = {}
    <3> SUFFICES ASSUME NEW i \in due
                 PROVE  FALSE
      OBVIOUS
    <3>1. i \in 1 .. Len(dashOwner) /\ arrayAddress[i].myAccout = i /\ i \in D
      BY <2>3
    <3>2. dashOwner[i] = Factory
      BY <2>1, <3>1 DEF PaysAll
    <3> QED BY <2>3, <3>1, <3>2
  <2> HIDE DEF D
  <2>5. payrolls' = [d \in DOMAIN payrolls |-> payrolls[d]]
    <3>1. payrolls' = [d \in DOMAIN payrolls |-> payrolls[d] + 0]
      BY <2>1, <2>4 DEF PaysAll
    <3> QED BY <2>3, <3>1
  <2> QED BY <2>2, <2>3, <2>5 DEF payboxVars
<1> QED BY <1>1, PayboxInvariant, PTL DEF PayStaffIsIdle

=============================================================================
