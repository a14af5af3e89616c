---------------------------- MODULE StaffProofs -----------------------------
(***************************************************************************)
(* Theorems about the staff of a dashboard, for any accounts, salaries,    *)
(* intervals and bounds: the registry under any owner, the registry under  *)
(* a careful owner, which implements Roster, and the attendance.           *)
(***************************************************************************)
EXTENDS Attendance, DataLemmas

USE RegistryAssumption

-----------------------------------------------------------------------------
(***************************************************************************)
(* The registry.  The operators of addStaff.                               *)
(***************************************************************************)
LEMMA BatchIsSequence ==
  ASSUME NEW S, NEW batch \in Batches(S)
  PROVE  batch \in Seq(S)
<1>1. PICK n \in 0..MaxBatch : batch \in [1..n -> S]
  BY DEF Batches
<1> QED BY <1>1

\* The last entry of an account that a batch names is an entry that names it.
LEMMA LastInBatch ==
  ASSUME NEW S, NEW batch \in Seq(S), NEW a \in Range(batch)
  PROVE  /\ LastIn(batch, a) \in 1..Len(batch)
         /\ batch[LastIn(batch, a)] = a
<1> DEFINE T == {i \in DOMAIN batch : batch[i] = a}
<1>1. T \in SUBSET (1..Len(batch)) /\ T # {}
  <2>1. PICK i \in DOMAIN batch : batch[i] = a
    BY DEF Range
  <2> QED BY <2>1
<1>2. Max(T) \in T
  <2>1. Len(batch) \in Nat
    OBVIOUS
  <2> HIDE DEF T
  <2> QED BY <1>1, <2>1, MaxOfIndices
<1> QED BY <1>2 DEF LastIn

LEMMA WrittenType ==
  ASSUME NEW S, NEW map \in [Address -> S],
         NEW batch \in Seq(Address), NEW value \in [DOMAIN batch -> S]
  PROVE  Written(map, batch, value) \in [Address -> S]
<1> SUFFICES ASSUME NEW a \in Address, a \in Range(batch)
             PROVE  value[LastIn(batch, a)] \in S
  BY DEF Written
<1> QED BY LastInBatch

-----------------------------------------------------------------------------
(***************************************************************************)
(* Type correctness.                                                       *)
(***************************************************************************)
LEMMA AddStaffType ==
  ASSUME RegistryTypeOK,
         NEW caller \in Address, NEW staff \in Seq(Address), NEW amount \in Seq(Amount),
         AddStaff(caller, staff, amount)
  PROVE  RegistryTypeOK'
<1> USE DEF RegistryTypeOK
<1>1. (allStaffs \in Seq(Address))' /\ (Len(allStaffs) <= MaxStaff)'
  BY DEF AddStaff
<1>2. (staffLength \in [Address -> Nat])'
  <2> DEFINE index == [i \in DOMAIN staff |-> Len(allStaffs) + i - 1]
  <2>1. index \in [DOMAIN staff -> Nat]
    OBVIOUS
  <2> HIDE DEF index
  <2>2. Written(staffLength, staff, index) \in [Address -> Nat]
    BY <2>1, WrittenType
  <2> QED BY <2>2 DEF AddStaff, index
<1>3. (Salary \in [Address -> Amount \cup {0}])' /\ (profile \in [Address -> Amount \cup {0}])'
  <2>1. amount \in [DOMAIN staff -> Amount \cup {0}]
    BY DEF AddStaff
  <2> QED BY <2>1, WrittenType DEF AddStaff
<1>4. (staffExist \in [Address -> BOOLEAN])'
  BY DEF AddStaff
<1> QED BY <1>1, <1>2, <1>3, <1>4 DEF AddStaff

\* What removeStaff does to the array, at the indices that remain.
LEMMA RemoveStaffArray ==
  ASSUME RegistryTypeOK, NEW caller \in Address, NEW staff \in Address,
         RemoveStaff(caller, staff)
  PROVE  /\ Len(allStaffs) \in Nat \ {0}
         /\ Last(allStaffs) = allStaffs[Len(allStaffs)]
         /\ Last(allStaffs) \in Address
         /\ allStaffs' \in Seq(Address)
         /\ Len(allStaffs') = Len(allStaffs) - 1
         /\ \A i \in 1..Len(allStaffs) - 1 :
              allStaffs'[i] = IF i = staffLength[staff] + 1
                              THEN Last(allStaffs) ELSE allStaffs[i]
<1> USE DEF RegistryTypeOK
<1>1. Len(allStaffs) \in Nat \ {0} /\ staffLength[staff] + 1 \in 1..Len(allStaffs)
  BY DEF RemoveStaff, ExchangedAndPopped, Reindexed, SalaryDeleted
<1>2. Last(allStaffs) = allStaffs[Len(allStaffs)] /\ Last(allStaffs) \in Address
  BY <1>1 DEF Last
<1> DEFINE exchanged == [allStaffs EXCEPT ![staffLength[staff] + 1] = Last(allStaffs)]
<1>3. /\ exchanged \in Seq(Address)
      /\ Len(exchanged) = Len(allStaffs)
      /\ \A i \in 1..Len(allStaffs) :
           exchanged[i] = IF i = staffLength[staff] + 1
                          THEN Last(allStaffs) ELSE allStaffs[i]
  BY <1>1, <1>2, ExceptSeq
<1>4. allStaffs' = Front(exchanged)
  BY DEF RemoveStaff, ExchangedAndPopped, Reindexed, SalaryDeleted
<1> HIDE DEF exchanged
<1>5. /\ allStaffs' \in Seq(Address)
      /\ Len(allStaffs') = Len(allStaffs) - 1
      /\ \A i \in 1..Len(allStaffs) - 1 : allStaffs'[i] = exchanged[i]
  <2>1. Len(exchanged) \in Nat \ {0}
    BY <1>1, <1>3
  <2> QED BY <1>3, <1>4, <2>1, FrontOfSequence
<1>6. ASSUME NEW i \in 1..Len(allStaffs) - 1
      PROVE  allStaffs'[i] = IF i = staffLength[staff] + 1
                             THEN Last(allStaffs) ELSE allStaffs[i]
  <2>1. i \in 1..Len(allStaffs)
    BY <1>1
  <2> QED BY <1>3, <1>5, <2>1
<1> QED BY <1>1, <1>2, <1>5, <1>6

LEMMA RemoveStaffType ==
  ASSUME RegistryTypeOK, NEW caller \in Address, NEW staff \in Address,
         RemoveStaff(caller, staff)
  PROVE  RegistryTypeOK'
<1>1. allStaffs' \in Seq(Address) /\ Len(allStaffs') <= MaxStaff
  BY RemoveStaffArray DEF RegistryTypeOK
<1> QED BY <1>1, RemoveStaffArray DEF RegistryTypeOK, RemoveStaff, ExchangedAndPopped, Reindexed, SalaryDeleted

\* Every slot of the registry keeps its type, whatever calls are made.
THEOREM RegistryTypeCorrect == RegistrySpec => []RegistryTypeOK
<1>1. RegistryInit => RegistryTypeOK
  BY DEF RegistryInit, RegistryTypeOK
<1>2. RegistryTypeOK /\ [RegistryNext]_registryVars => RegistryTypeOK'
  <2> SUFFICES ASSUME RegistryTypeOK, [RegistryNext]_registryVars
               PROVE  RegistryTypeOK'
    OBVIOUS
  <2>1. CASE AddStaffStep
    BY <2>1, AddStaffType, BatchIsSequence DEF AddStaffStep
  <2>2. CASE RemoveStaffStep
    BY <2>2, RemoveStaffType DEF RemoveStaffStep
  <2>3. CASE UNCHANGED registryVars
    BY <2>3 DEF registryVars, RegistryTypeOK
  <2> QED BY <2>1, <2>2, <2>3 DEF RegistryNext
<1> QED BY <1>1, <1>2, PTL DEF RegistrySpec

-----------------------------------------------------------------------------
(***************************************************************************)
(* IndexSound is inductive beside the types: addStaff gives an account the *)
(* index of an entry of its own, and removeStaff updates the index of the  *)
(* one entry it moves.                                                     *)
(***************************************************************************)
LEMMA AddStaffKeepsIndices ==
  ASSUME RegistryTypeOK, IndexSound,
         NEW caller \in Address, NEW staff \in Seq(Address), NEW amount \in Seq(Amount),
         AddStaff(caller, staff, amount)
  PROVE  IndexSound'
<1> SUFFICES ASSUME NEW a \in Address, staffLength'[a] # 0
             PROVE  /\ staffLength'[a] < Len(allStaffs')
                    /\ allStaffs'[staffLength'[a] + 1] = a
  BY DEF IndexSound
<1> USE DEF RegistryTypeOK
<1>1. CASE a \in Range(staff)
  <2> DEFINE i == LastIn(staff, a)
  <2>1. i \in 1..Len(staff) /\ staff[i] = a
    BY <1>1, LastInBatch
  <2>2. staffLength'[a] = Len(allStaffs) + i - 1
    BY <1>1, <2>1 DEF AddStaff, Written
  <2> HIDE DEF i
  <2>3. /\ Len(allStaffs') = Len(allStaffs) + Len(staff)
        /\ allStaffs'[Len(allStaffs) + i] = staff[i]
    <3>1. allStaffs \in Seq(Address) /\ allStaffs' = allStaffs \o staff
      BY DEF AddStaff
    <3> QED BY <2>1, <3>1, EntriesOfConcat
  <2>4. staffLength'[a] + 1 = Len(allStaffs) + i
    BY <2>1, <2>2
  <2>5. staffLength'[a] < Len(allStaffs')
    BY <2>1, <2>2, <2>3
  <2> QED BY <2>1, <2>3, <2>4, <2>5
<1>2. CASE a \notin Range(staff)
  <2>1. staffLength'[a] = staffLength[a]
    BY <1>2 DEF AddStaff, Written
  <2>2. staffLength[a] < Len(allStaffs) /\ allStaffs[staffLength[a] + 1] = a
    BY <2>1 DEF IndexSound
  <2>3. allStaffs \in Seq(Address) /\ allStaffs' = allStaffs \o staff
    BY DEF AddStaff
  <2>4. staffLength[a] + 1 \in 1..Len(allStaffs) /\ Len(allStaffs) \in Nat /\ Len(staff) \in Nat
    BY <2>2
  <2> QED BY <2>1, <2>2, <2>3, <2>4, EntriesOfConcat
<1> QED BY <1>1, <1>2

LEMMA RemoveStaffKeepsIndices ==
  ASSUME RegistryTypeOK, IndexSound,
         NEW caller \in Address, NEW staff \in Address,
         RemoveStaff(caller, staff)
  PROVE  IndexSound'
<1> SUFFICES ASSUME NEW a \in Address, staffLength'[a] # 0
             PROVE  /\ staffLength'[a] < Len(allStaffs')
                    /\ allStaffs'[staffLength'[a] + 1] = a
  BY DEF IndexSound
<1> DEFINE n == Len(allStaffs)
           index == staffLength[staff]
           last == Last(allStaffs)
<1>1. /\ n \in Nat \ {0}
      /\ index \in Nat /\ index < n
      /\ last = allStaffs[n]
      /\ Len(allStaffs') = n - 1
      /\ \A i \in 1..n - 1 :
           allStaffs'[i] = IF i = index + 1 THEN last ELSE allStaffs[i]
      /\ staffLength' = [staffLength EXCEPT ![last] = index, ![staff] = 0]
      /\ last \in Address
  BY RemoveStaffArray DEF RemoveStaff, ExchangedAndPopped, Reindexed, SalaryDeleted, RegistryTypeOK
<1>2. staffLength \in [Address -> Nat]
  BY DEF RegistryTypeOK
<1>3. \A b \in Address : staffLength[b] # 0 =>
        staffLength[b] < n /\ allStaffs[staffLength[b] + 1] = b
  BY DEF IndexSound
<1> HIDE DEF n, index, last
<1>4. a # staff
  BY <1>1, <1>2
<1>5. CASE a = last
  <2>1. staffLength'[a] = index
    BY <1>1, <1>2, <1>4, <1>5
  <2>2. index + 1 # n
    \* the entry at an index other than 0 is staff, and last is not staff
    BY <1>1, <1>3, <1>4, <1>5, <2>1 DEF index
  <2> QED BY <1>1, <1>5, <2>1, <2>2
<1>6. CASE a # last
  <2>1. staffLength'[a] = staffLength[a]
    BY <1>1, <1>2, <1>4, <1>6
  <2>2. staffLength[a] < n /\ allStaffs[staffLength[a] + 1] = a
    BY <1>3, <2>1
  <2>3. staffLength[a] + 1 # n
    BY <1>1, <1>6, <2>2
  <2>4. staffLength[a] # index
    \* two accounts cannot both be at an index other than 0
    BY <1>3, <1>4, <2>1, <2>2 DEF index
  <2>5. staffLength[a] \in Nat
    BY <1>2
  <2> QED BY <1>1, <2>1, <2>2, <2>3, <2>4, <2>5
<1> QED BY <1>5, <1>6

\* After any calls of any arguments, an index other than 0 points at its account.
THEOREM IndicesSound == RegistrySpec => []IndexSound
<1>1. RegistryInit => IndexSound
  BY DEF RegistryInit, IndexSound
<1>2. RegistryTypeOK /\ IndexSound /\ [RegistryNext]_registryVars => IndexSound'
  <2> SUFFICES ASSUME RegistryTypeOK, IndexSound, [RegistryNext]_registryVars
               PROVE  IndexSound'
    OBVIOUS
  <2>1. CASE AddStaffStep
    BY <2>1, AddStaffKeepsIndices, BatchIsSequence DEF AddStaffStep
  <2>2. CASE RemoveStaffStep
    BY <2>2, RemoveStaffKeepsIndices DEF RemoveStaffStep
  <2>3. CASE UNCHANGED registryVars
    BY <2>3 DEF registryVars, IndexSound
  <2> QED BY <2>1, <2>2, <2>3 DEF RegistryNext
<1> QED BY <1>1, <1>2, RegistryTypeCorrect, PTL DEF RegistrySpec

-----------------------------------------------------------------------------
(***************************************************************************)
(* The registry under a careful owner, and its invariant.  IndexExact says *)
(* that the list has no account twice, so that the exchange of removeStaff *)
(* takes the account named, and no other, out of the list; PayrollExact    *)
(* follows the list.                                                       *)
(***************************************************************************)
CarefulInv ==
  /\ RegistryTypeOK
  /\ IndexExact
  /\ PayrollExact

\* What addStaff does for an owner who adds unlisted accounts, each once.
LEMMA CarefulAddEffect ==
  ASSUME CarefulInv, NEW staff \in Seq(Address), NEW amount \in Seq(Amount),
         \A i \in DOMAIN staff : ~Listed(staff[i]),
         IsInjective(staff), AddStaff(Owner, staff, amount)
  PROVE  /\ RegistryTypeOK'
         /\ Range(allStaffs') = Range(allStaffs) \cup Range(staff)
         /\ Range(allStaffs) \cap Range(staff) = {}
         /\ IndexExact'
         /\ \A a \in Range(staff) : Salary'[a] \in Amount /\ profile'[a] = Salary'[a]
         /\ \A a \in Address \ Range(staff) :
              Salary'[a] = Salary[a] /\ profile'[a] = profile[a]
         /\ removed' = removed
<1>1. allStaffs \in Seq(Address) /\ staffLength \in [Address -> Nat]
  BY DEF CarefulInv, RegistryTypeOK
<1>2. RegistryTypeOK'
  BY AddStaffType DEF CarefulInv
<1> DEFINE n == Len(allStaffs)
           m == Len(staff)
<1>3. /\ n \in Nat /\ m \in Nat /\ Len(allStaffs') = n + m
      /\ DOMAIN allStaffs = 1..n /\ DOMAIN staff = 1..m /\ DOMAIN allStaffs' = 1..n + m
      /\ \A i \in 1..n : allStaffs'[i] = allStaffs[i]
      /\ \A i \in 1..m : allStaffs'[n + i] = staff[i]
  <2>1. allStaffs' = allStaffs \o staff
    BY DEF AddStaff
  <2>2. /\ n \in Nat /\ m \in Nat /\ DOMAIN allStaffs = 1..n /\ DOMAIN staff = 1..m
        /\ Len(allStaffs') = n + m
        /\ \A i \in 1..n : allStaffs'[i] = allStaffs[i]
        /\ \A i \in 1..m : allStaffs'[n + i] = staff[i]
    BY <1>1, <2>1, EntriesOfConcat
  <2>3. allStaffs' \in Seq(Address)
    BY <1>2 DEF RegistryTypeOK
  <2>4. DOMAIN allStaffs' = 1..Len(allStaffs')
    BY <2>3
  <2> QED BY <2>2, <2>4
<1> HIDE DEF n, m
<1>4. ASSUME NEW i \in 1..n + m
      PROVE  i \in 1..n \/ \E j \in 1..m : i = n + j
  <2>1. i \in 1..n \/ (i - n \in 1..m /\ i = n + (i - n))
    BY <1>3
  <2> QED BY <2>1
<1>5. Range(allStaffs') = Range(allStaffs) \cup Range(staff)
  <2>1. ASSUME NEW a \in Range(allStaffs')
        PROVE  a \in Range(allStaffs) \cup Range(staff)
    <3>1. PICK i \in 1..n + m : allStaffs'[i] = a
      BY <1>3, <2>1 DEF Range
    <3> QED BY <1>3, <1>4, <3>1 DEF Range
  <2>2. ASSUME NEW a \in Range(allStaffs)
        PROVE  a \in Range(allStaffs')
    <3>1. PICK i \in 1..n : allStaffs[i] = a
      BY <1>3, <2>2 DEF Range
    <3>2. i \in 1..n + m /\ allStaffs'[i] = a
      BY <1>3, <3>1
    <3> QED BY <1>3, <3>2 DEF Range
  <2>3. ASSUME NEW a \in Range(staff)
        PROVE  a \in Range(allStaffs')
    <3>1. PICK i \in 1..m : staff[i] = a
      BY <1>3, <2>3 DEF Range
    <3>2. n + i \in 1..n + m /\ allStaffs'[n + i] = a
      BY <1>3, <3>1
    <3> QED BY <1>3, <3>2 DEF Range
  <2> QED BY <2>1, <2>2, <2>3
<1>6. Range(allStaffs) \cap Range(staff) = {}
  BY DEF Range, Listed
<1>7. ASSUME NEW a \in Range(staff)
      PROVE  /\ LastIn(staff, a) \in 1..m /\ staff[LastIn(staff, a)] = a
             /\ a \in Address
  BY <1>3, <1>7, LastInBatch DEF Range, m
<1>8. IndexExact'
  <2> SUFFICES ASSUME NEW i \in 1..n + m
               PROVE  staffLength'[allStaffs'[i]] = i - 1
    BY <1>3 DEF IndexExact
  <2>1. CASE i \in 1..n
    <3>1. allStaffs'[i] = allStaffs[i] /\ allStaffs[i] \in Range(allStaffs)
      BY <1>3, <2>1 DEF Range
    <3>2. allStaffs[i] \in Address /\ allStaffs[i] \notin Range(staff)
      BY <1>1, <1>3, <1>6, <2>1, <3>1
    <3>3. staffLength'[allStaffs[i]] = staffLength[allStaffs[i]]
      BY <3>2 DEF AddStaff, Written
    <3> QED BY <1>3, <2>1, <3>1, <3>3 DEF CarefulInv, IndexExact
  <2>2. ASSUME NEW j \in 1..m, i = n + j
        PROVE  staffLength'[allStaffs'[i]] = i - 1
    <3>1. allStaffs'[i] = staff[j] /\ staff[j] \in Range(staff)
      BY <1>3, <2>2 DEF Range
    <3>2. LastIn(staff, staff[j]) = j
      BY <1>3, <1>7, <3>1 DEF IsInjective
    <3>3. staff[j] \in Address
      BY <1>7, <3>1
    <3>4. staffLength'[staff[j]] = n + j - 1
      BY <1>3, <3>1, <3>2, <3>3 DEF AddStaff, Written, n
    <3> QED BY <1>3, <2>2, <3>1, <3>4
  <2> QED BY <1>4, <2>1, <2>2
<1>9. ASSUME NEW a \in Range(staff)
      PROVE  Salary'[a] \in Amount /\ profile'[a] = Salary'[a]
  <2>1. a \in Address /\ LastIn(staff, a) \in 1..m
    BY <1>7, <1>9
  <2>2. Salary'[a] = amount[LastIn(staff, a)] /\ profile'[a] = amount[LastIn(staff, a)]
    BY <1>9, <2>1 DEF AddStaff, Written
  <2>3. LastIn(staff, a) \in DOMAIN amount
    <3>1. m = Len(amount) /\ DOMAIN amount = 1..Len(amount)
      BY DEF AddStaff, m
    <3> QED BY <2>1, <3>1
  <2>4. amount[LastIn(staff, a)] \in Amount
    BY <2>3
  <2> QED BY <2>2, <2>4
<1>10. \A a \in Address \ Range(staff) :
         Salary'[a] = Salary[a] /\ profile'[a] = profile[a]
  BY DEF AddStaff, Written
<1> QED BY <1>2, <1>5, <1>6, <1>8, <1>9, <1>10 DEF AddStaff

\* What removeStaff does for a listed account.
LEMMA CarefulRemoveEffect ==
  ASSUME CarefulInv, NEW staff \in Address, Listed(staff), RemoveStaff(Owner, staff)
  PROVE  /\ RegistryTypeOK'
         /\ Range(allStaffs') = Range(allStaffs) \ {staff}
         /\ IndexExact'
         /\ Salary' = [Salary EXCEPT ![staff] = 0]
         /\ profile' = profile
         /\ removed' = staff
<1> DEFINE n == Len(allStaffs)
           index == staffLength[staff]
           last == Last(allStaffs)
<1>1. /\ n \in Nat \ {0} /\ DOMAIN allStaffs = 1..n /\ DOMAIN allStaffs' = 1..n - 1
      /\ last = allStaffs[n] /\ last \in Address
      /\ \A i \in 1..n - 1 :
           allStaffs'[i] = IF i = index + 1 THEN last ELSE allStaffs[i]
      /\ staffLength' = [staffLength EXCEPT ![last] = index, ![staff] = 0]
      /\ staffLength \in [Address -> Nat]
      /\ \A i \in 1..n : allStaffs[i] \in Address
  <2>1. /\ n \in Nat \ {0}
        /\ last = allStaffs[n] /\ last \in Address
        /\ allStaffs' \in Seq(Address) /\ Len(allStaffs') = n - 1
        /\ \A i \in 1..n - 1 :
             allStaffs'[i] = IF i = index + 1 THEN last ELSE allStaffs[i]
    BY RemoveStaffArray DEF CarefulInv
  <2>2. allStaffs \in Seq(Address) /\ staffLength \in [Address -> Nat]
    BY DEF CarefulInv, RegistryTypeOK
  <2>3. DOMAIN allStaffs = 1..n /\ \A i \in 1..n : allStaffs[i] \in Address
    BY <2>2
  <2>4. DOMAIN allStaffs' = 1..n - 1
    <3>1. DOMAIN allStaffs' = 1..Len(allStaffs')
      BY <2>1
    <3> QED BY <2>1, <3>1
  <2>5. staffLength' = [staffLength EXCEPT ![last] = index, ![staff] = 0]
    BY DEF RemoveStaff, Reindexed
  <2> QED BY <2>1, <2>2, <2>3, <2>4, <2>5
<1>2. RegistryTypeOK'
  BY RemoveStaffType DEF CarefulInv
<1>3. \A i \in 1..n : staffLength[allStaffs[i]] = i - 1
  BY <1>1 DEF CarefulInv, IndexExact
<1>4. index + 1 \in 1..n /\ allStaffs[index + 1] = staff
  <2>1. PICK i \in 1..n : allStaffs[i] = staff
    BY <1>1 DEF Listed, Range
  <2> QED BY <1>3, <2>1
<1> HIDE DEF n, index, last
<1>5. \A i, j \in 1..n : allStaffs[i] = allStaffs[j] => i = j
  BY <1>1, <1>3
<1>6. Range(allStaffs') = Range(allStaffs) \ {staff}
  <2>1. ASSUME NEW i \in 1..n - 1
        PROVE  allStaffs'[i] \in Range(allStaffs) \ {staff}
    <3>1. i \in 1..n /\ n \in 1..n /\ index + 1 \in 1..n /\ i # n
      BY <1>1, <1>4
    <3>2. allStaffs[i] \in Range(allStaffs) /\ allStaffs[n] \in Range(allStaffs)
      BY <1>1, <3>1 DEF Range
    <3>3. CASE i = index + 1
      <4>1. allStaffs[n] # staff
        BY <1>4, <1>5, <3>1, <3>3
      <4> QED BY <1>1, <3>2, <3>3, <4>1
    <3>4. CASE i # index + 1
      <4>1. allStaffs[i] # staff
        BY <1>4, <1>5, <3>1, <3>4
      <4> QED BY <1>1, <3>2, <3>4, <4>1
    <3> QED BY <3>3, <3>4
  <2>2. ASSUME NEW i \in 1..n, allStaffs[i] # staff
        PROVE  allStaffs[i] \in Range(allStaffs')
    <3>1. i # index + 1
      BY <1>4, <2>2
    <3>2. CASE i = n
      <4>1. index + 1 \in 1..n - 1 /\ allStaffs'[index + 1] = allStaffs[i]
        BY <1>1, <1>4, <3>1, <3>2
      <4> QED BY <1>1, <4>1 DEF Range
    <3>3. CASE i # n
      <4>1. i \in 1..n - 1 /\ allStaffs'[i] = allStaffs[i]
        BY <1>1, <3>1, <3>3
      <4> QED BY <1>1, <4>1 DEF Range
    <3> QED BY <3>2, <3>3
  <2>3. ASSUME NEW a \in Range(allStaffs')
        PROVE  a \in Range(allStaffs) \ {staff}
    <3>1. PICK i \in 1..n - 1 : allStaffs'[i] = a
      BY <1>1, <2>3 DEF Range
    <3> QED BY <2>1, <3>1
  <2>4. ASSUME NEW a \in Range(allStaffs), a # staff
        PROVE  a \in Range(allStaffs')
    <3>1. PICK i \in 1..n : allStaffs[i] = a
      BY <1>1, <2>4 DEF Range
    <3> QED BY <2>2, <2>4, <3>1
  <2> QED BY <2>3, <2>4
<1>7. IndexExact'
  <2> SUFFICES ASSUME NEW i \in 1..n - 1
               PROVE  staffLength'[allStaffs'[i]] = i - 1
    BY <1>1 DEF IndexExact
  <2>1. i \in 1..n /\ n \in 1..n
    BY <1>1
  <2>2. CASE i = index + 1
    <3>1. allStaffs'[i] = last /\ last # staff
      BY <1>1, <1>4, <1>5, <2>1, <2>2
    <3>2. staffLength'[last] = index
      BY <1>1, <3>1
    <3>3. index \in Nat
      BY <1>1 DEF index
    <3>4. i - 1 = index
      BY <2>2, <3>3
    <3> QED BY <3>1, <3>2, <3>4
  <2>3. CASE i # index + 1
    <3>1. allStaffs'[i] = allStaffs[i] /\ allStaffs[i] # last /\ allStaffs[i] # staff
      BY <1>1, <1>4, <1>5, <2>1, <2>3
    <3>2. staffLength'[allStaffs[i]] = staffLength[allStaffs[i]]
      BY <1>1, <2>1, <3>1
    <3> QED BY <1>3, <2>1, <3>1, <3>2
  <2> QED BY <2>2, <2>3
<1> QED BY <1>2, <1>6, <1>7 DEF RemoveStaff, SalaryDeleted

-----------------------------------------------------------------------------
(***************************************************************************)
(* The two calls of a careful owner, once they are taken apart.            *)
(***************************************************************************)
LEMMA CarefulAddKeeps ==
  ASSUME CarefulInv, CarefulAdd
  PROVE  CarefulInv'
<1>1. PICK staff \in Batches(Address), amount \in Batches(Amount) :
        /\ \A i \in DOMAIN staff : ~Listed(staff[i])
        /\ IsInjective(staff)
        /\ AddStaff(Owner, staff, amount)
  BY DEF CarefulAdd
<1>2. staff \in Seq(Address) /\ amount \in Seq(Amount)
  BY BatchIsSequence
<1>3. /\ RegistryTypeOK' /\ IndexExact'
      /\ Range(allStaffs') = Range(allStaffs) \cup Range(staff)
      /\ \A a \in Range(staff) : profile'[a] = Salary'[a]
      /\ \A a \in Address \ Range(staff) :
           Salary'[a] = Salary[a] /\ profile'[a] = profile[a]
  BY <1>1, <1>2, CarefulAddEffect
<1>4. PayrollExact'
  BY <1>3 DEF CarefulInv, PayrollExact, Listed
<1> QED BY <1>3, <1>4 DEF CarefulInv

LEMMA CarefulRemoveKeeps ==
  ASSUME CarefulInv, CarefulRemove
  PROVE  CarefulInv'
<1>1. PICK staff \in Address : Listed(staff) /\ RemoveStaff(Owner, staff)
  BY DEF CarefulRemove
<1>2. /\ RegistryTypeOK' /\ IndexExact'
      /\ Range(allStaffs') = Range(allStaffs) \ {staff}
      /\ Salary' = [Salary EXCEPT ![staff] = 0]
      /\ profile' = profile
  BY <1>1, CarefulRemoveEffect
<1>3. Salary \in [Address -> Amount \cup {0}]
  BY DEF CarefulInv, RegistryTypeOK
<1>4. PayrollExact'
  BY <1>2, <1>3 DEF CarefulInv, PayrollExact, Listed
<1> QED BY <1>2, <1>4 DEF CarefulInv

LEMMA CarefulInvariant == CarefulSpec => []CarefulInv
<1>1. RegistryInit => CarefulInv
  BY DEF RegistryInit, CarefulInv, RegistryTypeOK, IndexExact, PayrollExact, Listed, Range
<1>2. CarefulInv /\ [CarefulNext]_registryVars => CarefulInv'
  <2> SUFFICES ASSUME CarefulInv, [CarefulNext]_registryVars
               PROVE  CarefulInv'
    OBVIOUS
  <2>1. CASE CarefulNext
    BY <2>1, CarefulAddKeeps, CarefulRemoveKeeps DEF CarefulNext
  <2>2. CASE UNCHANGED registryVars
    BY <2>2 DEF registryVars, CarefulInv, RegistryTypeOK, IndexExact, PayrollExact, Listed
  <2> QED BY <2>1, <2>2
<1> QED BY <1>1, <1>2, PTL DEF CarefulSpec

\* With a careful owner every listed account is listed once, at its index.
THEOREM IndicesExact == CarefulSpec => []IndexExact
<1>1. CarefulInv => IndexExact
  BY DEF CarefulInv
<1> QED BY <1>1, CarefulInvariant, PTL

\* With a careful owner the salary that is shown is the salary that is paid.
THEOREM PayrollsExact == CarefulSpec => []PayrollExact
<1>1. CarefulInv => PayrollExact
  BY DEF CarefulInv
<1> QED BY <1>1, CarefulInvariant, PTL

-----------------------------------------------------------------------------
(***************************************************************************)
(* The refinement: addStaff is Hire of the accounts of the batch, and      *)
(* removeStaff is Dismiss.                                                 *)
(***************************************************************************)
LEMMA InitiallyRoster == RegistryInit => Abstract!RosterInit
BY DEF RegistryInit, Abstract!RosterInit, Payroll, Range

LEMMA AddIsHire ==
  ASSUME CarefulInv, CarefulAdd
  PROVE  Abstract!RosterNext
<1>1. PICK staff \in Batches(Address), amount \in Batches(Amount) :
        /\ \A i \in DOMAIN staff : ~Listed(staff[i])
        /\ IsInjective(staff)
        /\ AddStaff(Owner, staff, amount)
  BY DEF CarefulAdd
<1>2. staff \in Seq(Address) /\ amount \in Seq(Amount)
  BY BatchIsSequence
<1> DEFINE S == Range(staff)
           salary == [a \in S |-> Salary'[a]]
<1>3. /\ Range(allStaffs') = Range(allStaffs) \cup S
      /\ Range(allStaffs) \cap S = {}
      /\ \A a \in S : Salary'[a] \in Amount
      /\ \A a \in Address \ S : Salary'[a] = Salary[a]
      /\ removed' = removed
  BY <1>1, <1>2, CarefulAddEffect
<1>4. S \in SUBSET Address /\ salary \in [S -> Amount]
  <2>1. S \subseteq Address
    BY <1>2 DEF Range
  <2> QED BY <1>3, <2>1
<1>5. Range(allStaffs) \subseteq Address
  BY DEF CarefulInv, RegistryTypeOK, Range
<1> HIDE DEF S
<1>6. Payroll' = [a \in Range(allStaffs) \cup S |->
                   IF a \in S THEN salary[a] ELSE Payroll[a]]
  BY <1>3, <1>5 DEF Payroll
<1>7. Abstract!Hire(S, salary)
  BY <1>3, <1>6 DEF Abstract!Hire, Abstract!Staff, Payroll
<1> QED BY <1>4, <1>7 DEF Abstract!RosterNext

LEMMA RemoveIsDismiss ==
  ASSUME CarefulInv, CarefulRemove
  PROVE  Abstract!RosterNext
<1>1. PICK staff \in Address : Listed(staff) /\ RemoveStaff(Owner, staff)
  BY DEF CarefulRemove
<1>2. /\ Range(allStaffs') = Range(allStaffs) \ {staff}
      /\ Salary' = [Salary EXCEPT ![staff] = 0]
      /\ removed' = staff
  BY <1>1, CarefulRemoveEffect
<1>3. Range(allStaffs) \subseteq Address /\ Salary \in [Address -> Amount \cup {0}]
  BY DEF CarefulInv, RegistryTypeOK, Range
<1>4. Payroll' = [b \in Range(allStaffs) \ {staff} |-> Payroll[b]]
  BY <1>2, <1>3 DEF Payroll
<1>5. Abstract!Dismiss(staff)
  BY <1>1, <1>2, <1>4 DEF Abstract!Dismiss, Abstract!Staff, Payroll, Listed
<1> QED BY <1>5 DEF Abstract!RosterNext

\* With a careful owner the array, its exchanges and its indices implement a
\* payroll from which removeStaff takes exactly the member it names.
THEOREM RegistryImplementsRoster == CarefulSpec => ImplementsRoster
<1>1. CarefulInv /\ [CarefulNext]_registryVars => [Abstract!RosterNext]_(Abstract!rosterVars)
  <2> SUFFICES ASSUME CarefulInv, [CarefulNext]_registryVars
               PROVE  [Abstract!RosterNext]_(Abstract!rosterVars)
    OBVIOUS
  <2>1. CASE CarefulNext
    BY <2>1, AddIsHire, RemoveIsDismiss DEF CarefulNext
  <2>2. CASE UNCHANGED registryVars
    BY <2>2 DEF registryVars, Abstract!rosterVars, Payroll
  <2> QED BY <2>1, <2>2
<1> QED BY <1>1, InitiallyRoster, CarefulInvariant, PTL
     DEF CarefulSpec, ImplementsRoster, Abstract!RosterSpec

USE AttendanceAssumption

-----------------------------------------------------------------------------
(***************************************************************************)
(* The attendance, and its invariant.  DayInv ties the two flags to the    *)
(* history: a credit has been given for the current day exactly if         *)
(* dailyAttendance is set, and an account that marked on the current day   *)
(* carries its mark.                                                       *)
(***************************************************************************)
DayInv ==
  /\ dailyAttendance <=> opened \in DaysAttended
  /\ \A a \in Address : opened \in attended[a] => attendanceMarked[a]

AttendanceInv ==
  /\ AttendanceTypeOK
  /\ DayInv
  /\ OneCreditPerDay
  /\ CreditsAreEarned
  /\ DaysApart

LEMMA AttendanceInitially == AttendanceInit => AttendanceInv
<1> SUFFICES ASSUME AttendanceInit
             PROVE  AttendanceInv
  OBVIOUS
<1>1. AttendanceTypeOK
  BY DEF AttendanceInit, AttendanceTypeOK
<1>2. DaysAttended = {}
  BY DEF AttendanceInit, DaysAttended
<1>3. Total(attendanceCounter) = 0
  BY TotalBounds DEF AttendanceInit
<1>4. Cardinality({}) = 0
  BY FS_EmptySet
<1>5. OneCreditPerDay
  BY <1>2, <1>3, <1>4 DEF OneCreditPerDay
<1>6. CreditsAreEarned
  BY <1>4 DEF AttendanceInit, CreditsAreEarned
<1> QED BY <1>1, <1>2, <1>5, <1>6
     DEF AttendanceInit, AttendanceInv, DayInv, DaysApart

\* The days are finite sets of numbers up to the current day.
LEMMA DaysFinite ==
  ASSUME AttendanceTypeOK
  PROVE  /\ IsFiniteSet(DaysAttended) /\ DaysAttended \subseteq 0 .. opened
         /\ Cardinality(DaysAttended) \in Nat
         /\ \A a \in Address : /\ IsFiniteSet(attended[a])
                               /\ Cardinality(attended[a]) \in Nat
<1>1. opened \in Nat /\ IsFiniteSet(0 .. opened)
  <2>1. 0 \in Int /\ opened \in Int
    BY DEF AttendanceTypeOK
  <2> QED BY <2>1, FS_Interval DEF AttendanceTypeOK
<1>2. DaysAttended \subseteq 0 .. opened
  BY DEF AttendanceTypeOK, DaysAttended
<1>3. \A a \in Address : attended[a] \in SUBSET (0 .. opened)
  BY DEF AttendanceTypeOK
<1> QED BY <1>1, <1>2, <1>3, FS_Subset, FS_CardinalityType

LEMMA OpenAttendanceKeeps ==
  ASSUME AttendanceInv, NEW caller \in Address, OpenAttendance(caller)
  PROVE  AttendanceInv'
<1>1. /\ opened \in Nat /\ opened' = opened + 1
      /\ now \in Nat /\ lastResetTimestamp \in Nat
      /\ attended' = attended /\ attendanceCounter' = attendanceCounter
      /\ attended \in [Address -> SUBSET (0 .. opened)]
  BY DEF AttendanceInv, AttendanceTypeOK, OpenAttendance, NewDay
<1>2. AttendanceTypeOK'
  <2>1. \A a \in Address : attended[a] \in SUBSET (0 .. opened + 1)
    BY <1>1
  <2>2. attended' \in [Address -> SUBSET (0 .. opened')]
    BY <1>1, <2>1
  <2>3. attendanceMarked' \in [Address -> BOOLEAN]
    <3>1. attendanceMarked' = [a \in Address |-> ~Listed(a) /\ attendanceMarked[a]]
      BY DEF OpenAttendance, NewDay
    <3>2. \A a \in Address : (~Listed(a) /\ attendanceMarked[a]) \in BOOLEAN
      OBVIOUS
    <3> QED BY <3>1, <3>2, Zenon
  <2>4. dailyAttendance' \in BOOLEAN /\ now' \in Nat /\ lastResetTimestamp' \in Nat
    BY <1>1 DEF OpenAttendance, NewDay
  <2>5. attendanceCounter' \in [Address -> Nat]
    BY <1>1 DEF AttendanceInv, AttendanceTypeOK
  <2>6. opened' \in Nat
    BY <1>1
  <2> QED BY <2>2, <2>3, <2>4, <2>5, <2>6 DEF AttendanceTypeOK
<1>3. DayInv'
  <2>1. \A a \in Address : opened + 1 \notin attended[a]
    BY <1>1
  <2> QED BY <1>1, <2>1 DEF DayInv, DaysAttended, OpenAttendance, NewDay
<1>4. OneCreditPerDay' /\ CreditsAreEarned'
  BY <1>1 DEF AttendanceInv, OneCreditPerDay, CreditsAreEarned, DaysAttended
<1>5. DaysApart'
  <2>1. lastResetTimestamp' = now /\ now' = now /\ now - lastResetTimestamp >= Interval
    BY DEF OpenAttendance, NewDay
  <2>2. (opened + 1) * Interval = opened * Interval + Interval
    BY <1>1
  <2>3. opened * Interval \in Nat /\ opened * Interval <= lastResetTimestamp
    BY <1>1 DEF AttendanceInv, DaysApart
  <2> QED BY <1>1, <2>1, <2>2, <2>3 DEF DaysApart
<1> QED BY <1>2, <1>3, <1>4, <1>5 DEF AttendanceInv

LEMMA MarkAttendanceKeeps ==
  ASSUME AttendanceInv, NEW caller \in Address, MarkAttendance(caller)
  PROVE  AttendanceInv'
<1>1. /\ opened \in Nat /\ opened' = opened
      /\ attended \in [Address -> SUBSET (0 .. opened)]
      /\ attended' = [attended EXCEPT ![caller] = attended[caller] \cup {opened}]
      /\ attendanceCounter \in [Address -> Nat]
      /\ AttendanceTypeOK /\ DayInv
  BY DEF AttendanceInv, AttendanceTypeOK, MarkAttendance, Marked, Credited
<1>2. AttendanceTypeOK'
  <2>1. attended' \in [Address -> SUBSET (0 .. opened)]
    BY <1>1
  <2> QED BY <1>1, <2>1 DEF AttendanceTypeOK, MarkAttendance, Marked, Credited
<1>3. DaysAttended' = DaysAttended \cup {opened}
  BY <1>1 DEF DaysAttended
<1>4. DayInv'
  <2>1. dailyAttendance' = TRUE
        /\ attendanceMarked' = [attendanceMarked EXCEPT ![caller] = TRUE]
    BY DEF MarkAttendance, Marked, Credited
  <2> QED BY <1>1, <1>3, <2>1 DEF DayInv, AttendanceTypeOK
<1>5. opened \notin attended[caller]
  BY <1>1 DEF DayInv, MarkAttendance, Marked, Credited
<1>6. /\ Cardinality(attended'[caller]) = Cardinality(attended[caller]) + 1
      /\ \A a \in Address : a # caller => attended'[a] = attended[a]
  <2>1. IsFiniteSet(attended[caller])
    BY <1>1, DaysFinite
  <2>2. attended'[caller] = attended[caller] \cup {opened}
    BY <1>1
  <2> QED BY <1>1, <1>5, <2>1, <2>2, FS_AddElement
<1>7. CASE dailyAttendance
  <2>1. DaysAttended' = DaysAttended
    BY <1>1, <1>3, <1>7 DEF DayInv
  <2>2. attendanceCounter' = attendanceCounter
    BY <1>7 DEF MarkAttendance, Marked, Credited
  <2>3. OneCreditPerDay'
    BY <2>1, <2>2 DEF AttendanceInv, OneCreditPerDay
  <2>4. CreditsAreEarned'
    BY <1>1, <1>6, <2>2, DaysFinite DEF AttendanceInv, CreditsAreEarned
  <2> QED BY <1>1, <1>2, <1>4, <2>3, <2>4 DEF AttendanceInv, DaysApart, MarkAttendance, Marked, Credited
<1>8. CASE ~dailyAttendance
  <2>1. Cardinality(DaysAttended') = Cardinality(DaysAttended) + 1
    <3>1. opened \notin DaysAttended
      BY <1>1, <1>8 DEF DayInv
    <3> QED BY <1>1, <1>3, <3>1, DaysFinite, FS_AddElement
  <2>2. /\ attendanceCounter' \in [Address -> Nat]
        /\ attendanceCounter'[caller] = attendanceCounter[caller] + 1
        /\ \A a \in Address : a # caller => attendanceCounter'[a] = attendanceCounter[a]
    BY <1>1, <1>8 DEF MarkAttendance, Marked, Credited
  <2>3. Total(attendanceCounter') = Total(attendanceCounter) + 1
    <3>1. \A f, g \in [Address -> Nat], b \in Address :
            (\A c \in Address : c # b => g[c] = f[c]) =>
              Total(g) = Total(f) - f[b] + g[b]
      BY TotalUpdate
    <3>2. Total(attendanceCounter') = Total(attendanceCounter)
            - attendanceCounter[caller] + attendanceCounter'[caller]
      BY <1>1, <2>2, <3>1
    <3>3. Total(attendanceCounter) \in Nat
      BY <1>1, UnitsFinite
    <3> QED BY <1>1, <2>2, <3>2, <3>3
  <2>4. OneCreditPerDay'
    BY <2>1, <2>3 DEF AttendanceInv, OneCreditPerDay
  <2>5. CreditsAreEarned'
    BY <1>1, <1>6, <2>2, DaysFinite DEF AttendanceInv, CreditsAreEarned
  <2> QED BY <1>1, <1>2, <1>4, <2>4, <2>5 DEF AttendanceInv, DaysApart, MarkAttendance, Marked, Credited
<1> QED BY <1>7, <1>8

LEMMA OfficeStepKeeps ==
  ASSUME AttendanceInv, [OfficeNext]_officeVars
  PROVE  AttendanceInv'
<1> USE DEF AttendanceInv, AttendanceTypeOK, DayInv, OneCreditPerDay, CreditsAreEarned,
            DaysApart, DaysAttended
<1>1. CASE Tick
  BY <1>1 DEF Tick
<1>2. CASE UNCHANGED attendanceVars
  BY <1>2 DEF attendanceVars
<1>3. CASE \E caller \in Address : OpenAttendance(caller) \/ MarkAttendance(caller)
  BY <1>3, OpenAttendanceKeeps, MarkAttendanceKeeps
<1> QED BY <1>1, <1>2, <1>3 DEF OfficeNext, AttendanceNext, officeVars

LEMMA AttendanceInvariant == OfficeSpec => []AttendanceInv
<1>1. OfficeInit => AttendanceInv
  BY AttendanceInitially DEF OfficeInit
<1>2. AttendanceInv /\ [OfficeNext]_officeVars => AttendanceInv'
  BY OfficeStepKeeps
<1> QED BY <1>1, <1>2, PTL DEF OfficeSpec

\* The attendance does nothing to the registry.
LEMMA OfficeHasRegistry == OfficeSpec => RegistrySpec
<1>1. OfficeInit => RegistryInit
  BY DEF OfficeInit
<1>2. [OfficeNext]_officeVars => [RegistryNext]_registryVars
  BY DEF OfficeNext, officeVars
<1> QED BY <1>1, <1>2, PTL DEF OfficeSpec, RegistrySpec

\* Registry and attendance keep their types; the subtraction of openAttendance
\* is of a smaller time from a later one.
THEOREM OfficeTypeCorrect == OfficeSpec => []OfficeTypeOK
<1>1. AttendanceInv /\ RegistryTypeOK => OfficeTypeOK
  BY DEF AttendanceInv, OfficeTypeOK
<1> QED BY <1>1, OfficeHasRegistry, RegistryTypeCorrect, AttendanceInvariant, PTL

\* The indices are sound while days are opened and marked.
THEOREM OfficeIndicesSound == OfficeSpec => []IndexSound
<1> QED BY OfficeHasRegistry, IndicesSound, PTL

\* Every day on which anyone marked has been credited to exactly one account.
THEOREM CreditsAddUp == OfficeSpec => []OneCreditPerDay
<1>1. AttendanceInv => OneCreditPerDay
  BY DEF AttendanceInv
<1> QED BY <1>1, AttendanceInvariant, PTL

\* No account has more credits than days on which it marked.
THEOREM CreditsEarned == OfficeSpec => []CreditsAreEarned
<1>1. AttendanceInv => CreditsAreEarned
  BY DEF AttendanceInv
<1> QED BY <1>1, AttendanceInvariant, PTL

\* Days are opened an interval apart.
THEOREM OpeningsApart == OfficeSpec => []DaysApart
<1>1. AttendanceInv => DaysApart
  BY DEF AttendanceInv
<1> QED BY <1>1, AttendanceInvariant, PTL

\* No account marks twice on a day.
THEOREM MarksOnce == OfficeSpec => OncePerDay
<1>1. AttendanceInv =>
        \A a \in Address : MarkAttendance(a) => opened \notin attended[a]
  BY DEF AttendanceInv, DayInv, MarkAttendance, Marked, Credited
<1> QED BY <1>1, AttendanceInvariant, PTL DEF OncePerDay

-----------------------------------------------------------------------------
(***************************************************************************)
(* The attendance implements DayBook: an opening turns the page, a mark    *)
(* signs it, and hirings, removals and later blocks change nothing there.  *)
(***************************************************************************)
LEMMA OpenIsTurnPage ==
  ASSUME AttendanceInv, NEW caller \in Address, OpenAttendance(caller)
  PROVE  Book!TurnPage
<1>1. /\ opened' = opened + 1 /\ attended' = attended
      /\ attendanceCounter' = attendanceCounter
      /\ opened \in Nat /\ attended \in [Address -> SUBSET (0 .. opened)]
  BY DEF OpenAttendance, AttendanceInv, AttendanceTypeOK
<1>2. \A a \in Address : opened + 1 \notin attended[a]
  BY <1>1
<1>3. MarkedToday' = {}
  BY <1>1, <1>2 DEF MarkedToday
<1> QED BY <1>1, <1>3 DEF Book!TurnPage

\* dailyAttendance says whether the page is empty, and the mark whether the
\* caller is on it.
LEMMA MarkIsSign ==
  ASSUME AttendanceInv, NEW caller \in Address, MarkAttendance(caller)
  PROVE  Book!Sign(caller)
<1>1. /\ ~attendanceMarked[caller]
      /\ opened' = opened
      /\ attended' = [attended EXCEPT ![caller] = @ \cup {opened}]
      /\ attendanceCounter' = IF dailyAttendance THEN attendanceCounter
                              ELSE [attendanceCounter EXCEPT ![caller] = @ + 1]
      /\ attended \in [Address -> SUBSET (0 .. opened)]
  BY DEF MarkAttendance, Credited, AttendanceInv, AttendanceTypeOK
<1>2. caller \notin MarkedToday
  BY <1>1 DEF AttendanceInv, DayInv, MarkedToday
<1>3. MarkedToday' = MarkedToday \cup {caller}
  BY <1>1 DEF MarkedToday
<1>4. dailyAttendance <=> MarkedToday # {}
  BY DEF AttendanceInv, DayInv, DaysAttended, MarkedToday
<1> QED BY <1>1, <1>2, <1>3, <1>4 DEF Book!Sign

\* Each account signs for a day at most once and the first to do so has the
\* credit, over any calls of the registry in between.
THEOREM OfficeImplementsDayBook == OfficeSpec => ImplementsDayBook
<1>1. OfficeInit => Book!BookInit
  BY DEF OfficeInit, AttendanceInit, MarkedToday, Book!BookInit
<1>2. AttendanceInv /\ [OfficeNext]_officeVars => [Book!BookNext]_(Book!bookVars)
  <2> SUFFICES ASSUME AttendanceInv, [OfficeNext]_officeVars
               PROVE  [Book!BookNext]_(Book!bookVars)
    OBVIOUS
  <2>1. ASSUME UNCHANGED <<opened, attended, attendanceCounter>>
        PROVE  UNCHANGED Book!bookVars
    BY <2>1 DEF Book!bookVars, MarkedToday
  <2>2. CASE UNCHANGED officeVars \/ Tick \/ UNCHANGED attendanceVars
    BY <2>1, <2>2 DEF officeVars, attendanceVars, Tick
  <2>3. CASE \E caller \in Address : OpenAttendance(caller) \/ MarkAttendance(caller)
    BY <2>3, OpenIsTurnPage, MarkIsSign DEF Book!BookNext
  <2> QED BY <2>2, <2>3 DEF OfficeNext, AttendanceNext
<1> QED BY <1>1, <1>2, AttendanceInvariant, PTL
     DEF OfficeSpec, ImplementsDayBook, Book!BookSpec

=============================================================================
