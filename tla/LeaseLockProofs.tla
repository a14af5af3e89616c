-------------------------- MODULE LeaseLockProofs --------------------------
(***************************************************************************)
(* Proofs about the database lease, for any number of processes and any    *)
(* lease of at least two refresh intervals.                                *)
(***************************************************************************)
EXTENDS LeaseLock, TLAPS

\* What the database last granted a node is the row while it lasts.
GrantIsRow == \A n \in Node : granted[n] >= 0 => owner = n /\ granted[n] = left

\* The row of a node that has not heard of its first grant is its own for the
\* rest of the term.
Awaited ==
  \A n \in Node : phase[n] = "granted" /\ lag[n] < LeaseDuration =>
    owner = n /\ left >= LeaseDuration - lag[n]

\* The row of a node that holds the lease outlasts the ticks until the refresh
\* after the next one, less the lag of its ticker.
Lasting ==
  \A n \in Node : phase[n] = "holding" =>
    /\ late[n] = 0 /\ lag[n] + RefreshInterval <= LeaseDuration =>
         owner = n /\ left >= LeaseDuration - lag[n] - RefreshInterval + due[n]
    /\ late[n] = 1 /\ lag[n] + 2 * RefreshInterval <= LeaseDuration =>
         owner = n /\ left >= LeaseDuration - lag[n] - 2 * RefreshInterval + due[n]

LeaseInv == LeaseTypeOK /\ GrantIsRow /\ Awaited /\ Lasting

-----------------------------------------------------------------------------
\* Every step keeps the types: see LeaseTypeOK.
LEMMA TypeStep ==
  ASSUME LeaseTypeOK, [LeaseNext]_leaseVars
  PROVE  LeaseTypeOK'
<1> USE LeaseAssumption
<1> USE DEF LeaseTypeOK, Phase
<1>1. CASE Tick
  <2>1. left' \in -1 .. LeaseDuration
    BY <1>1 DEF Tick, Less
  <2>2. granted' \in [Node -> -1 .. LeaseDuration]
    BY <1>1 DEF Tick, Less
  <2>5. lag' \in [Node -> 0 .. LeaseDuration]
    BY <1>1 DEF Tick
  <2>3. due' \in [Node -> 0 .. RefreshInterval]
    BY <1>1 DEF Tick
  <2>4. late' \in [Node -> 0 .. 2]
    BY <1>1 DEF Tick
  <2> QED
    BY <2>1, <2>2, <2>3, <2>4, <2>5, <1>1 DEF Tick
<1>2. ASSUME NEW n \in Node, Upsert(n)
      PROVE  /\ owner' \in Node \cup {NoNode}
             /\ left' \in -1 .. LeaseDuration
             /\ granted' \in [Node -> -1 .. LeaseDuration]
  BY <1>2 DEF Upsert, NewExpiry
<1>3. ASSUME NEW n \in Node, Start(n) \/ Crash(n) \/ AskAgain(n)
      PROVE  LeaseTypeOK'
  BY <1>3 DEF Start, Crash, Forgets, AskAgain
<1>4. ASSUME NEW n \in Node, Take(n)
      PROVE  LeaseTypeOK'
  BY <1>2, <1>4 DEF Take
<1>5. ASSUME NEW n \in Node, Hold(n) \/ HoldUnsure(n)
      PROVE  LeaseTypeOK'
  BY <1>5 DEF Hold, HoldUnsure, LoopStarts
<1>6. ASSUME NEW n \in Node, Refresh(n)
      PROVE  LeaseTypeOK'
  BY <1>2, <1>6 DEF Refresh
<1>7. ASSUME NEW n \in Node, RefreshUnsure(n)
      PROVE  LeaseTypeOK'
  BY <1>2, <1>7 DEF RefreshUnsure
<1>8. ASSUME NEW n \in Node, RefreshRefused(n)
      PROVE  LeaseTypeOK'
  BY <1>8 DEF RefreshRefused, Fatal, Forgets
<1>9. ASSUME NEW n \in Node, Release(n)
      PROVE  LeaseTypeOK'
  BY <1>9 DEF Release, Forgets
<1>10. CASE UNCHANGED leaseVars
  BY <1>10 DEF leaseVars
<1> QED
  BY <1>1, <1>3, <1>4, <1>5, <1>6, <1>7, <1>8, <1>9, <1>10 DEF LeaseNext

\* A node that Lasting promises nothing any more.
Overdue(n) ==
  /\ late[n] = 0 => lag[n] + RefreshInterval > LeaseDuration
  /\ late[n] = 1 => lag[n] + 2 * RefreshInterval > LeaseDuration

\* A committed upsert under the condition of its WHERE makes the row the
\* node's for a whole term, and finds no other node within a term of its own.
LEMMA UpsertStep ==
  ASSUME LeaseInv, NEW n \in Node, Free(n), Upsert(n)
  PROVE  /\ GrantIsRow'
         /\ owner' = n /\ left' = LeaseDuration
         /\ \A m \in Node \ {n} : /\ phase[m] = "granted" => lag[m] = LeaseDuration
                                  /\ phase[m] = "holding" => Overdue(m)
<1> USE LeaseAssumption
<1>1. owner' = n /\ left' = LeaseDuration
  BY DEF Upsert, NewExpiry
<1>2. ASSUME NEW m \in Node \ {n}
      PROVE  granted[m] < 0
  BY <1>2 DEF LeaseInv, GrantIsRow, Free, LeaseTypeOK
<1>3. ASSUME NEW m \in Node \ {n}, phase[m] = "holding"
      PROVE  Overdue(m)
  BY <1>3 DEF LeaseInv, Lasting, Overdue, Free, LeaseTypeOK
<1>5. ASSUME NEW m \in Node \ {n}, phase[m] = "granted"
      PROVE  lag[m] = LeaseDuration
  BY <1>5 DEF LeaseInv, Awaited, Free, LeaseTypeOK
<1>4. GrantIsRow'
  BY <1>1, <1>2 DEF GrantIsRow, Upsert, NewExpiry, LeaseInv, LeaseTypeOK
<1> QED
  BY <1>1, <1>3, <1>4, <1>5

\* Every step keeps the grants in line with the row.
LEMMA GrantStep ==
  ASSUME LeaseInv, [LeaseNext]_leaseVars
  PROVE  GrantIsRow'
<1> USE LeaseAssumption
<1>1. CASE Tick
  BY <1>1 DEF Tick, Less, LeaseInv, GrantIsRow, LeaseTypeOK
<1>2. CASE UNCHANGED <<owner, left, granted>>
  BY <1>2 DEF LeaseInv, GrantIsRow
<1>3. ASSUME NEW n \in Node, Release(n)
      PROVE  GrantIsRow'
  BY <1>3 DEF Release, LeaseInv, GrantIsRow, LeaseTypeOK
<1>4. ASSUME NEW n \in Node, Free(n), Upsert(n)
      PROVE  GrantIsRow'
  BY <1>4, UpsertStep
<1>5. ASSUME NEW n \in Node,
             Take(n) \/ Refresh(n) \/ RefreshUnsure(n)
      PROVE  GrantIsRow'
  BY <1>4, <1>5 DEF Take, Refresh, RefreshUnsure
<1>6. ASSUME NEW n \in Node, \/ Start(n) \/ Hold(n) \/ HoldUnsure(n) \/ AskAgain(n)
                              \/ RefreshRefused(n) \/ Crash(n)
      PROVE  GrantIsRow'
  BY <1>2, <1>6 DEF Start, Hold, HoldUnsure, AskAgain, RefreshRefused, Crash
<1> QED
  BY <1>1, <1>2, <1>3, <1>5, <1>6 DEF LeaseNext, leaseVars

\* Every step leaves a node that waits for its first answer the rest of the term.
LEMMA AwaitedStep ==
  ASSUME LeaseInv, [LeaseNext]_leaseVars
  PROVE  Awaited'
<1> USE LeaseAssumption
<1>1. CASE Tick
  <2> SUFFICES ASSUME NEW n \in Node, phase'[n] = "granted", lag'[n] < LeaseDuration
               PROVE  owner' = n /\ left' >= LeaseDuration - lag'[n]
    BY DEF Awaited
  <2>1. /\ phase[n] = "granted"
        /\ owner' = owner
        /\ left' = IF left < 0 THEN left ELSE left - 1
        /\ lag'[n] = IF lag[n] < LeaseDuration THEN lag[n] + 1 ELSE lag[n]
    BY <1>1 DEF Tick, Less
  <2>2. left \in Int /\ lag[n] \in Nat
    BY DEF LeaseInv, LeaseTypeOK
  <2>3. lag[n] < LeaseDuration => owner = n /\ left >= LeaseDuration - lag[n]
    BY <2>1 DEF LeaseInv, Awaited
  <2> QED
    BY <2>1, <2>2, <2>3
<1>2. ASSUME NEW n \in Node, Free(n), Upsert(n),
             \A m \in Node \ {n} : phase'[m] = phase[m] /\ lag'[m] = lag[m],
             phase'[n] = "granted" => lag'[n] = 0
      PROVE  Awaited'
  <2>1. /\ owner' = n /\ left' = LeaseDuration
        /\ \A m \in Node \ {n} : /\ phase[m] = "granted" => lag[m] = LeaseDuration
                                 /\ phase[m] = "holding" => Overdue(m)
    BY <1>2, UpsertStep
  <2>2. ASSUME NEW m \in Node \ {n}, phase'[m] = "granted"
        PROVE  ~(lag'[m] < LeaseDuration)
    <3>1. phase[m] = "granted" /\ lag'[m] = lag[m]
      BY <1>2, <2>2
    <3>2. lag[m] = LeaseDuration
      BY <2>1, <3>1
    <3> QED
      BY <3>1, <3>2
  <2>3. phase'[n] = "granted" => left' >= LeaseDuration - lag'[n]
    BY <1>2, <2>1
  <2> QED
    BY <2>1, <2>2, <2>3 DEF Awaited
<1>3. ASSUME NEW n \in Node, Take(n) \/ Refresh(n) \/ RefreshUnsure(n)
      PROVE  Awaited'
  BY <1>2, <1>3
     DEF Take, Refresh, RefreshUnsure, Fired, Runs, LeaseInv, LeaseTypeOK
<1>4. ASSUME NEW n \in Node, \/ Start(n) \/ Hold(n) \/ HoldUnsure(n) \/ AskAgain(n)
                             \/ RefreshRefused(n) \/ Crash(n)
      PROVE  Awaited'
  <2>1. /\ UNCHANGED <<owner, left>>
        /\ \A m \in Node : phase'[m] = "granted" => phase[m] = "granted" /\ lag'[m] = lag[m]
    BY <1>4 DEF Start, Hold, HoldUnsure, LoopStarts, AskAgain, RefreshRefused, Fatal,
                Crash, Forgets, LeaseInv, LeaseTypeOK
  <2> QED
    BY <2>1 DEF Awaited, LeaseInv
<1>5. ASSUME NEW n \in Node, Release(n)
      PROVE  Awaited'
  <2>1. /\ owner' = owner
        /\ owner # n => left' = left
        /\ phase[n] # "granted"
        /\ \A m \in Node : phase'[m] = "granted" =>
             m # n /\ phase[m] = "granted" /\ lag'[m] = lag[m]
    BY <1>5 DEF Release, Runs, Forgets, LeaseInv, LeaseTypeOK
  <2> QED
    BY <2>1 DEF Awaited, LeaseInv
<1>6. CASE UNCHANGED leaseVars
  BY <1>6 DEF leaseVars, LeaseInv, Awaited
<1> QED
  BY <1>1, <1>3, <1>4, <1>5, <1>6 DEF LeaseNext

\* Every step leaves a holder the time until its refresh after next.
LEMMA LastingStep ==
  ASSUME LeaseInv, [LeaseNext]_leaseVars
  PROVE  Lasting'
<1> USE LeaseAssumption
<1>1. CASE Tick
  <2> SUFFICES ASSUME NEW n \in Node, phase'[n] = "holding"
               PROVE  /\ late'[n] = 0 /\ lag'[n] + RefreshInterval <= LeaseDuration =>
                           /\ owner' = n
                           /\ left' >= LeaseDuration - lag'[n] - RefreshInterval + due'[n]
                      /\ late'[n] = 1 /\ lag'[n] + 2 * RefreshInterval <= LeaseDuration =>
                           /\ owner' = n
                           /\ left' >= LeaseDuration - lag'[n] - 2 * RefreshInterval + due'[n]
    BY DEF Lasting
  <2>1. /\ phase[n] = "holding" /\ Runs(n)
        /\ owner' = owner /\ lag'[n] = lag[n]
        /\ left' = IF left < 0 THEN left ELSE left - 1
        /\ due'[n] = IF due[n] = 0 THEN RefreshInterval - 1 ELSE due[n] - 1
        /\ late'[n] = IF due[n] = 0 /\ late[n] < 2 THEN late[n] + 1 ELSE late[n]
    BY <1>1 DEF Tick, Runs, Less
  <2>2. /\ left \in Int /\ due[n] \in Nat /\ late[n] \in 0 .. 2 /\ lag[n] \in Nat
    BY DEF LeaseInv, LeaseTypeOK
  <2>3. /\ late[n] = 0 /\ lag[n] + RefreshInterval <= LeaseDuration =>
             owner = n /\ left >= LeaseDuration - lag[n] - RefreshInterval + due[n]
        /\ late[n] = 1 /\ lag[n] + 2 * RefreshInterval <= LeaseDuration =>
             owner = n /\ left >= LeaseDuration - lag[n] - 2 * RefreshInterval + due[n]
    BY <2>1 DEF LeaseInv, Lasting
  <2>4. CASE due[n] = 0
    BY <2>1, <2>2, <2>3, <2>4
  <2>5. CASE due[n] > 0
    BY <2>1, <2>2, <2>3, <2>5
  <2> QED
    BY <2>2, <2>4, <2>5
<1>2. ASSUME NEW n \in Node, Free(n), Upsert(n),
             \A m \in Node \ {n} : /\ phase'[m] = phase[m] /\ lag'[m] = lag[m]
                                   /\ due'[m] = due[m] /\ late'[m] = late[m],
             phase'[n] = "holding" =>
               due'[n] <= RefreshInterval /\ due'[n] \in Nat /\ lag'[n] \in Nat
      PROVE  Lasting'
  <2>1. /\ owner' = n /\ left' = LeaseDuration
        /\ \A m \in Node \ {n} : phase[m] = "holding" => Overdue(m)
    BY <1>2, UpsertStep
  <2>2. ASSUME NEW m \in Node \ {n}, phase'[m] = "holding"
        PROVE  Overdue(m)'
    BY <1>2, <2>1, <2>2 DEF Overdue
  <2>3. \A m \in Node : lag[m] \in Nat /\ due[m] \in Nat
    BY DEF LeaseInv, LeaseTypeOK
  <2>4. \A m \in Node \ {n} : lag'[m] \in Nat /\ due'[m] \in Nat
    BY <1>2, <2>3
  <2>5. ASSUME NEW m \in Node \ {n}, phase'[m] = "holding"
        PROVE  /\ late'[m] = 0 => ~(lag'[m] + RefreshInterval <= LeaseDuration)
               /\ late'[m] = 1 => ~(lag'[m] + 2 * RefreshInterval <= LeaseDuration)
    BY <2>2, <2>4, <2>5 DEF Overdue
  <2>6. phase'[n] = "holding" =>
          /\ left' >= LeaseDuration - lag'[n] - RefreshInterval + due'[n]
          /\ left' >= LeaseDuration - lag'[n] - 2 * RefreshInterval + due'[n]
    BY <1>2, <2>1
  <2> QED
    BY <2>1, <2>5, <2>6 DEF Lasting
<1>3. ASSUME NEW n \in Node, Take(n) \/ Refresh(n)
      PROVE  Lasting'
  BY <1>2, <1>3 DEF Take, Refresh, LeaseInv, LeaseTypeOK
<1>4. ASSUME NEW n \in Node, Hold(n)
      PROVE  Lasting'
  <2>1. /\ UNCHANGED <<owner, left, lag>>
        /\ due'[n] = RefreshInterval /\ late'[n] = 0
        /\ \A m \in Node \ {n} : phase'[m] = phase[m] /\ due'[m] = due[m] /\ late'[m] = late[m]
    BY <1>4 DEF Hold, LoopStarts, LeaseInv, LeaseTypeOK
  <2>2. lag[n] \in Nat /\ left \in Int
    BY DEF LeaseInv, LeaseTypeOK
  <2>3. lag[n] + RefreshInterval <= LeaseDuration =>
          owner = n /\ left >= LeaseDuration - lag[n] - RefreshInterval + RefreshInterval
    BY <1>4, <2>2 DEF Hold, LeaseInv, Awaited
  <2>4. \A m \in Node \ {n} : phase'[m] = "holding" =>
          /\ late'[m] = 0 /\ lag'[m] + RefreshInterval <= LeaseDuration =>
               owner' = m /\ left' >= LeaseDuration - lag'[m] - RefreshInterval + due'[m]
          /\ late'[m] = 1 /\ lag'[m] + 2 * RefreshInterval <= LeaseDuration =>
               owner' = m /\ left' >= LeaseDuration - lag'[m] - 2 * RefreshInterval + due'[m]
    BY <2>1 DEF LeaseInv, Lasting
  <2> QED
    BY <2>1, <2>3, <2>4 DEF Lasting
<1>5. ASSUME NEW n \in Node, RefreshUnsure(n)
      PROVE  Lasting'
  BY <1>2, <1>5 DEF RefreshUnsure, LeaseInv, LeaseTypeOK
<1>6. ASSUME NEW n \in Node, \/ Start(n) \/ HoldUnsure(n) \/ AskAgain(n)
                             \/ RefreshRefused(n) \/ Crash(n)
      PROVE  Lasting'
  <2>1. /\ UNCHANGED <<owner, left>>
        /\ \A m \in Node : phase'[m] = "holding" =>
             /\ phase[m] = "holding"
             /\ lag'[m] = lag[m] /\ due'[m] = due[m] /\ late'[m] = late[m]
    BY <1>6 DEF Start, HoldUnsure, LoopStarts, AskAgain, RefreshRefused, Fatal,
                Crash, Forgets, LeaseInv, LeaseTypeOK
  <2> QED
    BY <2>1 DEF Lasting, LeaseInv
<1>7. ASSUME NEW n \in Node, Release(n)
      PROVE  Lasting'
  <2>1. /\ owner' = owner
        /\ owner # n => left' = left
        /\ \A m \in Node : phase'[m] = "holding" =>
             /\ m # n /\ phase[m] = "holding"
             /\ lag'[m] = lag[m] /\ due'[m] = due[m] /\ late'[m] = late[m]
    BY <1>7 DEF Release, Forgets, LeaseInv, LeaseTypeOK
  <2> QED
    BY <2>1 DEF Lasting, LeaseInv
<1>8. CASE UNCHANGED leaseVars
  BY <1>8 DEF leaseVars, LeaseInv, Lasting
<1> QED
  BY <1>1, <1>3, <1>4, <1>5, <1>6, <1>7, <1>8 DEF LeaseNext

\* The inductive invariant: it holds at the start and every step keeps it.
LEMMA LeaseInvariant == LeaseSpec => []LeaseInv
<1>1. LeaseInit => LeaseInv
  BY LeaseAssumption
     DEF LeaseInit, LeaseInv, LeaseTypeOK, Phase, GrantIsRow, Awaited, Lasting
<1>2. LeaseInv /\ [LeaseNext]_leaseVars => LeaseInv'
  BY TypeStep, GrantStep, AwaitedStep, LastingStep DEF LeaseInv
<1> QED
  BY <1>1, <1>2, PTL DEF LeaseSpec

-----------------------------------------------------------------------------
\* The lease keeps its types, and none lasts longer than LeaseDuration.
THEOREM LeaseTypeCorrect == LeaseSpec => []LeaseTypeOK
<1>1. LeaseInv => LeaseTypeOK
  BY DEF LeaseInv
<1> QED
  BY <1>1, LeaseInvariant, PTL

\* Of any two processes, at most one is within a term that was granted to it.
THEOREM LeaseTermsDisjoint == LeaseSpec => []TermsDisjoint
<1>1. LeaseInv => TermsDisjoint
  BY DEF LeaseInv, GrantIsRow, TermsDisjoint, LeaseTypeOK
<1> QED
  BY <1>1, LeaseInvariant, PTL

\* A node keeps the lease over one missed refresh, from its first answered
\* refresh on: NewLeaseLock demands an interval of at most half the lease.
\* Before, only as far as the start of its ticker did not lag behind the grant.
THEOREM LeaseKeptOverOneMiss == LeaseSpec => []KeepsOverOneMiss
<1>1. LeaseInv => KeepsOverOneMiss
  <2> SUFFICES ASSUME LeaseInv, NEW n \in Node, phase[n] = "holding", WithinTerm(n)
               PROVE  owner = n
    BY DEF KeepsOverOneMiss
  <2>1. lag[n] \in Nat /\ RefreshInterval \in Nat /\ LeaseDuration \in Nat
    BY LeaseAssumption DEF LeaseInv, LeaseTypeOK
  <2>2. late[n] = 0 \/ late[n] = 1
    BY DEF WithinTerm, LeaseInv, LeaseTypeOK
  <2>3. CASE late[n] = 0
    <3>1. lag[n] + RefreshInterval <= LeaseDuration
      BY <2>1, <2>3 DEF WithinTerm
    <3> QED
      BY <2>3, <3>1 DEF LeaseInv, Lasting
  <2>4. CASE late[n] = 1
    <3>1. lag[n] + 2 * RefreshInterval <= LeaseDuration
      BY <2>1, <2>4 DEF WithinTerm
    <3> QED
      BY <2>4, <3>1 DEF LeaseInv, Lasting
  <2> QED
    BY <2>2, <2>3, <2>4
<1> QED
  BY <1>1, LeaseInvariant, PTL

\* From its first answered refresh on a node keeps the lease over one miss,
\* with any interval that NewLeaseLock accepts.
THEOREM RefreshedKeepsOverOneMiss ==
  LeaseSpec => [](\A n \in Node :
    phase[n] = "holding" /\ late[n] < 2 /\ lag[n] = 0 => owner = n)
<1>1. LeaseInv => \A n \in Node :
                    phase[n] = "holding" /\ late[n] < 2 /\ lag[n] = 0 => owner = n
  <2> SUFFICES ASSUME LeaseInv, NEW n \in Node,
                      phase[n] = "holding", late[n] < 2, lag[n] = 0
               PROVE  owner = n
    OBVIOUS
  <2>1. late[n] = 0 \/ late[n] = 1
    BY DEF LeaseInv, LeaseTypeOK
  <2>2. RefreshInterval <= LeaseDuration /\ 2 * RefreshInterval <= LeaseDuration
    BY LeaseAssumption
  <2>3. /\ lag[n] + RefreshInterval <= LeaseDuration
        /\ lag[n] + 2 * RefreshInterval <= LeaseDuration
    BY <2>2, LeaseAssumption
  <2> QED
    BY <2>1, <2>3 DEF LeaseInv, Lasting
<1> QED
  BY <1>1, LeaseInvariant, PTL
=============================================================================
