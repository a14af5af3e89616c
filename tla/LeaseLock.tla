----------------------------- MODULE LeaseLock -----------------------------
(***************************************************************************)
(* The lease on the database of a Chainlink node (lease_lock.go), by which *)
(* of several nodes started for failover one runs and the others wait.     *)
(*                                                                         *)
(* Times are those of the database, in ticks.  The row of lease_lock holds *)
(* its owner and, for expires_at, the ticks that are left: below 0 it is   *)
(* past.  A node is one process: each start has a client ID of its own.    *)
(*                                                                         *)
(* A term runs from NOW() of the transaction that grants it.  The ticker   *)
(* of the node's loop starts only when the answer to the first grant has   *)
(* arrived, any time later; from then on it fires at a fixed pace, however *)
(* long a refresh takes.                                                   *)
(***************************************************************************)
EXTENDS Integers

CONSTANTS
  Node,             \* the processes
  NoNode,           \* the owner while there is no row
  LeaseDuration,
  RefreshInterval

\* NewLeaseLock panics unless the interval is at most half the duration.
ASSUME LeaseAssumption ==
  /\ NoNode \notin Node
  /\ LeaseDuration \in Nat
  /\ RefreshInterval \in Nat \ {0}
  /\ 2 * RefreshInterval <= LeaseDuration

VARIABLES
  phase,   \* what each process is at
  owner,   \* lease_lock.client_id
  left,    \* lease_lock.expires_at, from now
  granted, \* history: the expiry of what the database last granted each node
  lag,     \* history: ticks from a node's first grant to the start of its
           \* ticker, LeaseDuration for more; 0 once a refresh is answered
  due,     \* ticks until the ticker of the node's loop fires
  late     \* ticks of it in a row without an answered refresh, 2 for more

leaseVars == <<phase, owner, left, granted, lag, due, late>>

\* "granted" is a node that has its first lease and has not heard of it yet;
\* "unsure" one that runs, but whose first lease was answered with an error.
Phase == {"off", "waiting", "granted", "unsure", "holding", "stopped"}

LeaseInit ==
  /\ phase = [n \in Node |-> "off"]
  /\ owner = NoNode
  /\ left = -1
  /\ granted = [n \in Node |-> -1]
  /\ lag = [n \in Node |-> 0]
  /\ due = [n \in Node |-> 0]
  /\ late = [n \in Node |-> 0]

-----------------------------------------------------------------------------
\* Mutant: a lease that ends now is over.
FreeWhenEnding(n) == owner = n \/ left <= 0

\* Mutant: an expired row is not overwritten.
FreeIfOwn(n) == owner \in {n, NoNode}

\* The condition of the upsert: the row is the node's own, or is over.
Free(n) == owner = n \/ left < 0

\* Mutant: a row of the node's own keeps its expires_at.
ExpiryKept(n) == IF owner = n THEN left ELSE LeaseDuration

NewExpiry(n) == LeaseDuration

\* getLease, when the transaction is committed.
Upsert(n) ==
  /\ owner' = n
  /\ left' = NewExpiry(n)
  /\ granted' = [granted EXCEPT ![n] = NewExpiry(n)]

Start(n) ==
  /\ phase[n] = "off"
  /\ phase' = [phase EXCEPT ![n] = "waiting"]
  /\ UNCHANGED <<owner, left, granted, lag, due, late>>

\* The transaction of TakeAndHold is committed.
Take(n) ==
  /\ phase[n] = "waiting"
  /\ Free(n)
  /\ Upsert(n)
  /\ phase' = [phase EXCEPT ![n] = "granted"]
  /\ lag' = [lag EXCEPT ![n] = 0]
  /\ UNCHANGED <<due, late>>

\* TakeAndHold starts the loop, and the loop its ticker.
LoopStarts(n, as) ==
  /\ phase' = [phase EXCEPT ![n] = as]
  /\ due' = [due EXCEPT ![n] = RefreshInterval]
  /\ late' = [late EXCEPT ![n] = 0]

\* The answer arrives.
Hold(n) ==
  /\ phase[n] = "granted"
  /\ LoopStarts(n, "holding")
  /\ UNCHANGED <<owner, left, granted, lag>>

\* The answer is lost, or says that the row was written and the commit failed:
\* getLease returns true with an error, TakeAndHold looks at the first only.
HoldUnsure(n) ==
  /\ phase[n] = "granted" \/ (phase[n] = "waiting" /\ Free(n))
  /\ LoopStarts(n, "unsure")
  /\ lag' = [lag EXCEPT ![n] = 0]
  /\ UNCHANGED <<owner, left, granted>>

\* The connection was closed before the answer: a new one is checked out.
AskAgain(n) ==
  /\ phase[n] = "granted"
  /\ phase' = [phase EXCEPT ![n] = "waiting"]
  /\ lag' = [lag EXCEPT ![n] = 0]
  /\ UNCHANGED <<owner, left, granted, due, late>>

Runs(n) == phase[n] \in {"unsure", "holding"}

\* The ticker has fired, and the loop has not looked at it yet.
Fired(n) == Runs(n) /\ (due[n] = 0 \/ late[n] > 0)

Refresh(n) ==
  /\ Fired(n)
  /\ Free(n)
  /\ Upsert(n)
  /\ phase' = [phase EXCEPT ![n] = "holding"]
  /\ lag' = [lag EXCEPT ![n] = 0]
  /\ due' = [due EXCEPT ![n] = IF due[n] = 0 THEN RefreshInterval ELSE due[n]]
  /\ late' = [late EXCEPT ![n] = 0]

\* The refresh is committed but its answer is lost, and the error logged, or it
\* is still under way when the ticker fires again.
RefreshUnsure(n) ==
  /\ Fired(n)
  /\ Free(n)
  /\ Upsert(n)
  /\ UNCHANGED <<phase, lag, due, late>>

\* Mutant: a node without the lease goes on.
GoesOn(n) == "holding"

Fatal(n) == "stopped"

\* What the node measured is gone with its process.
Forgets(n) ==
  /\ lag' = [lag EXCEPT ![n] = 0]
  /\ due' = [due EXCEPT ![n] = 0]
  /\ late' = [late EXCEPT ![n] = 0]

\* Another node has taken the lease: the node exits at once.
RefreshRefused(n) ==
  /\ Fired(n)
  /\ ~Free(n)
  /\ phase' = [phase EXCEPT ![n] = Fatal(n)]
  /\ Forgets(n)
  /\ UNCHANGED <<owner, left, granted>>

\* Release.  Its update may fail, which is the same as a crash.
Release(n) ==
  /\ Runs(n)
  /\ phase' = [phase EXCEPT ![n] = "stopped"]
  /\ left' = IF owner = n /\ left > 0 THEN 0 ELSE left
  /\ granted' = [granted EXCEPT ![n] = IF owner = n /\ left > 0 THEN 0 ELSE granted[n]]
  /\ Forgets(n)
  /\ UNCHANGED owner

\* A crash, or the end of the context while it waits.
Crash(n) ==
  /\ phase[n] \in {"waiting", "granted", "unsure", "holding"}
  /\ phase' = [phase EXCEPT ![n] = "stopped"]
  /\ Forgets(n)
  /\ UNCHANGED <<owner, left, granted>>

Less(ticks) == IF ticks < 0 THEN ticks ELSE ticks - 1

\* Time goes on, whether or not an answer arrives, or a node whose ticker has
\* fired gets to its refresh.
Tick ==
  /\ left' = Less(left)
  /\ granted' = [n \in Node |-> Less(granted[n])]
  /\ lag' = [n \in Node |-> IF phase[n] = "granted" /\ lag[n] < LeaseDuration
                            THEN lag[n] + 1 ELSE lag[n]]
  /\ due' = [n \in Node |-> IF ~Runs(n) THEN due[n]
                            ELSE IF due[n] = 0 THEN RefreshInterval - 1 ELSE due[n] - 1]
  /\ late' = [n \in Node |-> IF Runs(n) /\ due[n] = 0 /\ late[n] < 2
                             THEN late[n] + 1 ELSE late[n]]
  /\ UNCHANGED <<phase, owner>>

LeaseNext ==
  \/ Tick
  \/ \E n \in Node :
       \/ Start(n) \/ Take(n) \/ Hold(n) \/ HoldUnsure(n) \/ AskAgain(n)
       \/ Refresh(n) \/ RefreshUnsure(n) \/ RefreshRefused(n)
       \/ Release(n) \/ Crash(n)

LeaseSpec == LeaseInit /\ [][LeaseNext]_leaseVars

\* Time goes on, a waiting node asks again and again, a running node too, and
\* the database does not for ever lose the answers.
FairLease ==
  /\ LeaseSpec
  /\ WF_leaseVars(Tick)
  /\ SF_leaseVars(\E n \in Node : Take(n))
  /\ SF_leaseVars(\E n \in Node : Hold(n))
  /\ \A n \in Node : SF_leaseVars(Refresh(n) \/ RefreshRefused(n))

-----------------------------------------------------------------------------
(***************************************************************************)
(* Properties.                                                             *)
(***************************************************************************)
\* The types; no lease lasts longer than its duration.
LeaseTypeOK ==
  /\ phase \in [Node -> Phase]
  /\ owner \in Node \cup {NoNode}
  /\ left \in -1 .. LeaseDuration
  /\ granted \in [Node -> -1 .. LeaseDuration]
  /\ lag \in [Node -> 0 .. LeaseDuration]
  /\ due \in [Node -> 0 .. RefreshInterval]
  /\ late \in [Node -> 0 .. 2]

\* The terms the database has granted do not overlap: of two nodes that run,
\* one has had no refresh committed for longer than a lease lasts.
TermsDisjoint ==
  \A m, n \in Node : m # n => granted[m] < 0 \/ granted[n] < 0

\* The ticks missed so far and the next one are within the term: a lag of the
\* ticker behind the first grant counts against it, until the first refresh.
WithinTerm(n) ==
  late[n] < 2 /\ lag[n] + (late[n] + 1) * RefreshInterval <= LeaseDuration

\* A node whose refresh was answered in time keeps the lease over one that is
\* late, lost or fails: another one can take it only after two in a row.  In
\* the first term that is so only if the answer that started the ticker took no
\* more than LeaseDuration - 2 * RefreshInterval, which may be nothing at all.
KeepsOverOneMiss ==
  \A n \in Node : phase[n] = "holding" /\ WithinTerm(n) => owner = n

\* A node that has lost the lease stops at its next refresh, or gets the lease
\* back if it is over once more: two nodes do not go on side by side for ever.
LoserLeaves ==
  \A n \in Node : (Runs(n) /\ owner # n) ~> (~Runs(n) \/ owner = n)

\* When the node that ran is gone, one that waits takes its place.
TakenOver ==
  (\E n \in Node : phase[n] = "waiting") ~>
    ((\E n \in Node : Runs(n)) \/ \A n \in Node : phase[n] # "waiting")
=============================================================================
