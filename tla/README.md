# PayBox: a verification project for the contracts and their trigger

PayBox is a payroll for companies on a chain. A *factory* contract deploys one
*dashboard* contract for a company. The company's owner keeps the list of staff
in the dashboard, opens the attendance of a day and pays the salaries; staff
mark their attendance, save through the dashboard at Aave, and borrow GHO
against their savings. All of it is Solidity, in `src/src/`: `paybox.sol` (the
factory) and `payboxDashboard.sol` (everything else). File names below are
relative to the repository (`payboxDashboard.sol:243` is line 243 of
`src/payboxDashboard.sol` there, `README.md` is the repository's).

Salaries are paid by a *time-based trigger* (`README.md:25`): a node of the
Chainlink network sends a transaction to the factory again and again. The
repository vendors that node under `lib/chainlink` (Go). Whether a trigger
arrives, arrives once, and is paid attention to when the chain re-organises is
decided by its *transaction manager*, and whether exactly one of several nodes
set up for failover does the sending by its *database lease*. Both are modelled
here; the rest of the node is not. Files of the node are named without their
directory: `broadcaster.go`, `confirmer.go`, `txmgr.go`, `resender.go` are in
`lib/chainlink/common/txmgr/`, `evm_tx_store.go` is in
`lib/chainlink/core/chains/evm/txmgr/`, `lease_lock.go` in
`lib/chainlink/core/services/pg/`.

This directory holds TLA+ models of these programs, TLC runs that check them on
small instances, and proofs that TLAPS checks for every instance.

## 1. Inventory

| Component | State | Operations | Module |
|---|---|---|---|
| Staff registry | `allStaffs`, `staffLength`, `Salary`, `staffExist`, `profile` | `addStaff`, `removeStaff` (owner) | `StaffRegistry`, abstractly `Roster` |
| Attendance | `lastResetTimestamp`, `dailyAttendance`, `attendanceMarked`, `attendanceCounter` | `openAttendance` (owner), `markAttendance` (anyone) | `Attendance`, abstractly `DayBook` |
| Savings vault | `staffShares`, `totalShares`; the dashboard's aTokens at Aave | `buyShares` (staff), `withdrawShares` (anyone) | `SharesVault` |
| GHO loans | `staffLoan`, `borrowActive`; the dashboard's debt at Aave | `borrowGHOTokens`, `paybackLoan` (anyone), `ghoPayback`, `payGhoOwe` | `GhoLoans` |
| Payroll and certificate | `lastPayOut`, `TotalPayOut`, `tokenId`, the ERC-721 owners | `salaryPayment` (owner), `totalPayment`, `checkHighestAttendance`, `safeMint` | `Payroll` |
| Treasury | `gho_contract`, never assigned | `depositFund` (anyone), `withdrawFund` (owner): both always revert | not modelled, see §6 |
| Factory and trigger | `myAccount`, `userExist`, `arrayAddress` | `createAccount`, `showMyAcct`, `payStaff` | `Paybox` |
| Transaction broadcaster (node) | the tables `evm.txes` and `evm.tx_attempts`; `nextSequenceMap` in memory | create, start, stop, reset, pick, claim, send, save, bump, retry; prune, resend, reap | `TxStore`, `Broadcaster`, abstractly `Delivery` |
| Transaction confirmer (node) | the same tables, `evm.receipts`; the head it processes | `processHead`, eight steps | `TxStore`, `Confirmer` |
| Database lease (node) | the row of `lease_lock`; the ticker of each process | `TakeAndHold`, `loop`, `getLease`, `Release` | `LeaseLock` |
| Price oracle | the address of a feed | `getChainlinkDataFeedLatestAnswer`, a view whose answer `ghoPayback` reads and does not use | not modelled |
| Views, metadata, events | text fields, `dateAdded` | `allMembers`, `companyDetails`, `tokenURI`, ... | not modelled |
| Interfaces, `Counter`, tests, scripts | | | not modelled |
| The rest of `lib/`: job runners, keepers, log poller, OCR and CCIP of the node, other libraries | | | not modelled |

How the parts interact. All parts of a dashboard are one contract: they share
its storage, and a call is one transaction, which happens in one step or, when
any `require`, checked operation or external call fails, not at all.
`openAttendance` reads the registry's list; `buyShares` reads `staffExist`;
`borrowGHOTokens` reads the shares; `salaryPayment` reads the list, the
salaries and the attendance counters, clears loans and repays Aave. The
dashboard calls Aave and tokens; Aave's interest moves its balances between its
own calls. The factory calls `salaryPayment` of the dashboards it deployed.
Inside the node, broadcaster, confirmer, resender and reaper are goroutines that
share the tables; the broadcaster hands a transaction over to the confirmer by
setting its state to `unconfirmed`. They talk to an Ethereum node over RPC, whose
answers may be errors or be lost. Several nodes share one database, and the
lease decides which of them runs.

What is hard. In the contracts nothing runs concurrently inside a call. The
difficulty is in the
*sequences* of calls that many accounts make, in any order and for one another
(most calls take the account they act for as a parameter and do not look at the
caller), in records of one fact that are kept in several slots, in integer
division, in what is one step of several that fail together, and in time. In the
node it is the crash between sending and saving, the answer that is lost, the
map in memory beside the table, the re-organisation in the middle of a head, the
head that is cut short, and the refresh that comes late. The
`hazards` of `PROJECT.json` list these at their lines.

What makes each part correct:

* registry: an index always leads to its account; removing a member removes that
  member; the salary shown is the salary paid;
* attendance: a day is credited once, to an account that was there, and nobody
  marks twice a day (`README.md:51` promises a day for everyone who was there,
  which the code does not keep: run `attendance_days`);
* vault: the shares sum to the total, are backed, and no sequence of trades by
  others lowers what a holder gets;
* loans: the three records of a loan agree, the dashboard can always repay what
  its staff owe, nobody repays more than the loan, and what rounding leaves to the
  company is bounded for each loan;
* payroll: the books balance with any list, loans are withheld once and reach
  Aave, the certificate goes to the best;
* factory: every company is scheduled, and is paid;
* broadcaster: no nonce is given twice or left out, what the network took is
  never lost or sent under a second nonce, what the broadcaster puts in flight is
  bounded, the queue moves;
* confirmer: what is confirmed is in the longest chain, no attempt that may be
  mined is forgotten, nothing is given up without evidence;
* lease: two nodes never hold a term at once, one late refresh costs nothing, a
  node that lost the lease leaves, a waiting one takes over.

## 2. Plan

Order of the modules, the most important behaviour first:

1. `Roster`, `StaffRegistry` — done, with the refinement checked and proved.
2. `Attendance` (beside the registry), abstractly `DayBook` — done, with the
   refinement checked and proved.
3. `SharesVault`, `GhoLoans` (beside registry and vault) — done, checked and proved.
4. `Payroll`: the whole dashboard — done and proved; TLC runs it with a fixed list.
5. `Paybox`: the factory and its trigger — done; its invariants are proved.
6. `TxStore`, `Broadcaster`: how the node sends a transaction, abstractly
   `Delivery` — done, checked and proved, the refinement too, except that its
   queue moves.
7. `Confirmer`: what becomes of it on the chain — done, checked and proved.
8. `LeaseLock`: which node sends — done, checked and proved.
9. Left: the callback of `_safeMint` into a contract that is the best employee, and
   of a token that calls its receiver, as steps inside `salaryPayment` and
   `withdrawShares`; liveness of the confirmer, for a chain whose height is
   counted from its head so that it need not be bounded; a refinement of
   `Delivery` by broadcaster and confirmer together.

## 3. Modules and the code

Every module says at its head what it stands for; `map` in `PROJECT.json` gives
the lines of every definition. Conventions that hold throughout:

* A call is an action with its caller as the first parameter where the code
  looks at `msg.sender`. Its guards are the `require`s, the checked operations
  and the refusals of external calls; a call that reverts is the absence of a
  step.
* Names of state variables and functions are the source's. A mapping is a
  function on the accounts. Index `i` of `allStaffs` is element `i + 1` of the
  sequence.
* A definition whose comment begins with *Mutant* is a wrong variant of the one
  that follows it, kept to see that the properties notice it: with the mutant in
  its place, TLC finds the property that `mutants` in `PROJECT.json` names
  violated. No specification uses it.
* History variables (`removed`, `opened`, `attended`, `gained`, `funded`,
  `withheld`, `leftOver`, `slipped`, `returned`, `used`, `granted`, `lag`) are not in the code; they only record. `removed` is the argument
  of the event `staffRemove`.

`StaffRegistry`: `AddStaff` does the whole loop at once; `Written` is what a
mapping holds after it, the last entry of a repeated account winning.
`RemoveStaff` is the exchange with the last entry, in the order of the code's
writes. `RegistrySpec` has every call the code accepts; `CarefulSpec` has an
owner who adds only unlisted accounts, each once, and removes listed ones, and
it implements `Roster`, in which the payroll is a partial function from staff to
salaries.

`Attendance`: `Tick` is a later block. `OfficeSpec` puts the registry beside it,
since `openAttendance` clears only the accounts that are listed at that moment.
It implements `DayBook`: the page of the day is the set of accounts that have marked
since the last opening (`MarkedToday`, a set of the history, since the flags in the
contract may be out of date), the first to sign it gets the day's credit, and
registry and time have left the picture. `DayBook` is the rule of the code.
`EveryDayCounts` is the one of `README.md:51`, a day for each member who
attends, and the code does not keep it.

`SharesVault`: Aave is `Supply`, `Withdraw` and `ATokensArrive`. The dashboard
reads its balance of one aToken (`ShareAsset`), at a fixed address
(`payboxDashboard.sol:286`), whatever asset is paid in or out. `SharesFor` and
`Value` are the two divisions. `WithdrawalGranted` is all that makes
`withdrawShares` revert; it is the guard of `WithdrawShares` and what
`HoldersCanLeave` is about. `SavingsSpec` puts the registry beside it.

`GhoLoans`: `ghoDebt` is what the dashboard owes Aave; `totalDebtETH` is the same
in Aave's base currency, at a price (`unit`) that may differ from call to call.
`PayGhoOwe` is `repayWithATokens` on the GHO reserve: it burns the dashboard's
aTokens of GHO and is cut at the debt. `CreditSpec` has vault and registry
beside it.

`Payroll`: `SalaryPayment` is the whole call, with the loops folded: an account is
paid once for every entry, its loan is withheld at the first, the best account
is found by `checkHighestAttendance`, whose loop is the recursive function
`bestEmployeeAfter` of the entries seen, and what was withheld (`payloan`)
is repaid in one call. `DashboardSpec` is every call of every part.

`Paybox`: dashboards are numbered as deployed, and of each only the owner and the
number of payrolls are kept. `PayStaff` goes through the schedule as the loop
does: it stops at the first entry whose time is over, and otherwise calls
`salaryPayment` as the factory.

`TxStore`: the rows of the node's tables for one key, and nothing else: a
transaction's state, its nonce, and its attempts, one for each gas price. A row
is its number; a smaller one was created earlier.

`Broadcaster`: `stage` is how far `processUnstartedTxs` has come with the
transaction `current`; every query and every call of the Ethereum node is an
action of its own, so that a crash (`Stop`), a prune or a block can fall between
any two. `Accept` and `Reject` separate what the Ethereum node *did* from what it
*said* (`answer`): an attempt may be taken and the answer be an error. `SaveSent`,
`SaveSentLost`, `SaveFatal`, `Bump`, `NewEstimation` and `Retry` are the branches of
`handleInProgressTx`. `SaveSentLost` is a save that is committed and whose answer is lost:
the error returns before the map is moved (`broadcaster.go:628-631`). `Start` loads the map
from the table, or, when that query fails, from the Ethereum node
(`broadcaster.go:303-313`). Both can put the map out of step with the table; `slipped`
records it. `GetNextSequence` loads a nonce that is missing in the map in the same way
later on; a start that takes place then is that case. `pool` and `mined` are
external; `Reorg` drops the last blocks, and what they held is in the pool again.
`Confirm` and `Unconfirm` stand for the confirmer: `Unconfirm` is what it does to a transaction
whose block was dropped (`stale`), however many are in flight; a transaction that the
confirmer calls `confirmed_missing_receipt` counts as confirmed here. It implements
`Delivery`, in which a transaction waits, is sent, and ends as done, failed,
abandoned or forgotten, and is carried out at most once: `status` is the state of the
row (`StatusOf`), `carriedOut` the transactions the Ethereum node has mined. The chain
may undo what it did (`Undo`), and only then is a report withdrawn (`Withdraw`).
Nonces, prices, attempts, the map in memory and all that a crash interrupts are
stutters there. `Fail` may happen only to what has not been carried out and `CarryOut`
only to what was sent or abandoned: that the broadcaster keeps to this, although it
learns what the Ethereum node did from answers alone, is what the refinement says.

`Confirmer`: `step` is how far `processHead` has come. A query that writes the tables is
one action, together with the questions to the Ethereum node that come before
it and the queries that only read and lead to it; a loop is one action for each
round: a batch of receipts is fetched in one action and saved in another, a
transaction is marked, bumped, sent again or resumed in one. In `Handled` the send
and the write of its outcome are one step, and in `Rebroadcast` the write before the send
(`SaveInProgressAttempt`) too: if a crash falls between them, the attempt stays in progress
and the Ethereum node may have it or not, which is the last alternative of `Handled`.
`Abort` is a crash, an error or the timeout between any two actions. The
chain is a sequence of blocks that know the re-organisation they come from
(`fork`); `head` is the chain as it was when the head was passed on, so that the
Ethereum node may be ahead of it, or on another branch, in every later step.
`used` records how many transactions the Ethereum node has ever had in one chain.
`HandleInProgress` is `handleInProgressAttempt` with every verdict, `Rebroadcast`
a round of `rebroadcastWhereNecessary` with what follows it: the attempt at a higher
price, or, after any `IsBumpErr` (the limit, or nothing mined because of the
connection, `confirmer.go:761-769`), the same one in progress again.

`LeaseLock`: the row holds an owner and the ticks that are left. `due` and `late`
are the ticker of a process and how many of its ticks have passed without an
answered refresh. `Take` is only the grant in the database; `Hold` is its answer, any
time later, and starts the loop and its ticker, so that the term runs before the
ticker does, by `lag`. `HoldUnsure` is a commit that fails, or whose answer is lost,
when a node starts; `AskAgain` a connection that was closed, after which it asks
again; `RefreshUnsure` is a lost answer at a refresh.

## 4. What the runs check

| Run | Instance | Shows |
|---|---|---|
| `registry_careful` | 4 accounts, list up to 4, batches up to 2 | exact indices, profile and salary agree, implements `Roster` |
| `attendance` | 3 accounts, list up to 2, any arguments in batches up to 2, interval 2, times 2 to 4 | sound indices; one credit a day, a mark a day; implements `DayBook`, so the credit is that of the first to mark |
| `attendance_days` | the same accounts and times, any list of up to 2 entries that does not change | **violated**: a member who attends a day is not credited with it |
| `vault` | 3 accounts with 2 tokens each, one asset, payments 0 to 3, interest up to 2 | sums, backing, claims never fall, no gain from trading, holders can leave |
| `vault_dilution` | the same with two assets | **violated**: a purchase in the second asset mints shares at no price |
| `payroll` | 2 accounts, any list of up to 2 entries (repeated ones too), salary 0 or 30, loans of 15, debt up to 35, prices 8 and 10, two payrolls | loans, flags and debt agree; nobody repays more than the loan, and what rounding leaves to the company is bounded at the price of the call and for each loan; books balance, what is withheld is repaid, loans cleared, award to the first of the best |
| `paybox` | 2 users, 3 dashboards, times 0 to 3 | each dashboard scheduled once; `payStaff` is idle |
| `paybox_trigger` | the same, fair blocks and trigger | **violated**: no company is ever paid by the trigger |
| `broadcaster` | 3 transactions, the first of the greatest value, 2 gas prices, 2 in flight, a queue of 1, a crash or reset, a re-organisation of any depth | nonces free while the map is in step and without a gap unless left over, nothing sent is lost or sent twice, in-flight bound besides what comes back, implements `Delivery`, the queue moves |
| `confirmer` | 2 transactions, 2 gas prices, 4 blocks, 1 re-organisation of up to 2 blocks, bump after 1 head, receipts one by one | what is confirmed is in the chain, nothing sent is forgotten, what is confirmed has a receipt, nothing is given up whose nonce was never used |
| `confirmer_receipts` | the same | **violated**: an unconfirmed transaction keeps its receipt |
| `lease` | 3 nodes, duration 2, interval 1, any delay of the first answer | terms disjoint, one late refresh costs nothing while the missed ticks fit into the term, losers leave, waiting nodes take over |

Why the bounds are enough. The exchange in `removeStaff` needs a first, a middle
and a last entry: lists of 4 over 4 accounts have them; in `attendance`, a
repeated account and an unlisted one do with a list of 2. A day needs a marker who is
credited and one who is not, an account removed and listed again after an
opening: between the times 2 and 4 two openings fit, the first of them at
once, as in the code, where the last one is 0. The roundings of the
vault appear as soon as the balance is not a multiple of the shares, from the
first unit of interest. A loan of 15 is within a fifth of 100
shares and two of them make 30; at both prices there are debts at which a payback
loses a part of the loan by rounding, and at one of them a payroll of two borrowers loses a
part of each. In
`payroll` both accounts can borrow, be listed twice, and be paid
again; the list is the outcome of one `addStaff` and does not change, and
purchases are in the asset that prices the shares, because the calls left out
are those the other runs explore and the product of all is beyond TLC.

For the broadcaster: a transaction whose nonce is wrong shows beside one before
and one after it, hence 3; a bump needs 2 prices; a queue of 1 is pruned at the
third row, and 2 in flight are reached and wait, and a third comes back; one stop
anywhere leaves a transaction in progress, with or without the network having it,
and one re-organisation may drop all blocks. A second stop or re-organisation
meets what the first may leave in more combinations, and does not end in the time of
a run; the proofs have no bound. For the confirmer: a transaction lacks its
receipt once a later one has it, hence 2; the 4 blocks hold both transactions,
a re-organisation of 2 blocks and a block beyond the finality depth, so that a
transaction is given up; with batches of one receipt a head can be cut short between
two of them, and a transaction is saved before the next is asked for; larger instances (3 transactions, or 2 re-organisations)
do not end in the time of a run. That an instance with one re-organisation is not
enough for every property is why `GivenUpOnEvidence` speaks of `used` and not of the
chain as it is: with two of them, the second between the query for the nonce and
the step that gives up, the block that was the evidence is gone; the proof, which
has no bound, found it. The proofs of the confirmer hold for any number. For the lease: with 3 nodes two compete for what
the third left; duration 2 and interval 1 are the boundary of what `NewLeaseLock`
accepts (`lease_lock.go:78`), and the smallest at which a tick can be missed.

The bounds `MaxStaff`, `MaxBatch`, `Horizon`, `MaxGain`, `MaxDebt`, `MaxPayrolls`,
`MaxAccounts`, `MaxPays`, `LastTime`, `MaxTx`, `MaxFee`, `MaxStops`, `MaxReorgs`, `MaxNonce`,
`MaxHeight` and `MaxForks` appear in guards and are no part of the code (`MaxFee`
stands for the configured highest gas price, which is). `MaxUint` stands for the largest
`uint256` in the checks of overflow; the instances stay below it, and the
theorems hold for any value.

`CHECK_DEADLOCK FALSE` is set in every run: every instance ends at its bounds
(the lease when all its processes have stopped is only time), and a contract to
which nobody sends a call is at rest.

Fairness. Nothing makes an owner, a member of staff or a user call anything, so
no call of theirs is fair. `TriggerSpec` assumes fairness of what is not theirs: blocks go on, and
Chainlink's time-based trigger (`README.md:25`) calls `payStaff` again and again.
`TriggerPays` fails even so: `payStaff` returns at the first entry whose time is
over, and for one that is not due it calls `salaryPayment`, which only the owner
of the dashboard may call.

`FairBroadcaster` is what `monitorTxs` justifies: after a stop the service is
started again, and the loop wakes up every fallback poll interval, so starting,
picking, resuming, sending and the branches that need no luck are one weakly
fair action (`Goroutine`: there is one goroutine, and it does one of them at a time).
The Ethereum node must take an attempt it is sent again and again, the
database must not lose every save, and a row that is picked must not be put back every
time: strong fairness of `Accept` with a good answer, of
`SaveSent` and of `Refuse \/ Claim`, since other verdicts can come between. The chain mines what it holds,
the confirmer finds receipts, and the resender sends each transaction again.
Clients, resets, re-organisations, the reaper and the transmit checker's verdict are not fair. `FairLease`: time goes on; waiting nodes ask every second, and
the database does not for ever lose the answer (strong fairness of `Take` and of `Hold` by
some node, and for each node of an answered refresh, because what they need, a
free row, a fired ticker, comes and goes). Crashes and releases are never fair. No
liveness is claimed of the confirmer: its chain ends at `MaxHeight`.

## 5. What is proved

TLAPS proves, for any sets of accounts, assets and amounts and any bounds:

| Theorem | States |
|---|---|
| **`StaffProofs`** | |
| `RegistryTypeCorrect`, `IndicesSound` | `RegistrySpec => []RegistryTypeOK`, `[]IndexSound` |
| `IndicesExact`, `PayrollsExact`, `RegistryImplementsRoster` | `CarefulSpec => []IndexExact`, `[]PayrollExact`, and the refinement `ImplementsRoster` |
| `OfficeIndicesSound`, `CreditsAddUp`, `MarksOnce`, `OfficeImplementsDayBook` | `OfficeSpec =>` the four properties of the run `attendance`, the refinement among them |
| `OfficeTypeCorrect`, `CreditsEarned`, `OpeningsApart` | `OfficeSpec => []OfficeTypeOK`, `[]CreditsAreEarned`, and that days are opened an interval apart |
| **`CreditProofs`** | |
| `VaultTypeCorrect`, `SharesAddUp` | `SavingsSpec => []VaultTypeOK`, `[]TotalIsSum`, with any number of assets |
| `SharesBacked`, `ClaimsGrow`, `NobodyGainsByTrading`, `HoldersArePaid` | with `Asset = {ShareAsset}`: `SavingsSpec => []SharesAreBacked`, `ClaimsNeverFall`, `NoGainFromTrading`, `[]HoldersCanLeave` |
| `LoanTypeCorrect`, `ActiveMeansOwing`, `LoansWithinDebt` | `CreditSpec => []LoanTypeOK`, `[]ActiveIsOwing`, `[]LoansAreOwedToAave` |
| **`PayrollProofs`** | |
| `DashboardHasOffice`, `DashboardCreditsDays`, `DashboardIndicesSound` | `DashboardSpec => OfficeSpec`, and so the properties of the attendance, the refinement of `DayBook` and `[]IndexSound` |
| `OnlyForeignPurchasesDilute`, `ClaimsStayCovered` | with any assets, `Gho # ShareAsset` for the first: `DashboardSpec =>` no step but a `ForeignPurchase` lowers the claim of an account that keeps its shares, and `[]ClaimsAreCovered` |
| `DashboardTypeCorrect`, `BooksAlwaysBalance`, `DashboardSharesAddUp`, `DashboardActiveMeansOwing`, `DashboardLoansWithinDebt` | `DashboardSpec => []DashboardTypeOK`, `[]BooksBalance`, `[]TotalIsSum`, `[]ActiveIsOwing`, `[]LoansAreOwedToAave` |
| `PayrollsRepay`, `PayrollsClear`, `BestAreAwarded`, `CompanyPaysTheRest` | `DashboardSpec => WithheldIsRepaid`, `PayrollClearsLoans`, `AwardToTheBest`, `CompanyBearsTheRest` |
| **`PayboxProofs`**: `AccountsScheduled`, `PayStaffDoesNothing` | `PayboxSpec => []AccountsAreScheduled`, `PayStaffIsIdle` |
| **`BroadcasterProofs`**: `BroadcasterTypeCorrect`, `NextNonceFree`, `InFlightStaysBounded`, `SentStaysSaved`, `SentStaysUnderOneNonce`, `GapNeedsLeftOver` | `BroadcasterSpec =>` the six invariants of the run `broadcaster` |
| `NoncesNeverClash`, `BroadcasterDelivers`, `BroadcasterReportsAreTrue` | `BroadcasterSpec => []IndexNeverRefuses`, the refinement `ImplementsDelivery`, and `ReportsAreTrue` of `Delivery` in every state |
| **`ConfirmerProofs`**: `ConfirmerTypeCorrect`, `ConfirmedIsInChain`, `SentIsInTable`, `ConfirmedByReceipt`, `NoneGivenUpUnused` | `ConfirmerSpec =>` the five properties of the run `confirmer` |
| **`LeaseLockProofs`**: `LeaseTypeCorrect`, `LeaseTermsDisjoint`, `LeaseKeptOverOneMiss`, `RefreshedKeepsOverOneMiss` | `LeaseSpec => []LeaseTypeOK`, `[]TermsDisjoint`, `[]KeepsOverOneMiss`, and that a node keeps the lease over one miss, with any interval, once a refresh was answered |

The theorems of `PayrollProofs` are about `DashboardSpec`, every call of every part
with a list that changes; the run `payroll` starts after one `addStaff` and leaves
out the calls that other runs explore.

Assumptions: the named ones of the modules (`RegistryAssumption`,
`AttendanceAssumption`, `VaultAssumption`, `LoanAssumption`, `PayrollAssumption`,
`PayboxAssumption`, `LeaseAssumption`, `TxStoreAssumption`, `BroadcasterAssumption`,
`ConfirmerAssumption`): the owner is an
account, amounts are natural numbers, there are finitely many accounts, a unit
of the base currency is worth something, the refresh interval is at most half
of the lease. TLC evaluates them on every run.

The arguments:

* *Registry.* `IndexSound` is not inductive without the types; with them it is,
  by cases on whether an account is the removed one, the moved one or another,
  and whether the removed one was listed at its index at all.
* *Refinement.* With a careful owner `IndexExact` makes the list injective
  (equal entries have equal indices), so that the exchange removes one account
  from its range and no other; then `addStaff` of a batch is `Hire` of the
  batch's accounts and `removeStaff` is `Dismiss`, under the mapping of `payroll`
  to the salaries of the listed accounts.
* *Attendance.* The invariant adds `DayInv`: `dailyAttendance` is set exactly if
  the current day has a mark, and whoever marked today carries the mark. Without
  it a mark could not be seen to start a new credited day. The sum of the
  credits is then compared with the number of days by one update of each. The same
  invariant carries the refinement of `DayBook`: the page is empty exactly if the flag
  is down, so that the credit of a mark is that of the first signature, and whoever
  has signed is turned away.
* *Vault.* `VaultInv` is the types and `TotalIsSum`: a withdrawal subtracts a
  summand from the sum, so `totalShares` does not underflow. With one asset,
  `PriceInv` adds `SharesAreBacked`: the price `B / T` is at least 1, hence
  defined while there are shares, a purchase adds `a` to `B` and at most
  `a * T / B` to `T`, and a withdrawal takes at most `s * B / T`; cross-multiplied
  (`PriceNeverFalls`) the price does not fall, and with it no claim. That nobody
  gains (`PurchaseGainsNothing`): who holds `S` of `T` shares and buys `s` for `c`
  has worth `(S + s)(B + c) / (T + s)` afterwards, and `T` times what is missing to
  `SB / T + c + 1` is a positive number, as `S <= T` and `sB <= cT`. A holder can leave
  because its claim is at least a token, the price being 1 or more, and at most the
  balance, its shares being within the total.
* *Loans.* `LoanInv` is the three invariants together. A payback repays the loan
  rounded down to a multiple of the debt in base units (`RoundedDown`), hence at
  most the loan, hence at most the debt, because the sum of the loans is within
  it; so Aave does not cut it, and what stays unpaid of it is a remainder, less than
  the debt in base units. `CompanyBearsTheRest` follows the part of the debt that no loan stands
  for (`Uncovered`): a payback moves the remainder of one loan there (`PaybackLeaves`), a
  payroll the remainders of all it clears, each below the same bound, so that the sum
  over the accounts is (`PayrollLeaves`), and the price is that of the call.
* *Dashboard.* Every step of `DashboardSpec` is a step of `OfficeSpec` or leaves
  staff and attendance alone (`DashboardHasOffice`), so their types and properties
  carry over. The rest rests on one invariant, `MoneyInv`: `VaultInv`, `LoanInv`, the
  types of the payroll and `BooksBalance`. `salaryPayment` needs all of it at
  once: the sum of what is withheld is at most the sum of the loans, and that at
  most the debt (`LoansAreOwedToAave`), so that Aave takes `payloan` whole; what is
  paid out is at most `totalPayment`, because each account gets its salary for each of
  its entries less its loan, and the sum over the accounts of entries times salary
  is the sum over the list (`TotalByAccount`).
* *Dilution.* With several assets the price can fall, as the run `vault_dilution`
  shows. `OnlyForeignPurchasesDilute` says that nothing else makes it fall: every step
  that is not a `ForeignPurchase` (shares are minted and the balance that prices
  them does not rise) keeps the price (`VaultKeepsPrice`), or mints the first shares,
  and a kept price keeps the claims (`ClaimKept`). It assumes `Gho # ShareAsset`: a
  repayment burns aTokens of GHO (`payboxDashboard.sol:367, 433`), and the aToken that prices
  the shares (`:286`) is another one; were it the same, every repayment would be
  paid by the holders. Even after a dilution the claims together stay within the
  balance (`ClaimsStayCovered`): the sum of the parts rounded down is at most the
  sum of the products divided (`TotalProducts`), since the shares sum to the total.
* *Award.* `checkHighestAttendance` is a recursive function over the list; that it
  exists for every length is shown by the least length for which it would not
  (`BestExists`), and that it is the first of the best, for a list of any length, by
  the least number of entries after which it would not be (`BetterKeeps`).
* *Factory.* `PayboxInv`: entry `i` of the schedule is dashboard `i`, and `myAccount`
  the last of an owner. Since owners are users, and the factory is none, a call
  of `payStaff` that does not revert has called `salaryPayment` of no dashboard.
* *Confirmer.* None of the invariants of the run is inductive alone; `ConfirmerInv`
  joins them with what the steps of `processHead` hand on to each other.
  `ChainInOrder`: the `n`-th transaction in the chain is `n`, so that nothing is mined
  twice. `RowsInOrder`: an attempt in progress is the highest priced one of its
  transaction, hence the only one, and a bump finds the next price free; a
  transaction that lacks its receipt has a used nonce. `ReceiptsInOrder`: so has one with
  a receipt. `LoopsInOrder`: what is asked for or
  was fetched and not saved is of attempts that exist and of transactions on their
  way, and what a loop has left to do is too. An attempt that is put back in progress may
  keep a receipt of a dropped block (the run `confirmer_receipts` shows that there are such),
  and be deleted with it, so `ConfirmedHasReceipt` needs two parts more. `ConfirmedByBroadcast`:
  of the receipts of a confirmed transaction one is of an attempt that is
  broadcast, which no deletion touches. `UnfinishedInOrder`: a confirmed transaction that a
  crash left with another attempt in progress has it handled before re-organisations
  are looked for, so that there the query, which sees broadcast attempts only, sees
  every receipt. `Settled` is `SettledInChain` from the query for what was dropped on, except for
  those still to be marked: each mark makes one unconfirmed, and the loop between the
  last mark and the callbacks confirms nothing.
* *Lease.* The invariant `LeaseInv` adds to the types `GrantIsRow`, that a grant
  which still lasts is the row's (so two cannot, hence `TermsDisjoint`), and
  `Lasting`, that the ticks left to a holder cover the ticks until its ticker
  fires twice: with `late` misses, what the duration has over `lag` and `late + 1` intervals,
  and `due` more, if that is not negative. `Awaited` says the same of a node that has not
  heard of its grant: `lag` is how much of the term is gone. Once a refresh was answered
  `lag` is 0, and the assumption `2 * RefreshInterval <= LeaseDuration` makes
  the bound hold over one miss (`RefreshedKeepsOverOneMiss`); in the first term it does so
  only if the answer was that quick (`WithinTerm`).
* *Broadcaster.* Four invariants, each resting on those before it. `TableInv`: a
  transaction on its way has exactly one attempt, the one being sent is in
  progress, the next nonce is above all others while the map is in step.
  `RoomInv`: when a row is picked there is room for it and none is in progress, and nothing
  enters before it is claimed but what a re-organisation brings back, although the queue may
  be pruned meanwhile. `PoolInv`: what was mined has its place as its
  nonce, and after an answer that lets the broadcaster discard or replace an attempt
  (`fatal`, `underpriced`, `fee_out_of_range`) the Ethereum node has nothing of that
  transaction (`NotTaken`); without it a discarded row might be one that is mined. `GapInv`:
  what a confirmed transaction and those below it were given is mined or in the
  pool, whatever is dropped (`ConfirmedCovered`), and while no start has found a transaction
  in progress, every nonce below the next one and below an unconfirmed one is
  held, and the one in progress has the next; §6 has the trace that needs
  the condition.
* *Delivery.* The refinement needs a fifth, `PoolFresh`: what the Ethereum node holds
  has nonces that are not mined yet, one attempt for each, and is of transactions
  that are on their way, were abandoned there, or are confirmed in a dropped block. Hence what is mined next is none
  that is mined already, nor one that waits, failed or is done
  (`MineIsCarryOut`); and with `NotTaken`, a transaction that is discarded as fatal is
  nowhere in the network (`FatalIsFail`). `SentUnderOneNonce` is what makes a second
  attempt of a mined transaction stale. `ReportsAreTrue` is then proved of `Delivery`
  alone, in a few lines, and holds of the node by the refinement.
* *Sums.* `Sums` defines the sum of a mapping as the cardinality of its units, so
  that no recursion and no induction is needed; `DataLemmas` proves that changing
  one value changes the sum by the difference (`TotalUpdate`), that sums are
  monotone and add (`TotalMonotone`, `TotalSum`), and that a sum over a list is the
  sum over the accounts of their entries (`TotalByAccount`).

Only model-checked: liveness (`UnstartedLeaves`, `LoserLeaves`, `TakenOver`), which
is out of the prover's reach. The violated properties are counterexamples of TLC.

## 6. What the code does that its documents do not say

The violated runs are listed under `findings`. Also seen:

* `salaryPayment` mints to `address(0)`, and so reverts for everybody, when no
  listed account has a credit (`payboxDashboard.sol:141, 482`), although
  `README.md:203-205` asks only for sufficient tokens.
* `paybackLoan` divides by zero while the dashboard has no debt; the test
  `test/payboxVault.t.sol:107-112` calls it straight after `buyShares`.
* The "best staff of the month" (`payboxDashboard.sol:137`) is the best since the
  beginning: `attendanceCounter` is never reset.
* The limit of a fifth of the shares (`:359-364`) is tested for the call, not for
  the loan; two calls exceed it, and so does one after a withdrawal of shares.
* `buyShares` tests that the *caller* is staff (`:262-268`), not the account that
  gets the shares.
* An account removed with a mark, and listed again after an opening, is turned
  away by `markAttendance` on a day it has not marked (`:549-552`).
* `createAccount` requires that the user has no account (`README.md:159`) by a
  flag that is never set (`paybox.sol:47`), so that a user can have several.
* `depositFund` and `withdrawFund` call `gho_contract`, which no code assigns, and
  revert always (`:511-533`), although `README.md:207-222` describes their
  use.
* `removeStaff` of an account that was never added takes index 0 for its own and
  removes the first member, although the test at `:243` says "user not found" and
  the comment at `:239` "delete a particular staff data".
* `markForRebroadcast` of the confirmer refuses a dropped transaction that is
  `confirmed_missing_receipt`, or whose highest attempt is in progress or has
  insufficient funds (`evm_tx_store.go:1070-1084`): `processHead` ends there, on this
  head and on every later one while that lasts.
* When the Ethereum node calls the only attempt of an unconfirmed transaction
  fatal, the confirmer deletes it; a transaction without attempts remains, for
  which finding rebroadcasts fails at every head.
* `TakeAndHold` looks at `gotLease` before the error of `getLease`, and `gotLease` is set
  before the commit: if that fails, the node starts without a lease
  (`lease_lock.go:84-124, 279-284`), and may run beside another until its next refresh.
* A lease whose refresh interval is half its duration, which `NewLeaseLock` accepts
  (`lease_lock.go:78`), is not safe over one miss in its first term: the term starts with the
  grant (`:263`), the ticker with the loop that its answer starts (`:195`). A first tick that is
  missed then leads past the end of the lease, and a waiting node may have it. After the
  first refresh that is answered, one miss costs nothing.
* The broadcaster "does guarantee a monotonic series of increasing sequences for txes that
  can all eventually be confirmed if you retry enough times"
  (`broadcaster.go:97-98`). After a crash with a transaction in progress at nonce `n`,
  `FindLatestSequence` counts it (`evm_tx_store.go:1016`), so that the map starts at `n + 1`. When that
  transaction is then sent, `handleInProgressTx` takes the next nonce from the map
  (`broadcaster.go:624`), not from the transaction, and moves the map to `n + 2` (`:633`): nonce
  `n + 1` is never given, and nothing sent later can be mined. If the transaction
  ends as fatal instead, `n` itself stays unused. With `NoNonceGap` as an invariant of the
  run `broadcaster` TLC shows it; `GapOnlyAfterLeftOver` says that there is no other way to a gap.
* If a save is committed and its answer lost (`broadcaster.go:628-631`), the map stays at a nonce that
  is taken. The unique index then refuses every claim, and the queue stands still
  until the node is started again. If the row with that nonce has been reaped
  meanwhile, the nonce is given a second time; the chain answers that it is too low, which counts as
  sent, and the transaction is never carried out. A start whose query of
  the table fails (`:303-313`) can begin in the same way, and only the errors of the
  claims show it.
* `MaxInFlight` is no bound on what is in flight after a re-organisation: what was
  confirmed and comes back is not counted against it
  (`evm_tx_store.go:787, 1096`; `InFlightBounded` leaves them out).
* An attempt that cannot be bumped goes back in progress whatever the reason
  (`confirmer.go:761-769`), with a receipt that it may have kept from a dropped block;
  if the Ethereum node then calls it fatal, it is deleted with the receipt.
* A node that has lost the lease takes it back silently if the other's is over
  at its next refresh; the comment at `lease_lock.go:49-51` says that it panics.
* `PruneUnstartedTxQueue` runs on a connection of its own inside the insertion
  (`evm_tx_store.go:1859-1884`), so that it does not see the new row, and one more than the
  queue size remains.

## 7. What is not modelled, and why

* Aave, ERC-20 and ERC-721 are external: tokens move exactly the amount asked for
  or revert, aTokens are worth their face value, `repayWithATokens` burns aTokens
  of the reserve it names, an amount of 0 is refused. Liquidity, allowances,
  collateral and frozen reserves only make calls revert. Liquidation and
  repayment by others are left out: they would lower the debt below the loans.
* Receivers that run code of their own (a certificate sent to a contract, tokens
  with callbacks): accounts take what they get (see the plan).
* Gas: `MaxStaff` and `MaxBatch` stand for what fits in a block.
* The price oracle, because its answer is not used; views, events and text
  fields, because no property is about them.
* The Ethereum node of the transaction manager is one and honest: it may refuse,
  be busy, lose an answer, withhold receipts and re-organise up to the finality
  depth, and it does not forget a pending transaction that it took. In `Broadcaster`
  what a re-organisation drops is pending again; in `Confirmer` it may be lost. Dropped blocks
  do not come back. Several RPC
  nodes that disagree are not modelled.
* Of the broadcaster: `MaxQueued` and idempotency keys, which only refuse a
  call; several keys, which do not share rows; `NonceAutoSync` off (the default is
  on).
* Of the confirmer: `ForceRebroadcast`, a manual command that sends without
  touching the tables; transactions sent from the same key by another wallet;
  a chain of heads that is loaded only in part; heads that come out of order, which
  the head tracker holds back; that `MaxInFlight` and `BumpTxDepth` cut off what one
  head bumps. Transaction `t` has nonce `t - 1`: a nonce that is used again after a
  restart is the broadcaster's part.
* Of the lease: clocks. All times are those of the database, as in the code; that
  a process runs its ticker at the same rate is assumed; when it starts and how
  late it is looked at is free.
* The rest of the Chainlink node (hundreds of thousands of lines, most of them
  generated wrappers of contracts): PayBox uses the node as the sender of its
  trigger. Keepers, OCR, CCIP, the log poller, job specifications, the web API
  and the key store do not touch what a trigger's transaction goes through. The
  share of the repository that is modelled is therefore small, and the share of
  the program PayBox is, and of the path of its trigger, is large.
