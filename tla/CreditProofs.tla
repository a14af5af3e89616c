---------------------------- MODULE CreditProofs ----------------------------
(***************************************************************************)
(* Theorems about the savings vault and the GHO loans beside it, for any   *)
(* accounts, assets, amounts, prices and bounds.                           *)
(***************************************************************************)
EXTENDS GhoLoans, DataLemmas

USE RegistryAssumption, VaultAssumption, LoanAssumption

-----------------------------------------------------------------------------
(***************************************************************************)
(* The vault.  Arithmetic of the price.                                    *)
(***************************************************************************)

\* A quotient is a natural number, and the largest whose product fits.
LEMMA Quotient ==
  ASSUME NEW m \in Nat, NEW d \in Nat \ {0}
  PROVE  /\ m \div d \in Nat
         /\ (m \div d) * d <= m
         /\ m < (m \div d + 1) * d
OBVIOUS

\* A factor other than 0 is cancelled.
LEMMA Cancel ==
  ASSUME NEW m \in Nat, NEW n \in Nat, NEW d \in Nat \ {0}, m * d <= n * d
  PROVE  m <= n
<1>1. ASSUME n < m
      PROVE  FALSE
  <2>1. n + 1 <= m
    BY <1>1
  <2>2. (n + 1) * d <= m * d
    BY <2>1
  <2>3. (n + 1) * d = n * d + d
    OBVIOUS
  <2>4. m * d \in Nat /\ n * d \in Nat
    OBVIOUS
  <2> QED BY <2>2, <2>3, <2>4
<1> QED BY <1>1

\* A quotient that is rounded down does not fall when the price does not.
LEMMA QuotientGrows ==
  ASSUME NEW s \in Nat, NEW r \in Nat, s <= r,
         NEW B \in Nat, NEW C \in Nat, NEW T \in Nat \ {0}, NEW U \in Nat \ {0},
         B * U <= C * T
  PROVE  (s * B) \div T <= (r * C) \div U
<1> DEFINE q == (s * B) \div T
<1>1. s * B \in Nat /\ r * C \in Nat
  OBVIOUS
<1>2. q \in Nat /\ q * T <= s * B
  BY <1>1, Quotient
<1> HIDE DEF q
<1>3. (q * U) * T <= (r * C) * T
  <2>1. (q * T) * U <= (s * B) * U
    BY <1>1, <1>2
  <2>2. s * (B * U) <= s * (C * T)
    OBVIOUS
  <2>3. s * (C * T) <= r * (C * T)
    OBVIOUS
  <2>4. /\ (q * T) * U = (q * U) * T
        /\ (s * B) * U = s * (B * U)
        /\ r * (C * T) = (r * C) * T
    BY <1>2
  <2>5. /\ (q * U) * T \in Nat /\ s * (B * U) \in Nat
        /\ s * (C * T) \in Nat /\ r * (C * T) \in Nat
    BY <1>2
  <2> QED BY <2>1, <2>2, <2>3, <2>4, <2>5
<1>4. q * U <= r * C
  <2>1. q * U \in Nat
    BY <1>2
  <2> QED BY <1>1, <1>3, <2>1, Cancel
<1> DEFINE p == (r * C) \div U
<1>5. p \in Nat /\ r * C < (p + 1) * U
  BY <1>1, Quotient
<1> HIDE DEF p
<1>6. q < p + 1
  <2>1. ASSUME p + 1 <= q
        PROVE  FALSE
    <3>1. (p + 1) * U <= q * U
      BY <1>2, <1>5, <2>1
    <3>2. (p + 1) * U \in Nat /\ q * U \in Nat
      BY <1>2, <1>5
    <3> QED BY <1>1, <1>4, <1>5, <3>1, <3>2
  <2> QED BY <1>2, <1>5, <2>1
<1> QED BY <1>2, <1>5, <1>6 DEF p, q

\* What buyShares mints, when it does not revert.
LEMMA SharesForType ==
  ASSUME VaultTypeOK, NEW amount \in Nat, totalShares # 0 => totalInvestment # 0
  PROVE  SharesFor(amount) \in Nat
<1>1. totalInvestment \in Nat /\ totalShares \in Nat
  BY DEF totalInvestment, VaultTypeOK
<1>2. CASE totalShares = 0
  BY <1>2 DEF SharesFor
<1>3. CASE totalShares # 0
  <2>1. amount * totalShares \in Nat
    BY <1>1
  <2> QED BY <1>1, <1>3, <2>1, Quotient DEF SharesFor
<1> QED BY <1>2, <1>3

LEMMA ValueType ==
  ASSUME VaultTypeOK, NEW shares \in Nat, totalShares # 0
  PROVE  Value(shares) \in Nat
<1>1. shares * totalInvestment \in Nat /\ totalShares \in Nat \ {0}
  BY DEF totalInvestment, VaultTypeOK
<1> QED BY <1>1, Quotient DEF Value

-----------------------------------------------------------------------------
(***************************************************************************)
(* The inductive invariant: the types, and totalShares as the sum of the   *)
(* accounts' shares.  The types alone are not inductive, as withdrawShares *)
(* subtracts an account's shares from totalShares.                         *)
(***************************************************************************)
VaultInv == VaultTypeOK /\ TotalIsSum

LEMMA SharesUpdate ==
  ASSUME VaultTypeOK, NEW a \in Address, NEW shares \in Nat,
         staffShares' = [staffShares EXCEPT ![a] = shares]
  PROVE  Total(staffShares') = Total(staffShares) - staffShares[a] + shares
<1>1. staffShares \in [Address -> Nat]
  BY DEF VaultTypeOK
<1>2. /\ staffShares' \in [Address -> Nat] /\ staffShares'[a] = shares
      /\ \A b \in Address : b # a => staffShares'[b] = staffShares[b]
  BY <1>1
<1>3. \A f, g \in [Address -> Nat], b \in Address :
        (\A c \in Address : c # b => g[c] = f[c]) =>
          Total(g) = Total(f) - f[b] + g[b]
  BY TotalUpdate
<1> QED BY <1>1, <1>2, <1>3

LEMMA VaultInitially == VaultInit => VaultInv
<1> SUFFICES ASSUME VaultInit
             PROVE  VaultInv
  OBVIOUS
<1>1. VaultTypeOK
  BY DEF VaultInit, VaultTypeOK, Holder
<1>2. Total(staffShares) = 0
  BY TotalBounds DEF VaultInit
<1> QED BY <1>1, <1>2 DEF VaultInit, VaultInv, TotalIsSum

LEMMA BuySharesKeeps ==
  ASSUME VaultInv, NEW caller \in Address, NEW _staff \in Address,
         NEW _amount \in Nat, NEW _asset \in Asset,
         BuyShares(caller, _staff, _amount, _asset)
  PROVE  VaultInv'
<1> DEFINE shares == SharesFor(_amount)
<1>1. shares \in Nat
  BY SharesForType DEF BuyShares, VaultInv
<1>2. /\ staffShares \in [Address -> Nat] /\ totalShares \in Nat
      /\ totalShares = Total(staffShares)
  BY DEF VaultInv, VaultTypeOK, TotalIsSum
<1>3. staffShares' = [staffShares EXCEPT ![_staff] = staffShares[_staff] + shares]
  BY DEF BuyShares
<1>4. totalShares' = totalShares + shares
  BY DEF BuyShares
<1> HIDE DEF shares
<1>5. Total(staffShares') = Total(staffShares) + shares
  <2>1. staffShares[_staff] + shares \in Nat
    BY <1>1, <1>2
  <2>2. Total(staffShares') = Total(staffShares) - staffShares[_staff]
                                + (staffShares[_staff] + shares)
    BY <1>3, <2>1, SharesUpdate DEF VaultInv
  <2> QED BY <1>1, <1>2, <2>2
<1>6. TotalIsSum'
  BY <1>2, <1>4, <1>5 DEF TotalIsSum
<1>7. (wallet \in [Asset -> [Holder -> Nat]])' /\ (aBalance \in [Asset -> Nat])'
  <2>1. /\ wallet[_asset] \in [Holder -> Nat] /\ _staff \in Holder
        /\ wallet \in [Asset -> [Holder -> Nat]] /\ aBalance \in [Asset -> Nat]
    BY DEF VaultInv, VaultTypeOK, Holder
  <2>2. /\ wallet[_asset][_staff] - _amount \in Nat
        /\ wallet' = [wallet EXCEPT ![_asset] =
                       [wallet[_asset] EXCEPT ![_staff] = wallet[_asset][_staff] - _amount]]
        /\ aBalance' = [aBalance EXCEPT ![_asset] = aBalance[_asset] + _amount]
    BY <2>1 DEF BuyShares, Supply
  <2> QED BY <2>1, <2>2
<1> QED BY <1>1, <1>2, <1>3, <1>4, <1>6, <1>7 DEF VaultInv, VaultTypeOK, BuyShares

LEMMA WithdrawSharesKeeps ==
  ASSUME VaultInv, NEW _staff \in Address, NEW _asset \in Asset,
         WithdrawShares(_staff, _asset)
  PROVE  VaultInv'
<1> DEFINE amount == Value(staffShares[_staff])
<1>1. /\ staffShares \in [Address -> Nat] /\ totalShares \in Nat
      /\ totalShares = Total(staffShares)
  BY DEF VaultInv, VaultTypeOK, TotalIsSum
<1>2. amount \in Nat
  BY <1>1, ValueType DEF WithdrawShares, WithdrawalGranted, SharesBurned, TotalWithoutShares, VaultInv
<1>3. staffShares' = [staffShares EXCEPT ![_staff] = 0]
  BY DEF WithdrawShares, WithdrawalGranted, SharesBurned, TotalWithoutShares
<1>4. totalShares' = totalShares - staffShares[_staff]
  BY DEF WithdrawShares, WithdrawalGranted, SharesBurned, TotalWithoutShares
<1>5. Total(staffShares') = Total(staffShares) - staffShares[_staff]
  <2>1. Total(staffShares') = Total(staffShares) - staffShares[_staff] + 0
    BY <1>3, SharesUpdate DEF VaultInv
  <2> QED BY <1>1, <2>1
<1>6. staffShares[_staff] <= totalShares
  BY <1>1, TotalBounds
<1>7. (wallet \in [Asset -> [Holder -> Nat]])' /\ (aBalance \in [Asset -> Nat])'
  <2> HIDE DEF amount
  <2>1. Withdraw(_asset, amount, _staff)
    BY DEF WithdrawShares, WithdrawalGranted, SharesBurned, TotalWithoutShares, amount
  <2>2. /\ wallet[_asset] \in [Holder -> Nat] /\ _staff \in Holder
        /\ wallet \in [Asset -> [Holder -> Nat]] /\ aBalance \in [Asset -> Nat]
    BY DEF VaultInv, VaultTypeOK, Holder
  <2>3. /\ aBalance[_asset] - amount \in Nat
        /\ wallet' = [wallet EXCEPT ![_asset] =
                       [wallet[_asset] EXCEPT ![_staff] = wallet[_asset][_staff] + amount]]
        /\ aBalance' = [aBalance EXCEPT ![_asset] = aBalance[_asset] - amount]
    BY <1>2, <2>1, <2>2 DEF Withdraw, Withdrawable
  <2> QED BY <1>2, <2>2, <2>3
<1> QED BY <1>1, <1>3, <1>4, <1>5, <1>6, <1>7
     DEF VaultInv, VaultTypeOK, TotalIsSum, WithdrawShares, WithdrawalGranted, SharesBurned, TotalWithoutShares

LEMMA ATokensArriveKeeps ==
  ASSUME VaultInv, NEW asset \in Asset, NEW gain \in Nat, ATokensArrive(asset, gain)
  PROVE  VaultInv'
BY DEF VaultInv, VaultTypeOK, TotalIsSum, ATokensArrive

LEMMA VaultStepKeeps ==
  ASSUME VaultInv, [SavingsNext]_savingsVars
  PROVE  VaultInv'
<1>1. CASE VaultNext
  BY <1>1, ATokensArriveKeeps, BuySharesKeeps, WithdrawSharesKeeps DEF VaultNext
<1>2. CASE UNCHANGED vaultVars
  BY <1>2 DEF vaultVars, VaultInv, VaultTypeOK, TotalIsSum
<1> QED BY <1>1, <1>2 DEF SavingsNext, savingsVars

\* The vault's slots keep their types: in particular no withdrawal takes
\* totalShares below zero, and no balance becomes negative.
THEOREM VaultTypeCorrect == SavingsSpec => []VaultTypeOK
<1>1. SavingsInit => VaultInv
  BY VaultInitially DEF SavingsInit
<1>2. VaultInv /\ [SavingsNext]_savingsVars => VaultInv'
  BY VaultStepKeeps
<1>3. VaultInv => VaultTypeOK
  BY DEF VaultInv
<1> QED BY <1>1, <1>2, <1>3, PTL DEF SavingsSpec

\* totalShares is the sum of the shares of the accounts, whatever assets are
\* paid and withdrawn.
THEOREM SharesAddUp == SavingsSpec => []TotalIsSum
<1>1. SavingsInit => VaultInv
  BY VaultInitially DEF SavingsInit
<1>2. VaultInv /\ [SavingsNext]_savingsVars => VaultInv'
  BY VaultStepKeeps
<1>3. VaultInv => TotalIsSum
  BY DEF VaultInv
<1> QED BY <1>1, <1>2, <1>3, PTL DEF SavingsSpec

-----------------------------------------------------------------------------
(***************************************************************************)
(* With one asset the price of a share never falls.  PriceInv is the       *)
(* inductive invariant of that vault: SharesAreBacked says that the price  *)
(* is at least 1, so that it is defined as long as there are shares.       *)
(***************************************************************************)
PriceInv == VaultInv /\ SharesAreBacked

\* What BuyShares does when there is only one asset.
LEMMA BuySharesOneAsset ==
  ASSUME Asset = {ShareAsset}, PriceInv,
         NEW caller \in Address, NEW _staff \in Address,
         NEW _amount \in Nat, NEW _asset \in Asset,
         BuyShares(caller, _staff, _amount, _asset)
  PROVE  /\ totalInvestment' = totalInvestment + _amount
         /\ totalShares' = totalShares + SharesFor(_amount)
         /\ SharesFor(_amount) \in Nat
         /\ totalShares = 0 => SharesFor(_amount) = _amount
         /\ SharesFor(_amount) * totalInvestment <= _amount * totalShares \/ totalShares = 0
<1>1. /\ aBalance \in [Asset -> Nat] /\ totalShares \in Nat
      /\ totalInvestment = aBalance[ShareAsset] /\ _asset = ShareAsset
      /\ VaultTypeOK
  BY DEF PriceInv, VaultInv, VaultTypeOK, totalInvestment
<1>2. SharesFor(_amount) \in Nat
  BY <1>1, SharesForType DEF BuyShares
<1>3. totalInvestment' = totalInvestment + _amount
  BY <1>1 DEF BuyShares, Supply, totalInvestment
<1>4. ASSUME totalShares # 0
      PROVE  SharesFor(_amount) * totalInvestment <= _amount * totalShares
  <2>1. totalInvestment \in Nat \ {0} /\ _amount * totalShares \in Nat
    BY <1>1, <1>4 DEF BuyShares
  <2> QED BY <1>4, <2>1, Quotient DEF SharesFor
<1> QED BY <1>2, <1>3, <1>4 DEF BuyShares, SharesFor

LEMMA WithdrawSharesOneAsset ==
  ASSUME Asset = {ShareAsset}, PriceInv,
         NEW _staff \in Address, NEW _asset \in Asset,
         WithdrawShares(_staff, _asset)
  PROVE  LET shares == staffShares[_staff]
             amount == Value(shares)
         IN  /\ totalShares \in Nat \ {0} /\ totalInvestment \in Nat
             /\ shares \in Nat /\ shares <= totalShares
             /\ amount \in Nat /\ amount <= totalInvestment
             /\ amount * totalShares <= shares * totalInvestment
             /\ totalInvestment' = totalInvestment - amount
             /\ totalShares' = totalShares - shares
<1>1. /\ aBalance \in [Asset -> Nat] /\ totalShares \in Nat \ {0}
      /\ totalInvestment = aBalance[ShareAsset] /\ _asset = ShareAsset
      /\ staffShares \in [Address -> Nat] /\ VaultTypeOK
      /\ totalShares = Total(staffShares)
  BY DEF PriceInv, VaultInv, VaultTypeOK, TotalIsSum, totalInvestment, WithdrawShares, WithdrawalGranted, SharesBurned, TotalWithoutShares
<1>2. staffShares[_staff] <= totalShares
  BY <1>1, TotalBounds
<1>3. staffShares[_staff] * totalInvestment \in Nat
  BY <1>1
<1>4. /\ Value(staffShares[_staff]) \in Nat
      /\ Value(staffShares[_staff]) * totalShares <= staffShares[_staff] * totalInvestment
  BY <1>1, <1>3, Quotient DEF Value
<1>5. /\ totalInvestment' = totalInvestment - Value(staffShares[_staff])
      /\ Value(staffShares[_staff]) <= totalInvestment
  BY <1>1, <1>4 DEF WithdrawShares, WithdrawalGranted, SharesBurned, TotalWithoutShares, Withdraw, Withdrawable, totalInvestment
<1> QED BY <1>1, <1>2, <1>4, <1>5 DEF WithdrawShares, WithdrawalGranted, SharesBurned, TotalWithoutShares

\* The price B / T moves to C / U when a is paid for s shares.
LEMMA PriceAfterPurchase ==
  ASSUME NEW B \in Nat, NEW T \in Nat \ {0}, NEW a \in Nat, NEW s \in Nat,
         T <= B, s * B <= a * T
  PROVE  /\ T + s <= B + a
         /\ B * (T + s) <= (B + a) * T
<1>1. s <= a
  <2>1. a * T <= a * B
    OBVIOUS
  <2>2. s * B \in Nat /\ a * B \in Nat /\ a * T \in Nat
    OBVIOUS
  <2>3. s * B <= a * B
    BY <2>1, <2>2
  <2> QED BY <2>3, Cancel
<1>2. /\ B * (T + s) = B * T + s * B
      /\ (B + a) * T = B * T + a * T
  OBVIOUS
<1>3. B * T \in Nat /\ s * B \in Nat /\ a * T \in Nat
  OBVIOUS
<1> QED BY <1>1, <1>2, <1>3

\* And when s shares are burned for a.
LEMMA PriceAfterWithdrawal ==
  ASSUME NEW B \in Nat, NEW T \in Nat \ {0}, NEW a \in Nat, NEW s \in Nat,
         T <= B, s <= T, a <= B, a * T <= s * B
  PROVE  /\ T - s <= B - a
         /\ B * (T - s) <= (B - a) * T
<1>1. /\ B * (T - s) = B * T - s * B
      /\ (B - a) * T = B * T - a * T
  OBVIOUS
<1>2. B * T \in Nat /\ s * B \in Nat /\ a * T \in Nat
  OBVIOUS
<1>3. B * (T - s) <= (B - a) * T
  BY <1>1, <1>2
<1>4. (T - s) * T <= (B - a) * T
  <2>1. T * (T - s) <= B * (T - s)
    OBVIOUS
  <2>2. T * (T - s) = (T - s) * T
    OBVIOUS
  <2>3. /\ T * (T - s) \in Int /\ B * (T - s) \in Int
        /\ (B - a) * T \in Int
    OBVIOUS
  <2> QED BY <1>3, <2>1, <2>2, <2>3
<1>5. T - s <= B - a
  <2>1. T - s \in Nat /\ B - a \in Nat
    OBVIOUS
  <2> QED BY <1>4, <2>1, Cancel
<1> QED BY <1>3, <1>5

\* What every step does to the price, with one asset.
PriceStep ==
  /\ totalShares' <= totalInvestment'
  /\ totalInvestment * totalShares' <= totalInvestment' * totalShares \/ totalShares = 0

LEMMA PriceNeverFalls ==
  ASSUME Asset = {ShareAsset}, PriceInv, [SavingsNext]_savingsVars
  PROVE  PriceStep
<1>1. /\ aBalance \in [Asset -> Nat] /\ totalShares \in Nat
      /\ totalInvestment = aBalance[ShareAsset]
      /\ totalInvestment \in Nat /\ totalShares <= totalInvestment
  BY DEF PriceInv, VaultInv, VaultTypeOK, SharesAreBacked, totalInvestment
<1>2. ASSUME NEW asset \in Asset, NEW gain \in Gains, ATokensArrive(asset, gain)
      PROVE  PriceStep
  <2>1. totalInvestment' = totalInvestment + gain /\ totalShares' = totalShares
    BY <1>1, <1>2 DEF ATokensArrive, totalInvestment
  <2>2. gain \in Nat
    OBVIOUS
  <2>3. totalInvestment * totalShares <= (totalInvestment + gain) * totalShares
    BY <1>1, <2>2
  <2> QED BY <1>1, <2>1, <2>2, <2>3 DEF PriceStep
<1>3. ASSUME NEW asset \in Asset, NEW caller \in Address, NEW _staff \in Address,
             NEW _amount \in Payments, BuyShares(caller, _staff, _amount, asset)
      PROVE  PriceStep
  <2> DEFINE shares == SharesFor(_amount)
  <2>1. /\ totalInvestment' = totalInvestment + _amount
        /\ totalShares' = totalShares + shares
        /\ shares \in Nat /\ _amount \in Nat
        /\ totalShares = 0 => shares = _amount
        /\ shares * totalInvestment <= _amount * totalShares \/ totalShares = 0
    BY <1>3, BuySharesOneAsset
  <2> HIDE DEF shares
  <2>2. CASE totalShares = 0
    BY <1>1, <2>1, <2>2 DEF PriceStep
  <2>3. CASE totalShares # 0
    BY <1>1, <2>1, <2>3, PriceAfterPurchase DEF PriceStep
  <2> QED BY <2>2, <2>3
<1>4. ASSUME NEW asset \in Asset, NEW _staff \in Address, WithdrawShares(_staff, asset)
      PROVE  PriceStep
  <2> DEFINE shares == staffShares[_staff]
             amount == Value(shares)
  <2>1. /\ totalShares \in Nat \ {0}
        /\ shares \in Nat /\ shares <= totalShares
        /\ amount \in Nat /\ amount <= totalInvestment
        /\ amount * totalShares <= shares * totalInvestment
        /\ totalInvestment' = totalInvestment - amount
        /\ totalShares' = totalShares - shares
    BY <1>4, WithdrawSharesOneAsset
  <2> HIDE DEF shares, amount
  <2> QED BY <1>1, <2>1, PriceAfterWithdrawal DEF PriceStep
<1>5. CASE UNCHANGED vaultVars
  BY <1>1, <1>5 DEF vaultVars, PriceStep, totalInvestment
<1> QED BY <1>2, <1>3, <1>4, <1>5 DEF SavingsNext, VaultNext, savingsVars

LEMMA PriceInvariant ==
  ASSUME Asset = {ShareAsset}
  PROVE  SavingsSpec => []PriceInv
<1>1. SavingsInit => PriceInv
  BY VaultInitially DEF SavingsInit, VaultInit, PriceInv, SharesAreBacked
<1>2. PriceInv /\ [SavingsNext]_savingsVars => PriceInv'
  BY VaultStepKeeps, PriceNeverFalls DEF PriceInv, PriceStep, SharesAreBacked, totalInvestment
<1> QED BY <1>1, <1>2, PTL DEF SavingsSpec

\* With one asset, the dashboard has an aToken for every share at any time.
THEOREM SharesBacked ==
  ASSUME Asset = {ShareAsset}
  PROVE  SavingsSpec => []SharesAreBacked
<1>1. PriceInv => SharesAreBacked
  BY DEF PriceInv
<1> QED BY <1>1, PriceInvariant, PTL

\* The price of a share, the quotient of the two, does not fall.
PriceKept == totalInvestment * totalShares' <= totalInvestment' * totalShares

\* What the accounts' claims need of the price.
LEMMA ClaimKept ==
  ASSUME VaultInv, VaultInv', totalShares # 0 => PriceKept,
         NEW a \in Address, staffShares'[a] >= staffShares[a]
  PROVE  Claim(a)' >= Claim(a)
<1>1. /\ staffShares \in [Address -> Nat] /\ totalShares \in Nat
      /\ totalShares = Total(staffShares) /\ totalInvestment \in Nat
  BY DEF VaultInv, VaultTypeOK, TotalIsSum, totalInvestment
<1>2. /\ staffShares' \in [Address -> Nat] /\ totalShares' \in Nat
      /\ totalShares' = Total(staffShares') /\ totalInvestment' \in Nat
  BY DEF VaultInv, VaultTypeOK, TotalIsSum, totalInvestment
<1>3. CASE staffShares[a] = 0
  <2>1. Claim(a) = 0
    BY <1>3 DEF Claim
  <2>2. Claim(a)' \in Nat
    <3>1. CASE staffShares'[a] = 0
      BY <3>1 DEF Claim
    <3>2. CASE staffShares'[a] # 0
      <4>1. totalShares' \in Nat \ {0}
        BY <1>2, <3>2, TotalBounds
      <4>2. staffShares'[a] * totalInvestment' \in Nat
        BY <1>2
      <4> QED BY <3>2, <4>1, <4>2, Quotient DEF Claim, Value
    <3> QED BY <3>1, <3>2
  <2> QED BY <2>1, <2>2
<1>4. CASE staffShares[a] # 0
  <2>1. totalShares \in Nat \ {0} /\ totalShares' \in Nat \ {0}
    BY <1>1, <1>2, <1>4, TotalBounds
  <2>2. totalInvestment * totalShares' <= totalInvestment' * totalShares
    BY <2>1 DEF PriceKept
  <2>3. Claim(a) = (staffShares[a] * totalInvestment) \div totalShares
    BY <1>4 DEF Claim, Value
  <2>4. Claim(a)' = (staffShares'[a] * totalInvestment') \div totalShares'
    BY <1>1, <1>2, <1>4 DEF Claim, Value
  <2>5. Claim(a) <= Claim(a)'
    <3>1. /\ staffShares[a] \in Nat /\ staffShares'[a] \in Nat
          /\ staffShares[a] <= staffShares'[a]
      BY <1>1, <1>2
    <3>2. (staffShares[a] * totalInvestment) \div totalShares
            <= (staffShares'[a] * totalInvestment') \div totalShares'
      BY <1>1, <1>2, <2>1, <2>2, <3>1, QuotientGrows
    <3> QED BY <2>3, <2>4, <3>2
  <2>6. Claim(a) \in Nat /\ Claim(a)' \in Nat
    <3>1. staffShares[a] * totalInvestment \in Nat /\ staffShares'[a] * totalInvestment' \in Nat
      BY <1>1, <1>2
    <3> QED BY <2>1, <2>3, <2>4, <3>1, Quotient
  <2> QED BY <2>5, <2>6
<1> QED BY <1>3, <1>4

\* With one asset, an account that keeps its shares can withdraw no less after
\* any step than before it.
THEOREM ClaimsGrow ==
  ASSUME Asset = {ShareAsset}
  PROVE  SavingsSpec => ClaimsNeverFall
<1>1. PriceInv /\ PriceInv' /\ [SavingsNext]_savingsVars =>
        \A a \in Address : staffShares'[a] >= staffShares[a] => Claim(a)' >= Claim(a)
  <2> SUFFICES ASSUME PriceInv, PriceInv', [SavingsNext]_savingsVars
               PROVE  \A a \in Address : staffShares'[a] >= staffShares[a] => Claim(a)' >= Claim(a)
    OBVIOUS
  <2>1. totalShares # 0 => PriceKept
    BY PriceNeverFalls DEF PriceStep, PriceKept
  <2> QED BY <2>1, ClaimKept DEF PriceInv
<1>2. SavingsSpec => [][SavingsNext]_savingsVars
  BY DEF SavingsSpec
<1> QED BY <1>1, <1>2, PriceInvariant, PTL DEF ClaimsNeverFall

\* Who holds S of T shares and buys s for c has, in the vault, at most c more:
\* the shares are worth no more than they cost.
LEMMA PurchaseGainsNothing ==
  ASSUME NEW S \in Nat, NEW B \in Nat, NEW T \in Nat \ {0}, NEW c \in Nat, NEW s \in Nat,
         S <= T, s * B <= c * T
  PROVE  ((S + s) * (B + c)) \div (T + s) <= (S * B) \div T + c
<1> DEFINE q == (S * B) \div T
           k == ((S + s) * (B + c)) \div (T + s)
           n == q + c + 1
<1>1. S * B \in Nat /\ (S + s) * (B + c) \in Nat /\ T + s \in Nat \ {0}
  OBVIOUS
<1>2. q \in Nat /\ S * B < (q + 1) * T
  BY <1>1, Quotient
<1>3. k \in Nat /\ k * (T + s) <= (S + s) * (B + c)
  BY <1>1, Quotient
<1> HIDE DEF q, k
<1>4. n \in Nat /\ n * (T + s) \in Nat
  BY <1>2
<1>5. (S + s) * (B + c) < n * (T + s)
  <2> DEFINE r == (q + 1) * T - S * B
             x == T - S
             y == c * T - s * B
  <2>1. r \in Nat \ {0} /\ x \in Nat /\ y \in Nat
    <3>1. (q + 1) * T \in Nat /\ c * T \in Nat /\ s * B \in Nat
      BY <1>2
    <3> QED BY <1>1, <1>2, <3>1
  <2>2. (n * (T + s)) * T = ((S + s) * (B + c)) * T + (r * (T + s) + x * y)
    BY <1>2
  <2> HIDE DEF r, x, y, n
  <2>3. r * (T + s) + x * y \in Nat \ {0}
    <3>1. r * (T + s) >= T + s /\ r * (T + s) \in Nat /\ x * y \in Nat
      BY <2>1
    <3> QED BY <1>1, <3>1
  <2>4. ASSUME n * (T + s) <= (S + s) * (B + c)
        PROVE  FALSE
    <3>1. (n * (T + s)) * T <= ((S + s) * (B + c)) * T
      BY <1>1, <1>4, <2>4
    <3>2. ((S + s) * (B + c)) * T \in Nat
      BY <1>1
    <3> QED BY <2>2, <2>3, <3>1, <3>2
  <2> QED BY <1>1, <1>4, <2>4
<1>6. k < n
  <2>1. ASSUME n <= k
        PROVE  FALSE
    <3>1. n * (T + s) <= k * (T + s)
      BY <1>1, <1>3, <1>4, <2>1
    <3>2. k * (T + s) \in Nat
      BY <1>1, <1>3
    <3> QED BY <1>1, <1>3, <1>4, <1>5, <3>1, <3>2
  <2> QED BY <1>3, <1>4, <2>1
<1> QED BY <1>2, <1>3, <1>6 DEF q, k

\* Nothing, divided.
LEMMA NoQuotient ==
  ASSUME NEW B \in Nat, NEW T \in Nat \ {0}
  PROVE  (0 * B) \div T = 0
OBVIOUS

\* What an account gets for its shares is their part of the balance, also for
\* none, while there are shares.
LEMMA ClaimIsQuotient ==
  ASSUME VaultTypeOK, totalShares # 0, NEW a \in Address
  PROVE  /\ Claim(a) = (staffShares[a] * totalInvestment) \div totalShares
         /\ Claim(a) \in Nat
<1>1. staffShares[a] \in Nat /\ totalInvestment \in Nat /\ totalShares \in Nat \ {0}
  BY DEF VaultTypeOK, totalInvestment
<1>2. staffShares[a] * totalInvestment \in Nat
  BY <1>1
<1>3. (staffShares[a] * totalInvestment) \div totalShares \in Nat
  BY <1>1, <1>2, Quotient
<1>4. (0 * totalInvestment) \div totalShares = 0
  BY <1>1, NoQuotient
<1> QED BY <1>3, <1>4 DEF Claim, Value

\* With one asset, and while the vault has a holder, an account that buys shares
\* or withdraws them has no more, in its wallet and in the vault, than before.
THEOREM NobodyGainsByTrading ==
  ASSUME Asset = {ShareAsset}
  PROVE  SavingsSpec => NoGainFromTrading
<1>1. ASSUME PriceInv, PriceInv', [SavingsNext]_savingsVars, NEW a \in Address,
             totalShares # 0, wallet'[ShareAsset][a] # wallet[ShareAsset][a]
      PROVE  Worth(a)' <= Worth(a)
  <2>1. /\ VaultTypeOK /\ staffShares \in [Address -> Nat] /\ totalShares \in Nat \ {0}
        /\ wallet \in [Asset -> [Holder -> Nat]] /\ a \in Holder /\ ShareAsset \in Asset
        /\ totalShares = Total(staffShares) /\ totalInvestment \in Nat
    BY <1>1 DEF PriceInv, VaultInv, VaultTypeOK, TotalIsSum, totalInvestment, Holder
  <2>2. wallet[ShareAsset][a] \in Nat /\ staffShares[a] \in Nat /\ staffShares[a] <= totalShares
    BY <2>1, TotalBounds
  <2>3. /\ Claim(a) = (staffShares[a] * totalInvestment) \div totalShares
        /\ Claim(a) \in Nat
    BY <1>1, <2>1, ClaimIsQuotient
  <2>4. ASSUME NEW asset \in Asset, NEW caller \in Address, NEW _staff \in Address,
               NEW _amount \in Payments, BuyShares(caller, _staff, _amount, asset)
        PROVE  Worth(a)' <= Worth(a)
    <3> DEFINE shares == SharesFor(_amount)
    <3>1. /\ asset = ShareAsset /\ _amount \in Nat
          /\ wallet' = [wallet EXCEPT ![asset][_staff] = @ - _amount]
          /\ wallet[asset][_staff] >= _amount
          /\ staffShares' = [staffShares EXCEPT ![_staff] = @ + shares]
      BY <2>4 DEF BuyShares, Supply
    <3>2. a = _staff
      BY <1>1, <2>1, <3>1
    <3>3. wallet'[ShareAsset][a] = wallet[ShareAsset][a] - _amount
      BY <2>1, <3>1, <3>2
    <3>4. /\ totalInvestment' = totalInvestment + _amount
          /\ totalShares' = totalShares + shares
          /\ shares \in Nat
          /\ shares * totalInvestment <= _amount * totalShares
      BY <1>1, <2>4, <3>1, BuySharesOneAsset
    <3>5. staffShares'[a] = staffShares[a] + shares
      BY <2>1, <3>1, <3>2
    <3> HIDE DEF shares
    <3>6. totalShares' # 0
      BY <2>1, <3>4
    <3>7. /\ Claim(a)' = (staffShares'[a] * totalInvestment') \div totalShares'
          /\ Claim(a)' \in Nat
      <4>1. staffShares'[a] \in Nat /\ totalInvestment' \in Nat /\ totalShares' \in Nat \ {0}
        BY <2>1, <2>2, <3>1, <3>4, <3>5
      <4>2. staffShares'[a] * totalInvestment' \in Nat
        BY <4>1
      <4>3. (staffShares'[a] * totalInvestment') \div totalShares' \in Nat
        BY <4>1, <4>2, Quotient
      <4>4. (0 * totalInvestment') \div totalShares' = 0
        BY <4>1, NoQuotient
      <4> QED BY <4>3, <4>4 DEF Claim, Value
    <3>8. Claim(a)' <= Claim(a) + _amount
      <4>1. Claim(a)' = ((staffShares[a] + shares) * (totalInvestment + _amount))
                          \div (totalShares + shares)
        BY <3>4, <3>5, <3>7
      <4>2. ((staffShares[a] + shares) * (totalInvestment + _amount)) \div (totalShares + shares)
              <= (staffShares[a] * totalInvestment) \div totalShares + _amount
        BY <2>1, <2>2, <3>1, <3>4, PurchaseGainsNothing
      <4> QED BY <2>3, <4>1, <4>2
    <3>9. wallet[ShareAsset][a] - _amount \in Nat
      BY <2>2, <3>1, <3>2
    <3> QED BY <2>2, <2>3, <3>1, <3>3, <3>7, <3>8, <3>9 DEF Worth
  <2>5. ASSUME NEW asset \in Asset, NEW _staff \in Address, WithdrawShares(_staff, asset)
        PROVE  Worth(a)' <= Worth(a)
    <3> DEFINE amount == Value(staffShares[_staff])
    <3>1. /\ asset = ShareAsset
          /\ wallet' = [wallet EXCEPT ![asset][_staff] = @ + amount]
          /\ staffShares' = [staffShares EXCEPT ![_staff] = 0]
      BY <2>5 DEF WithdrawShares, WithdrawalGranted, Withdraw, Withdrawable, SharesBurned
    <3>2. a = _staff
      BY <1>1, <2>1, <3>1
    <3>3. amount = Claim(a)
      BY <2>3, <3>2 DEF Value
    <3>4. staffShares'[a] = 0
      BY <2>1, <3>1, <3>2
    <3>5. Claim(a)' = 0
      BY <3>4 DEF Claim
    <3> HIDE DEF amount
    <3>6. wallet'[ShareAsset][a] = wallet[ShareAsset][a] + Claim(a)
      BY <2>1, <3>1, <3>2, <3>3
    <3> QED BY <2>2, <2>3, <3>5, <3>6 DEF Worth
  <2>6. wallet' # wallet
    BY <1>1
  <2>7. ASSUME NEW asset \in Asset, NEW gain \in Gains, ATokensArrive(asset, gain)
        PROVE  FALSE
    BY <2>6, <2>7 DEF ATokensArrive
  <2> QED BY <1>1, <2>4, <2>5, <2>6, <2>7 DEF SavingsNext, VaultNext, savingsVars, vaultVars
<1>2. PriceInv /\ PriceInv' /\ [SavingsNext]_savingsVars =>
        \A a \in Address :
          totalShares # 0 /\ wallet'[ShareAsset][a] # wallet[ShareAsset][a] =>
            Worth(a)' <= Worth(a)
  BY <1>1
<1>3. SavingsSpec => [][SavingsNext]_savingsVars
  BY DEF SavingsSpec
<1> QED BY <1>2, <1>3, PriceInvariant, PTL DEF NoGainFromTrading

\* With one asset, whoever has shares is not turned away by withdrawShares.
THEOREM HoldersArePaid ==
  ASSUME Asset = {ShareAsset}
  PROVE  SavingsSpec => []HoldersCanLeave
<1>1. ASSUME PriceInv, NEW a \in Address, staffShares[a] > 0
      PROVE  totalShares # 0 /\ Withdrawable(ShareAsset, Value(staffShares[a]))
  <2> DEFINE S == staffShares[a]
             B == totalInvestment
             T == totalShares
             q == (S * B) \div T
  <2>1. /\ staffShares \in [Address -> Nat] /\ T = Total(staffShares) /\ T \in Nat
        /\ B \in Nat /\ B = aBalance[ShareAsset] /\ T <= B
    BY <1>1 DEF PriceInv, VaultInv, VaultTypeOK, TotalIsSum, SharesAreBacked, totalInvestment
  <2>2. S \in Nat \ {0} /\ S <= T
    BY <1>1, <2>1, TotalBounds
  <2>3. T \in Nat \ {0} /\ S * B \in Nat
    BY <2>1, <2>2
  <2>4. q \in Nat /\ q * T <= S * B /\ S * B < (q + 1) * T
    BY <2>3, Quotient
  <2> HIDE DEF S, B, T, q
  <2>5. q # 0
    <3>1. B <= S * B
      BY <2>1, <2>2
    <3>2. ASSUME q = 0
          PROVE  FALSE
      <4>1. (q + 1) * T = T
        BY <2>3, <3>2
      <4> QED BY <2>1, <2>3, <2>4, <3>1, <4>1
    <3> QED BY <3>2
  <2>6. q <= B
    <3>1. S * B <= T * B /\ T * B = B * T
      BY <2>1, <2>2, <2>3
    <3>2. q * T <= B * T
      <4>1. q * T \in Nat /\ B * T \in Nat
        BY <2>1, <2>3, <2>4
      <4> QED BY <2>3, <2>4, <3>1, <4>1
    <3> QED BY <2>1, <2>3, <2>4, <3>2, Cancel
  <2>7. q \in 1 .. B
    BY <2>1, <2>4, <2>5, <2>6
  <2>8. q = Value(staffShares[a])
    BY DEF Value, S, B, T, q
  <2>9. totalShares # 0
    BY <2>3 DEF T
  <2> QED BY <2>1, <2>7, <2>8, <2>9 DEF Withdrawable
<1>2. PriceInv => HoldersCanLeave
  BY <1>1 DEF HoldersCanLeave, WithdrawalGranted
<1> QED BY <1>2, PriceInvariant, PTL

\* The claims are rounded down, and the shares are those of the accounts: what
\* one account gets for its shares never needs the tokens of another.
LEMMA VaultIsSolvent == VaultInv => ClaimsAreCovered
<1> SUFFICES ASSUME VaultInv PROVE ClaimsAreCovered
  OBVIOUS
<1> DEFINE B == totalInvestment
           T == totalShares
           claims == [a \in Address |-> Claim(a)]
<1>1. /\ staffShares \in [Address -> Nat] /\ T \in Nat /\ B \in Nat /\ T = Total(staffShares)
  BY DEF VaultInv, VaultTypeOK, TotalIsSum, totalInvestment
<1>2. ASSUME NEW a \in Address
      PROVE  Claim(a) \in Nat /\ Claim(a) * T <= staffShares[a] * B
  <2>1. CASE staffShares[a] = 0
    <3>1. Claim(a) = 0 /\ 0 * T = 0 /\ 0 * B = 0
      BY <1>1, <2>1 DEF Claim
    <3> QED BY <2>1, <3>1
  <2>2. CASE staffShares[a] # 0
    <3>1. T \in Nat \ {0}
      BY <1>1, <2>2, TotalBounds
    <3>2. staffShares[a] * B \in Nat
      BY <1>1
    <3>3. Claim(a) = (staffShares[a] * B) \div T
      BY <2>2 DEF Claim, Value
    <3> QED BY <3>1, <3>2, <3>3, Quotient
  <2> QED BY <2>1, <2>2
<1>3. /\ claims \in [Address -> Nat]
      /\ \A a \in Address : claims[a] * T <= staffShares[a] * B
  BY <1>2
<1> HIDE DEF claims, B, T
<1>4. Total(claims) * T <= T * B
  BY <1>1, <1>3, TotalProducts
<1>5. Total(claims) \in Nat
  BY <1>3, UnitsFinite
<1>6. Total(claims) <= B
  <2>1. CASE T = 0
    <3>1. ASSUME NEW a \in Address PROVE staffShares[a] = 0
      <4>1. staffShares[a] <= Total(staffShares) /\ staffShares[a] \in Nat
        BY <1>1, TotalBounds
      <4> QED BY <1>1, <2>1, <4>1
    <3>2. \A a \in Address : claims[a] = 0
      BY <3>1 DEF claims, Claim
    <3>3. Total(claims) = 0
      BY <1>3, <3>2, TotalBounds
    <3> QED BY <1>1, <3>3
  <2>2. CASE T # 0
    <3>1. T * B = B * T /\ T \in Nat \ {0}
      BY <1>1, <2>2
    <3> QED BY <1>1, <1>4, <1>5, <3>1, Cancel
  <2> QED BY <2>1, <2>2
<1> QED BY <1>6 DEF claims, B, ClaimsAreCovered

\* With any assets, no step of the vault but a purchase in another asset lowers
\* the price: a withdrawal in another asset burns shares and pays from elsewhere.
LEMMA VaultKeepsPrice ==
  ASSUME VaultInv, VaultNext, ~ForeignPurchase, totalShares # 0
  PROVE  PriceKept
<1> DEFINE B == totalInvestment
           T == totalShares
<1>1. /\ aBalance \in [Asset -> Nat] /\ T \in Nat \ {0} /\ B \in Nat /\ B = aBalance[ShareAsset]
      /\ staffShares \in [Address -> Nat] /\ T = Total(staffShares)
  BY DEF VaultInv, VaultTypeOK, TotalIsSum, totalInvestment
<1>2. ASSUME NEW asset \in Asset, NEW gain \in Gains, ATokensArrive(asset, gain)
      PROVE  PriceKept
  <2>1. gain \in Nat /\ T' = T
    BY <1>2 DEF ATokensArrive
  <2>2. aBalance' = [aBalance EXCEPT ![asset] = aBalance[asset] + gain]
    BY <1>2 DEF ATokensArrive
  <2>3. B' = B \/ B' = B + gain
    BY <1>1, <2>2 DEF totalInvestment
  <2>4. B * T <= (B + gain) * T
    BY <1>1, <2>1
  <2>5. B * T \in Nat
    BY <1>1
  <2> HIDE DEF B, T
  <2>6. B * T' <= B' * T
    <3>1. CASE B' = B
      BY <2>1, <2>5, <3>1
    <3>2. CASE B' = B + gain
      BY <2>1, <2>4, <3>2
    <3> QED BY <2>3, <3>1, <3>2
  <2> QED BY <2>6 DEF PriceKept, B, T
<1>3. ASSUME NEW asset \in Asset, NEW caller \in Address, NEW _staff \in Address,
             NEW _amount \in Payments, BuyShares(caller, _staff, _amount, asset)
      PROVE  PriceKept
  <2> DEFINE s == SharesFor(_amount)
  <2>1. /\ _amount \in Nat /\ B # 0 /\ T' = T + s
        /\ aBalance' = [aBalance EXCEPT ![asset] = aBalance[asset] + _amount]
    BY <1>3 DEF BuyShares, Supply
  <2>2. s = (_amount * T) \div B
    BY DEF SharesFor
  <2>3. _amount * T \in Nat /\ B \in Nat \ {0}
    BY <1>1, <2>1
  <2>4. s \in Nat /\ s * B <= _amount * T
    BY <2>2, <2>3, Quotient
  <2>5. B' = IF asset = ShareAsset THEN B + _amount ELSE B
    BY <1>1, <2>1 DEF totalInvestment
  <2>6. B' > B \/ T' <= T
    <3>1. ~(T' > T /\ B' <= B)
      BY DEF ForeignPurchase
    <3>2. B \in Int /\ B' \in Int /\ T \in Int /\ T' \in Int
      BY <1>1, <2>1, <2>4, <2>5
    <3> HIDE DEF B, T
    <3> QED BY <3>1, <3>2
  <2> HIDE DEF B, T, s
  <2>7. B * T' <= B' * T
    <3>1. CASE asset = ShareAsset
      <4>1. /\ B * (T + s) = B * T + s * B
            /\ (B + _amount) * T = B * T + _amount * T
        BY <1>1, <2>1, <2>4
      <4>2. B * T \in Nat /\ s * B \in Nat /\ _amount * T \in Nat
        BY <1>1, <2>1, <2>4
      <4>3. B * (T + s) <= (B + _amount) * T
        BY <2>4, <4>1, <4>2
      <4> QED BY <2>1, <2>5, <3>1, <4>3
    <3>2. CASE asset # ShareAsset
      <4>1. B' = B /\ s = 0
        BY <1>1, <2>1, <2>4, <2>5, <2>6, <3>2
      <4>2. B * T \in Nat
        BY <1>1
      <4> QED BY <1>1, <2>1, <4>1, <4>2
    <3> QED BY <3>1, <3>2
  <2> QED BY <2>7 DEF PriceKept, B, T
<1>4. ASSUME NEW asset \in Asset, NEW _staff \in Address, WithdrawShares(_staff, asset)
      PROVE  PriceKept
  <2> DEFINE s == staffShares[_staff]
             v == Value(s)
  <2>1. /\ T' = T - s /\ v <= aBalance[asset]
        /\ aBalance' = [aBalance EXCEPT ![asset] = aBalance[asset] - v]
    BY <1>4 DEF WithdrawShares, WithdrawalGranted, Withdraw, Withdrawable, TotalWithoutShares
  <2>2. s \in Nat /\ s <= T
    BY <1>1, TotalBounds
  <2>3. s * B \in Nat
    BY <1>1, <2>2
  <2>4. v \in Nat /\ v * T <= s * B
    BY <1>1, <2>3, Quotient DEF Value
  <2>5. B' = IF asset = ShareAsset THEN B - v ELSE B
    BY <1>1, <2>1 DEF totalInvestment
  <2>6. asset = ShareAsset => v <= B
    BY <1>1, <2>1
  <2> HIDE DEF B, T, s, v
  <2>7. /\ B * (T - s) = B * T - s * B
        /\ (B - v) * T = B * T - v * T
    BY <1>1, <2>2, <2>4
  <2>8. B * T \in Nat /\ s * B \in Nat /\ v * T \in Nat
    BY <1>1, <2>2, <2>4
  <2>9. B * (T - s) <= (B - v) * T /\ B * (T - s) <= B * T
    BY <2>4, <2>7, <2>8
  <2>10. B * T' <= B' * T
    <3>1. CASE asset = ShareAsset
      BY <2>1, <2>5, <2>9, <3>1
    <3>2. CASE asset # ShareAsset
      BY <2>1, <2>5, <2>9, <3>2
    <3> QED BY <3>1, <3>2
  <2> QED BY <2>10 DEF PriceKept, B, T
<1> QED BY <1>2, <1>3, <1>4 DEF VaultNext

-----------------------------------------------------------------------------
(***************************************************************************)
(* The loans.  Their inductive invariant is the conjunction of the three   *)
(* invariants that the payroll run checks: that the sum of the loans is    *)
(* within the debt is kept because a payback repays at most the loan it    *)
(* clears.                                                                 *)
(***************************************************************************)
LoanInv ==
  /\ LoanTypeOK
  /\ ActiveIsOwing
  /\ LoansAreOwedToAave

\* A number rounded down to a multiple of another.
LEMMA RoundedDown ==
  ASSUME NEW n \in Nat, NEW d \in Nat \ {0}
  PROVE  /\ (n \div d) * d \in Nat
         /\ (n \div d) * d <= n
         /\ n - (n \div d) * d < d
<1>1. n = d * (n \div d) + (n % d) /\ n % d \in 0 .. d - 1 /\ n \div d \in Nat
  OBVIOUS
<1> DEFINE q == n \div d
<1>2. q \in Nat /\ n = d * q + (n % d)
  BY <1>1
<1>3. d * q = q * d /\ q * d \in Nat
  <2> HIDE DEF q
  <2> QED BY <1>2
<1> QED BY <1>1, <1>2, <1>3

\* The sum of the loans moves with the loan of one account.
LEMMA LoansUpdate ==
  ASSUME staffLoan \in [Address -> Nat], staffLoan' \in [Address -> Nat],
         NEW a \in Address, \A b \in Address : b # a => staffLoan'[b] = staffLoan[b]
  PROVE  /\ Total(staffLoan) \in Nat
         /\ Total(staffLoan') = Total(staffLoan) - staffLoan[a] + staffLoan'[a]
<1>1. \A f, g \in [Address -> Nat], b \in Address :
        (\A c \in Address : c # b => g[c] = f[c]) =>
          Total(g) = Total(f) - f[b] + g[b]
  BY TotalUpdate
<1> QED BY <1>1, UnitsFinite

LEMMA LoansInitially == LoanInit => LoanInv
<1> SUFFICES ASSUME LoanInit
             PROVE  LoanInv
  OBVIOUS
<1>1. LoanTypeOK /\ ActiveIsOwing
  BY DEF LoanInit, LoanTypeOK, ActiveIsOwing
<1>2. Total(staffLoan) = 0
  BY TotalBounds DEF LoanInit
<1>3. LoansAreOwedToAave
  BY <1>2 DEF LoanInit, LoansAreOwedToAave
<1> QED BY <1>1, <1>3 DEF LoanInv

LEMMA BorrowKeeps ==
  ASSUME LoanInv, NEW _staff \in Address, NEW desiredAmount \in Nat,
         BorrowGHOTokens(_staff, desiredAmount)
  PROVE  LoanInv'
<1>1. /\ staffLoan \in [Address -> Nat] /\ borrowActive \in [Address -> BOOLEAN]
      /\ ghoDebt \in Nat /\ desiredAmount > 0
      /\ staffLoan' = [staffLoan EXCEPT ![_staff] = staffLoan[_staff] + desiredAmount]
      /\ borrowActive' = [borrowActive EXCEPT ![_staff] = TRUE]
      /\ ghoDebt' = ghoDebt + desiredAmount
  BY DEF LoanInv, LoanTypeOK, BorrowGHOTokens
<1>2. LoanTypeOK'
  BY <1>1 DEF LoanTypeOK
<1>3. ActiveIsOwing'
  BY <1>1 DEF LoanInv, ActiveIsOwing
<1>4. Total(staffLoan) \in Nat
      /\ Total(staffLoan') = Total(staffLoan) + desiredAmount
  <2>1. /\ staffLoan' \in [Address -> Nat]
        /\ staffLoan'[_staff] = staffLoan[_staff] + desiredAmount
        /\ \A b \in Address : b # _staff => staffLoan'[b] = staffLoan[b]
    BY <1>1
  <2>2. Total(staffLoan) \in Nat
        /\ Total(staffLoan') = Total(staffLoan) - staffLoan[_staff] + staffLoan'[_staff]
    BY <1>1, <2>1, LoansUpdate
  <2> QED BY <1>1, <2>1, <2>2
<1>5. LoansAreOwedToAave'
  BY <1>1, <1>4 DEF LoanInv, LoansAreOwedToAave
<1> QED BY <1>2, <1>3, <1>5 DEF LoanInv

\* What a payback does to the loans and to the debt.
LEMMA PaybackEffect ==
  ASSUME LoanInv, NEW _staff \in Address, NEW unit \in BaseUnits,
         PaybackLoan(_staff, unit)
  PROVE  /\ totalDebtETH(unit) \in Nat \ {0}
         /\ ghoPayback(_staff, unit) \in Nat
         /\ ghoPayback(_staff, unit) <= staffLoan[_staff]
         /\ staffLoan[_staff] - ghoPayback(_staff, unit) < totalDebtETH(unit)
         /\ ghoPayback(_staff, unit) <= ghoDebt
         /\ ghoDebt' = ghoDebt - ghoPayback(_staff, unit)
         /\ staffLoan' = [staffLoan EXCEPT ![_staff] = 0]
         /\ borrowActive' = [borrowActive EXCEPT ![_staff] = FALSE]
<1>1. staffLoan \in [Address -> Nat] /\ ghoDebt \in Nat /\ unit \in Nat \ {0}
  BY DEF LoanInv, LoanTypeOK
<1>2. totalDebtETH(unit) \in Nat \ {0}
  <2>1. ghoDebt \div unit \in Nat
    BY <1>1
  <2> QED BY <2>1 DEF PaybackLoan, totalDebtETH
<1>3. /\ ghoPayback(_staff, unit) \in Nat
      /\ ghoPayback(_staff, unit) <= staffLoan[_staff]
      /\ staffLoan[_staff] - ghoPayback(_staff, unit) < totalDebtETH(unit)
  BY <1>1, <1>2, RoundedDown DEF ghoPayback
<1>4. staffLoan[_staff] <= Total(staffLoan) /\ Total(staffLoan) \in Nat
  BY <1>1, TotalBounds, UnitsFinite
<1>5. ghoPayback(_staff, unit) <= ghoDebt
  BY <1>1, <1>3, <1>4 DEF LoanInv, LoansAreOwedToAave
<1>6. ghoDebt' = ghoDebt - ghoPayback(_staff, unit)
  <2>1. Lesser(ghoPayback(_staff, unit), ghoDebt) = ghoPayback(_staff, unit)
    BY <1>5 DEF Lesser
  <2> QED BY <2>1 DEF PaybackLoan, PayGhoOwe
<1> QED BY <1>2, <1>3, <1>5, <1>6 DEF PaybackLoan, LoanCleared

LEMMA PaybackKeeps ==
  ASSUME LoanInv, NEW _staff \in Address, NEW unit \in BaseUnits,
         PaybackLoan(_staff, unit)
  PROVE  LoanInv'
<1> DEFINE paid == ghoPayback(_staff, unit)
<1>1. /\ staffLoan \in [Address -> Nat] /\ borrowActive \in [Address -> BOOLEAN]
      /\ ghoDebt \in Nat
  BY DEF LoanInv, LoanTypeOK
<1>2. /\ paid \in Nat /\ paid <= staffLoan[_staff] /\ paid <= ghoDebt
      /\ ghoDebt' = ghoDebt - paid
      /\ staffLoan' = [staffLoan EXCEPT ![_staff] = 0]
      /\ borrowActive' = [borrowActive EXCEPT ![_staff] = FALSE]
  BY PaybackEffect
<1> HIDE DEF paid
<1>3. LoanTypeOK'
  BY <1>1, <1>2 DEF LoanTypeOK
<1>4. ActiveIsOwing'
  BY <1>1, <1>2 DEF LoanInv, ActiveIsOwing
<1>5. Total(staffLoan) \in Nat
      /\ Total(staffLoan') = Total(staffLoan) - staffLoan[_staff]
  <2>1. /\ staffLoan' \in [Address -> Nat] /\ staffLoan'[_staff] = 0
        /\ \A b \in Address : b # _staff => staffLoan'[b] = staffLoan[b]
    BY <1>1, <1>2
  <2>2. Total(staffLoan) \in Nat
        /\ Total(staffLoan') = Total(staffLoan) - staffLoan[_staff] + staffLoan'[_staff]
    BY <1>1, <2>1, LoansUpdate
  <2> QED BY <1>1, <2>1, <2>2
<1>6. LoansAreOwedToAave'
  BY <1>1, <1>2, <1>5 DEF LoanInv, LoansAreOwedToAave
<1> QED BY <1>3, <1>4, <1>6 DEF LoanInv

LEMMA CreditStepKeeps ==
  ASSUME LoanInv, [CreditNext]_creditVars
  PROVE  LoanInv'
<1>1. CASE \E interest \in Interests : InterestAccrues(interest)
  <2>1. PICK interest \in Interests : InterestAccrues(interest)
    BY <1>1
  <2>2. /\ interest \in Nat /\ ghoDebt \in Nat /\ ghoDebt' = ghoDebt + interest
        /\ staffLoan' = staffLoan /\ borrowActive' = borrowActive
        /\ staffLoan \in [Address -> Nat]
    BY <2>1 DEF InterestAccrues, LoanInv, LoanTypeOK
  <2>3. Total(staffLoan) \in Nat
    BY <2>2, UnitsFinite
  <2> QED BY <2>2, <2>3
       DEF LoanInv, LoanTypeOK, ActiveIsOwing, LoansAreOwedToAave
<1>2. CASE \E _staff \in Address, desiredAmount \in Loans :
             BorrowGHOTokens(_staff, desiredAmount)
  BY <1>2, BorrowKeeps
<1>3. CASE \E _staff \in Address, unit \in BaseUnits : PaybackLoan(_staff, unit)
  BY <1>3, PaybackKeeps
<1>4. CASE UNCHANGED loanVars
  BY <1>4 DEF loanVars, LoanInv, LoanTypeOK, ActiveIsOwing, LoansAreOwedToAave
<1> QED BY <1>1, <1>2, <1>3, <1>4 DEF CreditNext, LoanNext, creditVars

LEMMA LoanInvariant == CreditSpec => []LoanInv
<1>1. CreditInit => LoanInv
  BY LoansInitially DEF CreditInit
<1>2. LoanInv /\ [CreditNext]_creditVars => LoanInv'
  BY CreditStepKeeps
<1> QED BY <1>1, <1>2, PTL DEF CreditSpec

-----------------------------------------------------------------------------
\* The loans keep their types: no payback repays more than the debt.
THEOREM LoanTypeCorrect == CreditSpec => []LoanTypeOK
<1>1. LoanInv => LoanTypeOK
  BY DEF LoanInv
<1> QED BY <1>1, LoanInvariant, PTL

\* borrowActive is set for exactly the accounts that owe the dashboard.
THEOREM ActiveMeansOwing == CreditSpec => []ActiveIsOwing
<1>1. LoanInv => ActiveIsOwing
  BY DEF LoanInv
<1> QED BY <1>1, LoanInvariant, PTL

\* The dashboard owes Aave at least the sum of its staff's loans, so that a
\* payback never asks Aave for more than there is to repay.
THEOREM LoansWithinDebt == CreditSpec => []LoansAreOwedToAave
<1>1. LoanInv => LoansAreOwedToAave
  BY DEF LoanInv
<1> QED BY <1>1, LoanInvariant, PTL

=============================================================================
