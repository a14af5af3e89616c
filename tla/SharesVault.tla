---------------------------- MODULE SharesVault ----------------------------
(***************************************************************************)
(* The savings vault of a PayBox dashboard (payboxDashboard.sol).  A staff *)
(* account buys shares with an asset, which the dashboard supplies to      *)
(* Aave; Aave credits the dashboard with aTokens of that asset.  Shares    *)
(* are priced by the dashboard's balance of one aToken, whose address is   *)
(* written in the code, whatever the asset that is paid or taken out.      *)
(*                                                                         *)
(* Aave and the ERC-20 tokens are external: a token moves exactly the      *)
(* amount asked for or reverts, aTokens are worth their face value, Aave   *)
(* refuses an amount of 0, and the aTokens of the dashboard may grow at    *)
(* any time, by interest or by a transfer to it.  An allowance that is too *)
(* small, a frozen reserve or a lack of liquidity make a call revert,      *)
(* which is the absence of a step.                                         *)
(***************************************************************************)
EXTENDS StaffRegistry, Sums

CONSTANTS
  Dashboard,   \* the dashboard's own account, a holder of tokens
  Asset,       \* the ERC-20 tokens that Aave takes
  PayToken,    \* token: the asset salaries are paid in
  ShareAsset,  \* the asset whose aToken buyShares and withdrawShares read
  Wealth,      \* what every account holds of an asset at first
  Payments,    \* the amounts shares are bought for
  Gains,       \* the amounts by which a balance of aTokens grows at once
  MaxGain,     \* bound: what the aTokens of an asset grow by in all
  MaxUint      \* the largest uint256

Holder == Address \cup {Dashboard}

ASSUME VaultAssumption ==
  /\ Dashboard \notin Address
  /\ PayToken \in Asset
  /\ ShareAsset \in Asset
  /\ Wealth \in [Asset -> Nat]
  /\ Payments \subseteq Nat
  /\ Gains \subseteq Nat
  /\ MaxGain \in Nat
  /\ MaxUint \in Nat
  /\ IsFiniteSet(Address)

VARIABLES
  wallet,       \* the balance of every holder in every asset
  aBalance,     \* the aTokens of the dashboard, by asset
  gained,       \* history: what the aTokens of an asset have grown by
  staffShares,  \* mapping(address => uint256)
  totalShares   \* uint

vaultVars == <<wallet, aBalance, gained, staffShares, totalShares>>

VaultInit ==
  /\ wallet = [asset \in Asset |->
                [h \in Holder |-> IF h = Dashboard THEN 0 ELSE Wealth[asset]]]
  /\ aBalance = [asset \in Asset |-> 0]
  /\ gained = [asset \in Asset |-> 0]
  /\ staffShares = [a \in Address |-> 0]
  /\ totalShares = 0

-----------------------------------------------------------------------------
(***************************************************************************)
(* Aave, acting for the dashboard.                                         *)
(***************************************************************************)

\* supply of amount that the account from has paid to the dashboard.
Supply(asset, amount, from) ==
  /\ amount > 0
  /\ wallet[asset][from] >= amount
  /\ wallet' = [wallet EXCEPT ![asset][from] = @ - amount]
  /\ aBalance' = [aBalance EXCEPT ![asset] = @ + amount]

Withdrawable(asset, amount) == amount > 0 /\ aBalance[asset] >= amount

Withdraw(asset, amount, to) ==
  /\ Withdrawable(asset, amount)
  /\ aBalance' = [aBalance EXCEPT ![asset] = @ - amount]
  /\ wallet' = [wallet EXCEPT ![asset][to] = @ + amount]

\* Interest, or aTokens somebody transfers to the dashboard.
ATokensArrive(asset, gain) ==
  /\ gained[asset] + gain <= MaxGain
  /\ gained' = [gained EXCEPT ![asset] = @ + gain]
  /\ aBalance' = [aBalance EXCEPT ![asset] = @ + gain]
  /\ UNCHANGED <<wallet, staffShares, totalShares>>

-----------------------------------------------------------------------------
(***************************************************************************)
(* The calls.  Products and sums are checked: one beyond MaxUint reverts,  *)
(* and so does a division by zero.                                         *)
(***************************************************************************)
totalInvestment == aBalance[ShareAsset]

\* Mutants: always a share for a unit; the ratio upside down.
SharesAtPar(amount) == amount

SharesInverted(amount) ==
  IF totalShares = 0 THEN amount ELSE (amount * totalInvestment) \div totalShares

\* The shares that buyShares mints for amount.
SharesFor(amount) ==
  IF totalShares = 0 THEN amount ELSE (amount * totalShares) \div totalInvestment

\* Some member of staff pays for the account _staff, which need not be staff.
BuyShares(caller, _staff, _amount, _asset) ==
  /\ staffExist[caller]
  /\ wallet[PayToken][_staff] >= _amount
  /\ totalShares # 0 => totalInvestment # 0 /\ _amount * totalShares <= MaxUint
  /\ totalShares + SharesFor(_amount) <= MaxUint
  /\ Supply(_asset, _amount, _staff)
  /\ staffShares' = [staffShares EXCEPT ![_staff] = @ + SharesFor(_amount)]
  /\ totalShares' = totalShares + SharesFor(_amount)
  /\ UNCHANGED gained

\* What withdrawShares pays for shares.
Value(shares) == (shares * totalInvestment) \div totalShares

SharesKept(_staff) == staffShares  \* mutant: the shares are not burned

SharesBurned(_staff) == [staffShares EXCEPT ![_staff] = 0]

\* Mutant: the tokens that are paid are deducted, instead of the shares.
TotalWithoutTokens(_staff) == totalShares - Value(staffShares[_staff])

TotalWithoutShares(_staff) == totalShares - staffShares[_staff]

\* When withdrawShares does not revert.
WithdrawalGranted(_staff, _asset) ==
  /\ totalShares # 0
  /\ staffShares[_staff] * totalInvestment <= MaxUint
  /\ Withdrawable(_asset, Value(staffShares[_staff]))

\* Anyone may call it; all the shares of _staff are burned.
WithdrawShares(_staff, _asset) ==
  /\ WithdrawalGranted(_staff, _asset)
  /\ Withdraw(_asset, Value(staffShares[_staff]), _staff)
  /\ staffShares' = SharesBurned(_staff)
  /\ totalShares' = TotalWithoutShares(_staff)
  /\ UNCHANGED gained

VaultNext ==
  \E asset \in Asset :
    \/ \E gain \in Gains : ATokensArrive(asset, gain)
    \/ \E caller, _staff \in Address, _amount \in Payments :
         BuyShares(caller, _staff, _amount, asset)
    \/ \E _staff \in Address : WithdrawShares(_staff, asset)

-----------------------------------------------------------------------------
(***************************************************************************)
(* The vault beside the registry, whose staffExist buyShares reads.        *)
(***************************************************************************)
savingsVars == <<registryVars, vaultVars>>

SavingsInit == RegistryInit /\ VaultInit

SavingsNext ==
  \/ VaultNext /\ UNCHANGED registryVars
  \/ RegistryNext /\ UNCHANGED vaultVars

SavingsSpec == SavingsInit /\ [][SavingsNext]_savingsVars

-----------------------------------------------------------------------------
(***************************************************************************)
(* Properties.                                                             *)
(***************************************************************************)
VaultTypeOK ==
  /\ wallet \in [Asset -> [Holder -> Nat]]
  /\ aBalance \in [Asset -> Nat]
  /\ gained \in [Asset -> Nat]
  /\ staffShares \in [Address -> Nat]
  /\ totalShares \in Nat

\* totalShares, which prices every purchase and every withdrawal, is the sum
\* of the accounts' shares after any calls.
TotalIsSum == totalShares = Total(staffShares)

\* With one asset a share is worth at least the unit it was first bought for:
\* the vault holds an aToken for every share.
SharesAreBacked == totalShares <= aBalance[ShareAsset]

\* What an account gets for its shares now.
Claim(a) == IF staffShares[a] = 0 THEN 0 ELSE Value(staffShares[a])

\* Whatever the assets, the aTokens that price the shares cover what all the
\* accounts together would get for theirs.
ClaimsAreCovered == Total([a \in Address |-> Claim(a)]) <= totalInvestment

\* With one asset no call of another account, and no purchase of its own,
\* lowers what an account gets for its shares: the roundings of buyShares and
\* withdrawShares are both in favour of those who stay.
ClaimsNeverFall ==
  [][\A a \in Address : staffShares'[a] >= staffShares[a] => Claim(a)' >= Claim(a)]_savingsVars

\* With more assets, a purchase that mints shares for another asset than the one
\* that prices them.
ForeignPurchase == totalShares' > totalShares /\ totalInvestment' <= totalInvestment

\* With one asset, and as long as the vault has a holder, nobody gains by a
\* trade of its own: what an account has in its wallet and in the vault does
\* not rise when it buys or withdraws.
Worth(a) == wallet[ShareAsset][a] + Claim(a)

NoGainFromTrading ==
  [][\A a \in Address :
       totalShares # 0 /\ wallet'[ShareAsset][a] # wallet[ShareAsset][a] =>
         Worth(a)' <= Worth(a)]_savingsVars

\* With one asset every holder of shares can withdraw them: they are worth a
\* token at least and the dashboard has as many as it has to pay, so that, as
\* long as the product is a uint256, withdrawShares does not revert.
HoldersCanLeave ==
  \A a \in Address :
    staffShares[a] > 0 /\ staffShares[a] * totalInvestment <= MaxUint =>
      WithdrawalGranted(a, ShareAsset)

\* A purchase keeps "(T + s) / T = (a + B) / B" (payboxDashboard.sol:274-283),
\* rounded in favour of those who hold shares.
PurchaseKeepsPrice ==
  [][totalShares # 0 /\ totalShares' > totalShares =>
       totalShares' * totalInvestment <= totalInvestment' * totalShares]_savingsVars

=============================================================================
