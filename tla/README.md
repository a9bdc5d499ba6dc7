# Notional in TLA+

TLA+ models of Notional V1: fixed-term lending on Ethereum, the contracts
(`src/contracts`) and the scripts that deploy and upgrade them (`src/scripts`). An account deposits currency into the **Escrow**, provides
liquidity to or trades with a **CashMarket** (one contract per cash group, one
pool per maturity), and holds its claims and debts to future cash (fCash) in
**Portfolios**. At maturity assets turn into cash balances. An account must keep
its *free collateral* at or above zero; one that fails to may be liquidated. The
contracts are put on the chain, introduced to each other, configured, handed over
and upgraded by scripts that send one transaction after another.

- [1. Inventory](#1-inventory)
- [2. Modules](#2-modules)
- [3. How the models correspond to the code](#3-how-the-models-correspond-to-the-code)
- [4. Runs](#4-runs)
- [5. Proofs](#5-proofs)
- [6. Findings](#6-findings)
- [7. What is not modelled](#7-what-is-not-modelled)
- [8. Plan](#8-plan)

To check a run: `tlc -config MCLedger.cfg MCNotional` (a configuration names its
run, the module is `MCNotional`, `MCPortfolios`, `MCLiquidations`, `MCDeployment` or
`MCUpgrade`; section 4 says which). To check the proofs: `tlapm M.tla` for `Sums`,
`LedgerProofs`, `NotionalProofs`, `LiquidationsProofs`, `PortfoliosProofs`,
`SubmissionProofs`, `DeploymentProofs` and `UpgradeProofs`.

## 1. Inventory

| Component | Code | State | Operations | Talks to |
|---|---|---|---|---|
| Escrow balances | `Escrow.sol`, `storage/EscrowStorage.sol` | `cashBalances[currency][holder]` (accounts, markets and the reserve are holders); the tokens it owns; exchange rates, discounts | deposit, withdraw (ETH, ERC20, ERC777), `depositIntoMarket`, `withdrawFromMarket`, `unlockCurrentCash`, `portfolioSettleCash`, `settleReserve`, cash settlement, liquidation, fCash purchases | Portfolios (free collateral, settlement, raising cash), tokens, oracles |
| Cash market | `CashMarket.sol` | `markets[maturity]`: total fCash, liquidity tokens, cash; rate parameters | `addLiquidity`, `removeLiquidity`, `takeCurrentCash`, `takefCash`, `settleLiquidityToken`, `tradeLiquidityToken` | Escrow (cash), Portfolios (assets) |
| Portfolio storage | `Portfolios.sol`, `storage/PortfoliosStorage.sol` | `_accountAssets[account]`: an unordered array of assets; cash groups | upsert, transfer, mint, settle, raise cash for a liquidation | CashMarket, Escrow, RiskFramework |
| Risk framework | `utils/RiskFramework.sol`, `utils/ExchangeRate.sol` | none | free collateral: haircut claims, cash ladder, present value, conversion to ETH with buffers | reads markets, balances, oracles |
| Transfers | `ERC1155Token.sol`, `utils/ERC1155Base.sol` | operator approvals | transfer positions, one or many | Portfolios |
| Batched trading | `ERC1155Trade.sol` | – | deposits, trades and withdrawals under one deferred check; mint a pair | Escrow, CashMarket, Portfolios |
| Liquidation | `utils/Liquidation.sol` | none | how much to buy, at which discount; raising cash from the portfolio | Portfolios |
| Rate curve | `CashMarket.sol:1053-1260`, `lib/ABDKMath64x64.sol` | – | price of a trade from the pool's proportion | – |
| Governance, wiring | `utils/Governed.sol`, `utils/Directory.sol`, setters | parameters, the directory, the addresses each contract holds, owners | owner-only setters, `setContract`, `setDependencies`; `initializeDependencies` by anyone | each other |
| Proxies | `upgradeable/*.sol` (vendored) | the logic of each proxy, the owner of the ProxyAdmin | create at an address made of name and sender, upgrade | – |
| Deployment script | `scripts/deploy.ts`, `deployEnvironment.ts`, `NotionalDeployer.ts`, `RetryProvider.ts` | where it is (lost when it dies); the file of addresses | deploy, introduce, configure, list currencies, create markets, save, transfer ownership | node, chain, file |
| Upgrade script | `scripts/upgrade.ts`, `NotionalDeployer.ts` | addresses and bytecode hashes, from the file and back | deploy libraries and logic, point proxies, save | node, chain, file, git, the owner of the ProxyAdmin |

**Concurrency.** A transaction is atomic, so there are no races inside one; the
concurrency is the order of transactions, which the chain picks, between
accounts that share pools, the reserve and the market's balance, with time and
oracle prices moving between any two. Inside a transaction the hazards are those of
shared mutable state: a loop over an array that another contract's callback
shrinks, storage references to two portfolios that may be the same one, a
balance read before a settlement that changes it.

**Failure.** Inside the contracts a revert undoes the whole transaction; the
question is never recovery but whether a transaction that must be possible
(settling an account) can be made to revert for ever. The scripts are the opposite:
nothing undoes the calls before the one that failed, a script that dies
forgets where it was, a transaction whose answer was lost is mined all the same,
and the system is public from its first contract on.

**Hard to test**, per component, and what makes it correct:

- *Cash is recorded twice.* A pool's cash is in `CashMarket`, the tokens that
  back it in `Escrow`, and all maturities share one balance. Every call must
  move both by the same amount (`PoolCashBacked`), and the tokens the Escrow
  holds must equal balances plus what matured assets still owe, at every point
  of a half-settled maturity (`EscrowSolvent`).
- *Two-sided rounding.* Shares of cash and of fCash are rounded down separately.
  A pool must not lose one side while it has tokens (`PoolAlive`), the token must
  not be diluted by whoever enters or leaves (`TokenCashNeverDiluted`), and the
  last holder must still be able to settle (`HoldersCanSettle`).
- *Zero-sum claims.* Every claim is somebody's debt until maturity, across
  netting, liquidity provision, trading, transfers and early settlement of other
  maturities (`fCashNetsToZero`); tokens add up to the supply
  (`TokensMatchSupply`).
- *Unchecked parties.* The receiver of a transfer or mint is not checked
  (`ReceiverNeverWorseOff`), the account that is settled by a stranger is not
  asked (`SettlementKeepsCollateral`), and a checked account must not lose its
  collateral to other people's calls (`CollateralLostOnlyToMarkets`).
- *The array.* Merging with an entry of either sign, removal by swapping, the
  settlement loop and the liquidation loop over a shrinking array, with the
  liquidator possibly being the account that is sold (`OneEntryPerPosition`,
  `ImplementsBook`).

- *Estimates.* A liquidation works out who gets what from factors read at its
  start, trades out of the portfolio, corrects the factors by hand and writes
  balances read earlier. Afterwards the books must still add up (`EscrowSolvent`,
  `MarketIntegrity`), the account must not be worse off
  (`PayingDebtKeepsCollateral`) nor owe collateral (`CollateralNotOversold`), and
  one liquidation must do (`LiquidationRestores`).

- *Scripts.* Every call must find what it needs done by those before it
  (`RevertsOnlyOnCollision`), a market that takes money must be configured although
  its parameters are set one by one (`OpenMarketIsConfigured`), a run that ends must
  have handed over all it made (`FinishedIsHandedOver`), the file must name a
  deployment that is whole (`ImplementsPublication`) and code that is there
  (`FileDescribesChain`), and an upgrade must repair what an earlier one left half
  done (`MarketsFollowTheBuild`, `LinkedWithNewLibrary`).

The full list, with lines, is under `hazards` in `PROJECT.json`.

## 2. Modules

```
Positions ── RiskFramework ── Ledger ── Notional ── MCNotional (TLC)
    │                            ├── Liquidation ── Liquidations ── MCLiquidations (TLC)
    │                            │                       │
    │              Sums ── LedgerProofs ──┬── NotionalProofs (TLAPS, of Notional)
    │                │                    └── LiquidationsProofs (TLAPS)
    ├── PositionBook │              (abstract: a book of positions)
    └── Portfolios ──┼── MCPortfolios (TLC)  (detailed: arrays; implements PositionBook)
                     └── PortfoliosProofs (TLAPS)

Submission ──┬── Deployment ── MCDeployment (TLC)  (implements Publication)
    │        └── Upgrade ───── MCUpgrade (TLC)
    └── SubmissionProofs ──┬── DeploymentProofs (TLAPS)
                           └── UpgradeProofs (TLAPS)
```

| Module | Models |
|---|---|
| `Positions` | What a portfolio means: net fCash, liquidity tokens, and which maturities have a token entry, with what upsert, reduce and settle do to them. Shared by both state machines. |
| `RiskFramework` | Free collateral, as pure operators with the contract's rounding. |
| `Ledger` | The internal functions the transactions are put together from, on one record: `cash`, `held`, `portfolio`, `markets`. `CanX` says when `X` does not revert. |
| `Notional` | The state machine: one action per external call, each with every internal call it makes, the settlement and the free collateral check at its end included. |
| `Liquidation` | The arithmetic of `Liquidation.sol`, of selling tokens and receivers out of a portfolio, and of `ExchangeRate.sol`, over a ledger with a cash group in both currencies. |
| `Liquidations` | The state machine of `settleCashBalance`, `liquidate`, `settlefCash`, `liquidatefCash`. |
| `PositionBook` | What `Portfolios.sol` promises its callers: a call changes the positions of the accounts it names, as a whole. |
| `Portfolios` | The arrays themselves, and the refinement to `PositionBook`. |
| `Sums` | Facts about finite sums that TLAPS needs. |
| `LedgerProofs` | What the operators of `Ledger` and `RiskFramework` return and preserve; an order on ledgers under which free collateral is monotone. |
| `NotionalProofs`, `LiquidationsProofs`, `PortfoliosProofs` | The theorems about `Notional`, `Liquidations` and `Portfolios`. |
| `Submission` | How any script puts transactions on the chain: it sends one, waits, and dies anywhere; what it sent is mined in the order of its wallet. |
| `Publication` | What a deployment promises to those who read the file of addresses. |
| `Deployment` | `deploy.ts` as a sequence of calls, each with what the called contract requires and changes, and the users who do not wait for its end. |
| `Upgrade` | `upgrade.ts`: a program of parts, each deploying and pointing as the hashes, the ProxyAdmin and the arguments have it. |
| `SubmissionProofs`, `DeploymentProofs`, `UpgradeProofs` | The theorems about the scripts. |

`PositionBook` is also the link between the two state machines: `Notional` uses
positions where the code has arrays, and `ImplementsBook` is what justifies that.

## 3. How the models correspond to the code

**Notional.** `cash`, `held`, `portfolio` and `markets` are `cashBalances`, the
token balance of the Escrow, `_accountAssets` and `markets`; `now` is the block
time and `rate` the oracle's answer.

| Action | Code |
|---|---|
| `Deposit` | `Escrow.deposit`, `depositEth` |
| `Withdraw`, `WithdrawEth` | `Escrow._withdraw` (settles, then takes what there is), `_withdrawEth` (takes, then settles in the check) |
| `SettleReserve` | `Escrow.settleReserve` |
| `AddLiquidity`, `RemoveLiquidity` | `CashMarket._addLiquidity`, `_removeLiquidity` with the Escrow and Portfolios calls |
| `TakeCurrentCash`, `TakefCash` | `CashMarket._takeCurrentCash`, `_takefCash`, `_updateMarket` |
| `TransferfCash`, `TransferToken` | `ERC1155Token._transfer`, `Portfolios.transferAccountAsset` |
| `MintfCashPair` | `ERC1155Trade.safeTransferFrom`, `Portfolios.mintfCashPair` |
| `SettleMaturedAssets` | `Portfolios._settleMaturedAssets`, `CashMarket.settleLiquidityToken`, `Escrow.unlockCurrentCash`, `portfolioSettleCash` |
| `Tick`, `MoveRate` | a later block, a new oracle answer |

The free collateral check that ends most calls settles the account first, in the
code by calling `_settleMaturedAssets`; `CommitIfCollateralized` does the same,
so settlement is part of every checked action and never a step the model may skip.
Settlement of an account happens in one transaction, and the order of the loop
over its maturities does not matter to the positions; `Settle` is the sum.

Abstractions:

- *Price.* The rate curve is left open. A trade may have any cash amount the
  code's own checks allow: more than zero, not more than the fCash (an exchange
  rate below one is refused), less than the pool on the side it leaves, the fee
  covered. A property that holds for any such price holds for the curve's.
- *One cash group, two currencies.* ETH is collateral only; the second currency
  has the markets. Nothing in the code couples two cash groups but the sum in
  the free collateral.
- *Slippage and deadlines.* Limits the caller sets on rates and times only
  forbid calls and are left out; `maxfCash` stays because the first provider's
  value sets the pool.
- *Units.* `DECIMALS`, haircuts and fees are constants; the runs use small ones
  so that rounding shows at amounts of one and two.

**Liquidations.** The same state, with `portfolio` and `markets` per currency:
`WethGroup` is `Ledger` with the two currencies exchanged, so settlement of the
second cash group is the proved operator again. `Case` holds the free collateral
factors and the four transfer amounts, in the code a struct that every step of
`Liquidation.sol` changes; `LiquidateDebt`, `SettleDebt` and `TradefCash` are the
three public functions, and `ok` collects their `require`s.

| Action | Code |
|---|---|
| `SettleCashBalance` | `Escrow._settleCashBalance`, `Liquidation.settle` |
| `Liquidate` | `Escrow._liquidate`, `Liquidation.liquidate` with or without a limit |
| `SettleLocalfCash`, `SettlefCash` | the two branches of `Escrow.settlefCash` |
| `LiquidatefCash` | `Escrow.liquidatefCash` |
| `Finish` in each | `_finishLiquidateSettle`: the token comes in by a transfer, by an ERC777 send, or, with a transfer fee, out of the liquidator's balance |

The order in which receivers are sold is that of the array, which positions do not
have: any order is a step. The collateral currency is ETH, and both tokens have
`DECIMALS` decimals. A behaviour starts in one of the ledgers of `Start`, of which
`StartAssumption` asks what `NotionalProofs` proves of every ledger the market makes:
tokens cover the debts, pools are backed and alive, claims net to zero. The runs start
from any combination of the payer's balance, tokens and fCash per currency, with the
other side held by a maker, and TLC evaluates the assumption on each.

**Portfolios.** `accountAssets` is `_accountAssets`: a sequence of
`[maturity, kind, notional]`. `UpsertAsset`, `ReduceAsset`, `RemoveAsset` and
`Matching` are the internal methods; `SettlePass`, `UpsertPass` and `SellPass` are one
pass of the loops, index and all, and `Settled`, `UpsertAll` and `SellReceivers` the
state after as many passes as the loops make. The
actions are the external calls. What a caller computes (notionals, how many
receivers a liquidation needs, the fCash that comes out of redeemed tokens,
whether a free collateral check passes) is left open. Unlike in `Notional`, a
call may be followed by a check or not, as the market passes `checkFreeCollateral`.

The refinement mapping reads an array with the *first* matching entry, as
`_searchAsset` does. So if the array ever had two entries for one position, the
mapping would lose one and the step would not be a step of the book.

**Submission, Deployment, Upgrade.** A run of a script is a number; `phase` says what
the last one does. `pending[r]` is the transaction of run r that a node has and no
block: at most one, since a script waits for each before it sends the next.

| Action | Code |
|---|---|
| `Start`, `Exit`, `Interrupt` | `main()` is called; it resolves or rejects and `process.exit` follows; the process is stopped while it waits |
| `Limited` | `RetryProvider.perform`: status 429 and attempts left |
| `Send`, `Confirm`, `Refused` | `deployContract` and `txMined`: `sendTransaction`, then `wait(confirmations)` resolves or rejects |
| `ReplyLost` | the error of `perform` that is not a 429, after the node took the transaction |
| `Mine` | the chain (external) |

`Deployment` has the calls of `deploy.ts` as data (`Program`), so that "the next
call" is one action. `Succeeds` and `After` are the requirements and effects of the
contract that is called: owner checks, `calledByEscrow` and `calledByPortfolios`
between contracts that must have been introduced, the buffer above the settlement
discount, the address taken on the factory. A contract is its name and the run that
created it; a local chain (1337) has its own factory in every run, the public ones
share one. `Users` are anyone who calls `initializeDependencies` of a market again
(it is not restricted, although its comment says it can be done once: the directory
never changes in a deployment, so calling it again does nothing new) and providers of
first liquidity, who need a rate anchor and contracts that take each other's calls.

`Upgrade` starts where a deployment ended. Bytecode is what it is made of: a name, a
version and the addresses of its libraries, so that comparing bytecodes is comparing
hashes. `MustCreate`, `MustPoint` and `NextCall` are the branches of `deployLibrary`,
`upgradeContract`, `upgradeCashMarket` and `upgradeProxy`; `mem` is the object
`restoreFromFile` builds, dropped when the process ends. The difference between the
two kinds of proxy is in `MustPoint`: a market is pointed whenever its implementation
is not the remembered logic, a core contract only by the run that deployed its logic.

Abstractions: confirmations are one step, and a block is never undone; a node does not
drop a transaction it took; one script runs at a time; gas is enough. A tracked file
of addresses makes the head dirty until somebody commits it, which `Commit` may do at
any time, so that an ignored one (`local.json`) is covered. A library is created anew by
each run that names it, whether its source changed or not, so versions of libraries are
left out.

## 4. Runs

All runs set `CHECK_DEADLOCK FALSE`: the contracts really stop at the bound of time
with everything settled and nothing left to call, and a script ends. Accounts that
trade in `MCNotional` and `array` are symmetric (no property tells them apart, and no
liveness is checked there).

| Run | Explores | Properties | States |
|---|---|---|---|
| `ledger` (`MCLedger`) | all of `Next` from `Init`, amounts 0 to 2 | `TypeOK`, `EscrowSolvent`, `fCashNetsToZero`, `TokensMatchSupply`, `PoolAlive`, `HoldersCanSettle`, `PoolCashBacked`, `ReceiverNeverWorseOff`, `TokenCashNeverDiluted` | 29k |
| `collateral` (`MCCollateral`) | ETH collateral, withdrawals, a moving rate | `SettlementKeepsCollateral`, `CollateralLostOnlyToMarkets` | 67k |
| `array` (`MCArray`) | two accounts, two maturities, a time in which both mature; trades, transfers, mints, liquidations | `TypeOK`, `OneEntryPerPosition`, `ImplementsBook` | 58k |
| `liquidation` (`MCLiquidation`) | all of `Next` of `Liquidations`, positions of a few units in two maturities, local token with a transfer fee | `TypeOK`, `EscrowSolvent`, `MarketIntegrity` | 18k |
| `debts` (`MCDebts`) | chains of settlements and liquidations in plain tokens at three rates | `EscrowSolvent`, `PayingDebtKeepsCollateral`, `CollateralNotOversold`, `SettlementPaysOnlyTheDebt`, `LiquidationRestores` | 5k |
| `deployment` (`MCDeployment`) | two runs of `deploy.ts` on either kind of chain, dying anywhere, with users | `DeploymentTypeOK`, `RevertsOnlyOnCollision`, `OpenMarketIsConfigured`, `FinishedIsHandedOver`, `ImplementsPublication`, `RunEnds` | 88k |
| `upgrade` (`MCUpgrade`) | two runs of `upgrade.ts` by two wallets, dying anywhere, with changing source and a ProxyAdmin that is given away | `UpgradeTypeOK`, `FileDescribesChain`, `MarketsFollowTheBuild`, `LinkedWithNewLibrary`, `DryRunChangesNothing`, `RunEnds` | 331k |
| `hook_token` (`MCHookToken`) | as `liquidation`, ERC777 token | `EscrowSolvent`, violated | |
| `inverted` (`MCInverted`) | as `debts`, inverted oracle | `ShortfallIsCovered`, violated | |
| `zero_tokens` (`MCZeroTokens`) | liquidity, trades and settlement after the traders' deposits | `AnyoneMaySettle`, violated | |
| `max_assets` (`MCMaxAssets`) | one account, portfolios of two entries | `GrowsWithinMaxAssets`, violated | |
| `half_upgrade` (`MCHalfUpgrade`) | as `upgrade` | `ContractsFollowTheBuild`, violated | |

**Bounds.** `WithinBounds` and the ticks cut behaviours off and change none; the
constants that are bounds are marked so. Two trading accounts and the reserve
are enough for a pool with a provider that stays while another enters, trades
and leaves, and for a debtor and a creditor; a third would add orderings of
the same kind. Amounts of one and two over pools of up to four tokens (six in `zero_tokens`) reach
shares with a remainder, including the one that rounds to zero (`zero_tokens`
finds it). One unit of time short of a maturity has a fee and a haircut, the
maturity itself neither; `MaxTime` lets everything mature. In `ledger` there is one
maturity: that several share one balance is left to the proofs, which hold for any number
of them. In `array` two maturities reach four entries, so that settlement removes several
and swaps one in, and the smallest `MAX_ASSETS` makes the check on size cut as well;
notionals of zero are in `max_assets`. The starts of `collateral` and `zero_tokens` are
the states after each trader's deposit, which `Deposit` reaches.

In the `MCLiquidations` runs `DECIMALS` is 20, so discounts, haircuts and buffers
come in steps of 5%. The positions of `liquidation` are so small that every share
is rounded; those of `debts` are large enough for a discount to be more than truncation, which the properties of
that run allow for with `Dust` (a unit of either currency, at the current rate).
Without it they fail by one unit. Rates of 1/2, 1 and 2 move an account across
zero in both directions. One payer and one liquidator are enough: nothing in a
liquidation reads a third account but the pool's totals; in `liquidation` the
payer also tries to liquidate itself and may buy its own receivers.

`collateral` leaves out transfers, because the whole relation with ETH and a moving rate
does not finish; what is lost is the interleaving of transfers with withdrawals. The
theorems close that gap: they are about all of `Next`.

In the runs of scripts, `MaxRuns` of two is a run that dies and one that meets what it
left; what a third would meet is again what the second left. `Attempts` is the 3 of
`deploy.ts` and `upgrade.ts`, `ChainId` both kinds of chain. `deployment` has every one of
the program's calls, and `Fundable` has a market of each currency. `upgrade` looks at one library, the
contract linked with it and two markets, two versions of the source and three sets of
arguments: for the markets, for a contract, and for the library with both
(`Arguments`, `MaxVersions`); the parts it leaves out are treated as those it has.

**Fairness and liveness.** In the contracts none is stated. Nothing on the chain obliges
anyone to send a transaction, so no action may be assumed to happen. What a user can rely
on is that a call *would* succeed: `HoldersCanSettle` says it as an invariant.

A script is a process: what it does next it does unless somebody stops it, and it polls
until it has an answer. So `FairSpec` has weak fairness of the script's steps as a whole
(`Script`, which does not oblige it to succeed: an error is one of the steps) and of
mining (`Chain`), since it waits for a receipt without a timeout (`txMined`). Starting,
stopping, users and owners are under no fairness. `RunEnds` follows because the
retries are bounded and the program is finite: without fairness of `Chain` it does not hold.

**Mutants.** Each property has a mutated operator, next to the operator it
changes, that violates it: a rounding turned up, a fee taken twice, a merge that
overwrites, a settlement that skips the swapped-in entry, tokens burnt without
their fCash, a purchase that forgets the discount, a market that opens before its fee is
set, an address that is not kept with its hash, and so on.

## 5. Proofs

Every theorem is for any sets of accounts, maturities and amounts, any number of runs and
retries, and every value of the parameters. The assumptions on constants are in the
modules that declare them: finite sets, natural numbers, positive divisors, maturities
that are multiples of the maturity length, a market that is not an account. What a
theorem assumes beyond that is named with it below.

| | Proved of every behaviour |
|---|---|
| `Notional` | `TypeOK`, `PoolCashBacked`, `TokensMatchSupply`, `PoolAlive`, `fCashNetsToZero`, `HoldersCanSettle`, `EscrowSolvent`; of every step `TokenCashNeverDiluted`, `SettlementKeepsCollateral`, `ReceiverNeverWorseOff`, `CollateralLostOnlyToMarkets` |
| `Liquidations` | `TypeOK`, `MarketIntegrity`, `EscrowSolvent`; of every step `SettlementPaysOnlyTheDebt` |
| `Portfolios` | `TypeOK`, `OneEntryPerPosition`, and the refinement `ImplementsBook` |
| `Submission` | `Settled` |
| `Deployment` | `DeploymentTypeOK`, `RevertsOnlyOnCollision`, `OpenMarketIsConfigured`, `FinishedIsHandedOver`, and the refinements `SubmissionSpec` and `ImplementsPublication` |
| `Upgrade` | `UpgradeTypeOK`, `FileDescribesChain`, `MarketsFollowTheBuild`, `LinkedWithNewLibrary`, `DryRunChangesNothing`, and the refinement `SubmissionSpec` |

### Notional

*The inductive invariant.* None of the invariants is inductive alone. Whether settlement
may redeem an entry depends on the tokens adding up to the supply and on the
cash of all pools being in the market's one balance; whether a pool stays alive
depends on tokens being a part of the supply; `EscrowSolvent` depends on what is
unsettled, which is only known because claims net to zero before maturity. So
`IInv` is their conjunction:

- `Sound(ledger, now)`: types, `PoolAlive`, tokens add up and are listed, the
  market's balance is the pools' cash, fCash nets to zero before maturity;
- `Whole(ledger)`: if the reserve does not trade, the Escrow is solvent and the
  reserve is not in debt. The second half is needed because `settleReserve`, paid
  *for* the reserve, would cancel a debt against nothing.

*The argument.* Every transaction is a change followed by a settlement. A change
that is `Balanced` (`LedgerProofs`) keeps `Sound`; `Settle` keeps it as well, by
the lemmas on shares (a part of the tokens takes less than all, all of them take
all) and on redeeming one pool. `NextKeeps` then has one lemma per action, each of
which only shows that its change balances and costs nobody but the caller.
`Sums` supplies the finite sums: the recursion behind `SumFunction` picks elements
in an unknown order, so `Sums` shows that an additive function exists, that it is a
solution of that recursion, and that the solution is unique. From that come the
update of a sum at one point, sums of sums, and monotonicity, without induction
over an operator parameter.

*Dilution.* `TokenCashNeverDiluted` says that cash per token of a pool never falls when
its supply changes. The relation is transitive and holds of one deposit, one removal and
one redemption, because each rounds the leaver's share down and the joiner's tokens down;
a settlement, which redeems several pools, is a chain of them.

*Collateral.* Free collateral is a sum of rounded products, so a proof does not compute
it. `LedgerProofs` has instead an order: `NoWorse(s, t, r, u, a)` says that account `a`
has at time u of ledger r in each currency as much cash, and in each maturity as much
cash claim and as valuable a rung, as at time t of s. Each of the conversions is
monotone (`ReceiverValueMonotone`, `ClaimMonotone`, `ETHValueMonotone`: across zero, where
the buffer replaces the discount, is the case to look at), so `NoWorse` implies that free
collateral is no less (`NoWorseFC`). The three properties then say how a step orders the
ledgers:

- *Settling* (`SettlementNeverCosts`) leaves the settled account's collateral exactly
  where it was, because `_settleMaturedAssets` redeems what `_calculateLiquidityTokenClaims`
  counted, without haircut from maturity on; and what the rounding keeps stays
  with those in the pool, whose share is no less afterwards (`ShareOfRest`).
- *Receiving* (`ReceiversNeverWorseOff`, assuming `HaircutBounded`). A claim that is
  received raises the rung, also when it nets against a debt of the same maturity, if
  the haircut of a claim never exceeds the claim. The haircut grows with the time to
  maturity, so this is a condition on parameters: yearly haircut times length of the
  ladder at most one year. Nothing in `setHaircuts` enforces it. The parameters of
  `deploy.ts:102` (0.5 a year, ladders of 30 to 180 days) and of every configuration here
  satisfy it, and it is needed: with a haircut of 120 in `MCLedger.cfg` (six times the claim a year)
  TLC finds a mint that takes its receiver from 0 to -1.
- *Being left alone* (`CollateralOnlyLostToMarkets`, assuming `HaircutBounded`,
  `LIQUIDITY_HAIRCUT <= DECIMALS` and that the reserve does not trade). What an account
  does itself is checked; what others do leaves a ledger that is `Better` for it; and time
  only lets go of haircuts (`TimeNoWorse`), provided a haircut takes something away, as
  `Portfolios.sol:93-94` says of it ("a percentage less than 1e18"). The reserve is charged
  for other people's debts by `settleReserve`, and so is only covered because it has no
  debts itself (`Whole`).

### Liquidations

The invariant is that of `Notional` for each of the two cash groups: `View(ledger, c)` is the
ledger as the group of c sees it, and the lemmas of `LedgerProofs` apply to it. That the
operators of the instance `WethGroup` are those of the first group, with the currencies
exchanged, is proved and not taken for granted. `Whole` says that the gap between what the
Escrow owes and what it holds is zero in both currencies.

The calls need more than balance. A purchase of collateral trades tokens out of the
middle of a pool: `TokensForBounds` and `SellTokens` show, pool by pool, that what is
raised is what the market's balance gives up, and never more than was asked for. An
account's receivers go to a liquidator that may be the same account. And each amount of
`Case` that `_finishLiquidateSettle` transfers must be the one that a balance changed by.

- `EscrowSolvent` assumes that the token is not one with a hook. With a hook it is false;
  that is the finding of `hook_token`. `MarketIntegrity` needs no such assumption.
- `SettlementPaysOnlyTheDebt` assumes the same, or that nobody settles its own debt: a
  liquidator that is its own payer is credited as the sender as well. The rest is
  rounding: what collateral is sold for is converted back to no more than what it was to pay.

### Arrays

The invariant of `Portfolios` is that every array is one of `Arrays`: entries of the
types, no two in one slot. The proofs read an array as the *set* of its entries: what
`RemoveAsset` (which moves the last entry into the gap), `ReduceAsset` and `UpsertAsset` do to
that set does not depend on the order (`RemovedEffect` and its like), and with one entry
per slot the set says where each position is. `ArraysImplementBook` is the step-by-step
refinement: with the invariant each call is one step of the book, or a stutter.

The loops cost most. `Settled`, `UpsertAll` and `SellReceivers` are recursive functions of
the number of passes; `Sums` has what the prover lacks for such a function, stated of a
set instead of an operator: that it exists (`LoopExists`) and that it stays in a family of
sets that every pass leads from one into the next (`LoopStaysIn`). What remains is the
loop invariant. `Settling` says of the settlement that nothing before the index is matured,
nothing unmatured is gone, and index and passes left add up to the length of an array that
shrinks. `Selling` says of the sale of receivers that what is gone from one account has
come to the other, that no claim has turned into a debt, and that there is an entry
to look at while any are to be sold, also when both accounts are the same.

### Scripts

`SubmissionProofs` proves for any calls, wallets, number of runs and attempts
that a run that goes on has nothing of its own outstanding (`AlwaysSettled`).
`DeploymentProofs` and `UpgradeProofs` show that both scripts are submissions
(`DeploymentSubmits`, `UpgradeSubmits`), so that it holds of them. That a wallet's
transactions are mined in the order of their nonces is an assumption about the chain, in the
guard of `Mine`; `SubmissionInv` keeps what it means for the runs (`NoncesInOrder`: a
leftover of a dead run is mined before the next run's first call or never) for the proofs
that need it.

*Deployment.* Each run has a chain of its own making, and the invariant says what that
chain is: the effect of a *prefix* of the program. `Rank` gives every step its place;
`Made(D, d)` says that the chain d is what the steps D make; `At(r, k)` that run r has come
to place k and may have the step after it in flight. `InOrder` is that of every run,
`Current` that the run at work is where it believes to be. `RevertsOnlyOnCollision` and
`OpenMarketIsConfigured` then are facts about prefixes: what a step requires has a smaller
rank, and a market's rate is set before it can be funded but after its other parameters.
`OneDirectory` is about the one call that can be refused: the proxy of the directory has one
address per wallet on a public chain. The lemmas about places (`Places`, `ProxyBlock`, ...) are the only
ones that open the program of over fifty steps. `FinishedIsHandedOver` is the fact about
the whole program: at its last place every owner's step is done (`DoneIsHandedOver`), and a
run that is past the place of the file is the one it names (`FileIsCurrent`), with any wallets.

`DeploymentPublishes` (`ImplementsPublication`) assumes `OneKey`: all runs have the same
wallet, as `deploy.ts` reads one key from its configuration and as `MCDeployment` has it.
It is needed. With two wallets, a `transferOwnership` sent by a run of the one that died
may be mined after a run of the other has saved a deployment of its own, and then something
is handed over that no file names. With one wallet the order of nonces (`NoncesInOrder`)
excludes that.

*Upgrade.* The invariant has to follow a run through its
program: what it waits for is what its part asks for, and the receipt is of that bytecode
(`InStep`); what it has in memory describes the chain, so that the file does once it is
written (`Recorded`, `Written`); nobody else changes a proxy while a run that started clean
is at work (`Alone`); and the markets it has passed are at the logic it remembers, which is
what is built (`Passed`). `Passed` is where the order matters: new logic can only be
deployed at the first market, because the hash then agrees with the build, so no later
market moves the target of an earlier one.

`LinkedWithNewLibrary` has an invariant on top (`LinkInv`): every address that is known is
on the chain (`Reached`), a contract is linked with libraries older than itself (`Closed`),
so no hash in memory names a library that was just deployed (`Fresh`), and a contract named
together with its library is therefore found changed until its proxy is at the new logic
(`Linking`). Libraries come first in the program, which `LibrariesFirst` derives from it.
`UpgradeTypeCorrect` and `UpgradeSubmits` assume `Calls \subseteq Call`, which says of the
constants that the transactions of the script are among those `Submission` is instantiated with.

### Only model-checked

- `RunEnds` of both scripts: liveness, which the prover does not do under these fairness
  conditions.
- `PayingDebtKeepsCollateral`, `LiquidationRestores` and `CollateralNotOversold`: they hold up
  to truncation (`Dust`, or one unit of ETH), which the run bounds for its amounts and rates.
  How much a chain of three conversions truncates for every value of the parameters has to
  be worked out before there is something to prove.

## 6. Findings

- **A zero entry blocks settlement** (`zero_tokens`). `_addLiquidity` mints
  `totalLiquidity * cash / totalCurrentCash` tokens (`CashMarket.sol:352`) and does
  not require more than zero. The entry of notional zero stays in the portfolio;
  when the other providers have left, settling its owner divides by a supply of
  zero and reverts. `Portfolios.sol:571-572` says that "anyone may settle the
  assets in any account". `HoldersCanSettle` is the statement that does hold, and
  is proved: every account whose entries are worth something can be settled.
- **One more than the maximum** (`max_assets`). `_upsertAsset` compares the length
  before the append with `<=` (`Portfolios.sol:1028`), so an ordinary trade grows a
  portfolio to `G_MAX_ASSETS + 1`. The comment above it says "We won't allow it to
  grow past the max assets parameter except in the case of liquidating liquidity
  tokens".
- **A payment credited twice** (`hook_token`). `_finishLiquidateSettle` takes the
  liquidator's payment by `_tokenDeposit` (`Escrow.sol:1093`). For an ERC777 token
  this is a send, whose hook `tokensReceived` (`Escrow.sol:549`) credits the sender,
  although the amount is already the payer's. `checkBalanceIntegrity`
  (`test/testUtils.ts:149`) asserts that balances equal tokens; deposits avoid the
  double credit (`Escrow.sol:408`).
- **An oracle that must be inverted** (`inverted`). `_fetchExchangeRate`
  (`ExchangeRate.sol:102`) inverts whenever the caller asks for the inverse, even if
  the answer already is the inverse. `_convertETHTo`, used only to size
  liquidations, then multiplies where it has to divide. With `mustInvert` false it
  is right. The test of an inverted oracle (`test/Escrow.ts:281`) converts to ETH
  only.

- **Half an upgrade is never finished** (`half_upgrade`). `upgradeContract` deploys the new
  logic, remembers its hash and calls `upgradeProxy` (`NotionalDeployer.ts:568-571`), which
  only logs "Cannot upgrade proxy, must use proxyAdmin owner address" if the wallet does not
  own the ProxyAdmin (`:619-620`), as is the case after `transferOwner`. The hash goes to
  the file, the address of the logic does not. When the owner runs the script, it
  answers "Bytecode unchanged for ${contractName}, do not deploy" (`:589`) and leaves the
  proxy where it was. `upgradeCashMarket` asks the proxy and is right: `MarketsFollowTheBuild`
  is proved. The comment on the hashes (`:257`, "Deploy transactions are used to determine if
  bytecode has changed") is about what was deployed, not what a proxy points to.

Two limits of the code's own reasoning are premises of properties rather than
findings. `PayingDebtKeepsCollateral` is about accounts that still owe local currency
afterwards: `Escrow.sol:240-242` argues that a buffer above the settlement discount
keeps third parties from worsening free collateral, but an account with a cash debt
and larger claims in the same currency frees no buffer and loses the discount. The
same happens when a liquidation extracts liquidity tokens whose fCash then outweighs
the debt: the estimate guarded at `Liquidation.sol:167-169` counts the haircut their
cash lost and not that of their fCash.

## 7. What is not modelled

- **Rate curve.** Fixed-point logarithms; see *Price* above. That the curve reverts
  for trades near the size of the pool is a call that does not happen.
- **Batched liquidations and settlements** (`settleCashBalanceBatch`,
  `liquidateBatch`): loops of the single calls that move tokens once at the end;
  and collateral in a currency other than ETH.
- **Batches** (`ERC1155Trade.batchOperation*`), whose check is deferred.
- **Governance of a running system.** Parameters do not change during a behaviour of
  the contracts' modules; `Deployment` only has them set for the first time. So nothing is
  said about, for example, a haircut raised under an account that was just checked.
- **Approvals, operators, callbacks of receivers.** Who may call is not the
  subject of any property here.
- **ERC777 tokens and tokens with a transfer fee in deposits and withdrawals**: they
  are modelled where a liquidator pays, and arrive in the amount sent elsewhere.
- **Idiosyncratic cash groups** (no market) except through `MintfCashPair`, and the
  asset id encoding.
- **Widths.** The libraries revert on overflow, so an overflow is a call that does
  not happen; nothing wraps.
- **Around the scripts**: two people running scripts at the same time, reorganisations of
  the chain deeper than the confirmations, transactions a node drops or a person replaces
  at a higher gas price, the compilation itself.
- **Scripts that keep nothing**: `setupLiquidity.ts` (local chain only), `deployProxyFactory.ts`,
  `verify.ts` and the verification in `upgrade.ts`, `errorCodes.ts`, `buidler.config.ts`,
  `gasprofile`. `checkDeployedLibraries` is called by nothing.
- Delegation and storage layout of the proxies (vendored), interfaces, mocks.

## 8. Plan

Done, in this order: `Positions`, `RiskFramework`, `Ledger`, `Notional` with its
runs; `Sums`, `LedgerProofs`, `NotionalProofs`; `PositionBook` and `Portfolios`
with the refinement; `Liquidation` and `Liquidations` with their runs; `Submission`,
`Publication`, `Deployment`, `Upgrade` with their runs and theorems; then the theorems
about liquidations and arrays, the refinement of `Publication`, the libraries of an
upgrade and the action properties of `Notional`.

Next:

1. `CollateralNotOversold` as a theorem. It needs, beside the invariant of
   `Liquidations`, that what `Liquidation.sol` decides to buy is at most what the account
   has available in ETH, and a bound on what three conversions truncate.
2. `Batch`: `batchOperation` and `batchOperationWithdraw` as sequences of calls with
   one check at the end, shown to end where the single calls would; then
   `settleCashBalanceBatch` and `liquidateBatch`, with a payer listed twice.
3. The rung at the edge of the ladder (`RiskFramework.sol:142`) as a property of its own.
4. Operator approvals and idiosyncratic cash groups in the transfers.
5. Governance of a running system: setters of `Escrow` and `Portfolios` as actions of
   `Notional`, starting with `setHaircuts` (with `HaircutBounded` as what it would have
   to require) and `addExchangeRate` between two checks.
