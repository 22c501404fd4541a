# Virtual curve in TLA+

A verification development for the `virtual-curve` program (a Solana/Anchor
program in `src/programs/virtual-curve`) that sells a new token along a bonding
curve, collects fees on the way, and moves the raise into an AMM pool once a
quote threshold is reached, together with its TypeScript client
(`src/ts-client/src/amm`) and its Rust quote SDK (`src/virtual-curve-sdk`).

Paths below are relative to `src/programs/virtual-curve/src/` unless they start
with `src/`.

## 1. The system

### Life of a launch

1. A partner creates a **config** (curve, threshold, fees, LP split, vesting).
2. A creator initialises a **virtual pool** under it. The whole supply is minted
   to the pool's base vault.
3. Traders **swap**; partner and protocol **claim fees** whenever they like.
4. The swap that brings the quote reserve to the threshold closes the curve.
   Partner and protocol may each **withdraw a share of the surplus** (what the
   last buy raised over the threshold), once.
5. If the config has a vesting, anyone sends **create_locker**, which moves the
   vesting to an escrow.
6. Anyone creates the **migration metadata** and then **migrates**: the
   threshold and the base tokens that match it go to a DAMM v1 or DAMM v2 pool,
   the base tokens left over are burnt.
7. DAMM v1: the LP tokens stay with the program and anyone has the four shares
   (partner/creator, locked/unlocked) **locked** or **claimed**, each by an
   instruction of its own. DAMM v2: two positions are created at once.

### Components

| Component | State it keeps | Operations | Depends on | Correct when |
|---|---|---|---|---|
| Curve arithmetic (`curve.rs`, `math/`) | none | amount deltas, next prices, liquidity of amounts, each with its rounding | - | rounding is always against the trader, a rounded-up deposit never exceeds what it was computed from |
| Fees (`state/fee.rs`, `state/config.rs`, `math/fee_math.rs`, `params/fee_parameters.rs`) | volatility tracker (in the pool account) | base fee, dynamic fee, split, fee mode, validation | curve prices, clock | the parts add up to the amount; the tracker neither fails a swap nor forgets a price move |
| Swap walks (`state/virtual_pool.rs:269-406`, `params/liquidity_distribution.rs`) | none | two walks along the curve, three sums over it | curve arithmetic | holders can sell everything back; the price stays on the curve |
| Pool config (`state/config.rs`, `instructions/partner/ix_create_config.rs`) | the config account, written once | `create_config` | walks, fees | the supply covers curve, buffer, migration and vesting |
| Virtual pool (`state/virtual_pool.rs`, `instructions/ix_swap.rs`, claims, surplus withdrawals) | price, reserves, pending fees, metrics, tracker, stage, flags; two vaults | initialise, swap, 2 fee claims, 2 surplus withdrawals | all of the above, token program, clock | vaults always cover the books; trading ends at the threshold; every fee and every surplus share is paid once |
| Creator vesting (`instructions/migration/create_locker.rs`) | escrow (external) | `create_locker` | base vault, stage | the migration still finds its base tokens |
| Migration to DAMM v1 (`instructions/migration/meteora_damm/`) | metadata account: LP shares, four flags | create metadata, migrate, lock, claim | vaults, external AMM | the pool is created once, no share is drawn twice, none is kept |
| Migration to DAMM v2 (`instructions/migration/dynamic_amm_v2/`) | metadata account (empty) | create metadata, migrate | vaults, external AMM | two rounded deposits fit in the two amounts, both owners get their percentages |
| Pool creation (`instructions/initialize_pool/`) | mint, metadata, vaults, pool account | initialise with an SPL or a Token-2022 mint | config, token programs | the supply lies in the vault and nobody can mint more |
| Client quotes (`math/*.ts`, `instructions/swapQuote.ts`), Rust quote SDK (`quote.rs`) | a copy of the pool | quote a swap | the program's swap: called (Rust), written a second time (TypeScript) | a Rust quote is what the swap pays until another swap; a TypeScript quote is never more |
| Client transactions (`instructions/{swap,createPool,createConfig}.ts`, `utils/*.ts`) | the transaction being built | launch, swap, wrap SOL, open accounts | accounts read between awaits | what was built can land, and does what was asked |
| Interface (`idl.ts`; `lib.rs`, the Accounts structs, `event.rs`) | none | accounts of a call, bytes of a type | - | both sides mean the same by a position |
| Claim-fee operators, partner/pool metadata, errors, scripts, CPI interfaces | own accounts or none | - | - | see section 8 |

### How they interact, and what is hard about it

Solana runs an instruction atomically: any failed `require!`, checked operation
or transfer rolls back all of it. There is no await in the middle. What is hard
is the **order** of instructions that different people send:

* every instruction reads the same two accounts and two vaults; fee claims,
  surplus withdrawals, vesting, donations and migration draw on the same vaults
  in any order;
* a check made in one instruction must still hold when another one relies on it
  (the base vault is checked by the last swap and used by the migration);
* every division rounds, and a walk rounds once per segment: after many buys and
  sells the reserve must still pay the last holder;
* the vaults are plain token accounts: anybody may add to them;
* nobody is obliged to go on: each stage is left by an instruction that someone
  has to send, and it must then succeed.

The client is asynchronous: it reads accounts one await after the other, builds a
transaction from what it saw and hands it to the caller, who sends it later,
again, or never. In between others trade, open and close accounts, and launch.
And it meets the program only through two lists, its IDL and the program's
structs, that are kept by hand in two languages: positions are all they share.

`PROJECT.json` lists these hazards with their lines and the properties that
watch them.

## 2. Modules

```
CurveMath --+-- FeeMath --+-- FeeScheduler (instances FeeMath per fee)
            |             |
            +-- SwapMath -+-- PoolConfig --- VirtualPool --- Migration
                                                 |             |  (implements)
                             ClientMath -- ClientQuote    PoolLifecycle

Layout --+-- ProgramInterface --+-- ClientInterface
         +-- ProgramLayouts ----+-- LaunchClient
                                +-- InterfaceLocks (on Migration)
SwapClient                          MCClient composes the client's three machines
```

| Module | Models | State and actions |
|---|---|---|
| `CurveMath` | `curve.rs`, `math/` | operators; `ONE` stands for 2^64, a width check is a guard of the caller |
| `FeeMath` | `state/fee.rs`, the fee part of `state/config.rs` and `params/fee_parameters.rs` | operators; the tracker is a record passed in and out |
| `SwapMath` | the two walks and the three sums of `create_config` | a loop is a recursive function of its passes; its value is the record of the loop's running variables and `done` is its `break` |
| `PoolConfig` | `create_config` and the LP split | the config is written once, so it is a constant; `Accepts` is what the instruction requires, and is assumed of it |
| `FeeScheduler` | `create_config` tried with every base fee | `accepted`, `rejected`; `CreateConfig` |
| `VirtualPool` | pool account, two vaults, tokens in circulation | `Swap`, `ClaimTradingFee`, `ClaimProtocolFee`, `PartnerWithdrawSurplus`, `ProtocolWithdrawSurplus`; outside the program `DonateBase`, `DonateQuote`, `Tick` |
| `Migration` | everything after the threshold, on top of `VirtualPool` | `CreateMetadata`, `CreateLocker`, `MigrateMeteoraDamm`, `MigrateDammV2`, `LockLpToken`, `ClaimLpToken` |
| `PoolLifecycle` | what a launch promises, without curve, vaults or fees | `Trade`, `Lock`, `Graduate`, `PayPartner`, `PayProtocol` |
| `ClientMath` | `ts-client/src/amm/math/` | operators returning the set of results: one value, or none where the code throws (`Throws`) |
| `ClientQuote` | `swapQuote.ts`, `quote.rs`, on top of `VirtualPool` | a trader's session with the Rust SDK: `FetchPool`, `Quote`, `Trade`, `GiveUp`, next to every action of the pool; `swapQuote` as an operator on the pool as its IDL decodes it |
| `Layout` | how Anchor writes accounts and fields | operators |
| `ProgramInterface` | `idl.ts`: accounts of each instruction, fields of each type | constant sequences |
| `ProgramLayouts` | the program's Accounts structs, state, event and argument structs | constant sequences |
| `ClientInterface` | a call taking its accounts one by one, a field written by one side and decoded by the other | `SendCall`, `TakeAccount`, `RunHandler`, `ProgramWrites`, `ClientWrites` |
| `InterfaceLocks` | which accounts a step of `Migration` changes, against what the IDL opens for writing | an action property |
| `SwapClient` | `swap.ts`, `token.ts`, `fetchPoolConfig` | `FetchPool`, `FetchConfig`, `CheckInput`, `CheckOutput` (one per await), `Land`, `Drop`; from outside `OpenAccount`, `CloseAccount` |
| `LaunchClient` | `createConfig.ts`, `createPool.ts`, `account.ts`, and the program's `handle_create_config` and both `handle_initialize_virtual_pool_...` | `createConfig`, `fetchPoolConfig`, `createPool`; `Deliver` runs a built transaction, once or again |
| `MC*` | configs, fees and domains for TLC; `MCClient` composes `LaunchClient`, `SwapClient` and `ClientInterface`, which share no state | - |
| `*Proofs` | theorems | section 6 |

Variables have the names of the account fields, actions and operators those of
the instructions and functions. What has no field in the program:

* `outside_base`: base tokens anyone holds outside the vaults. A trader can only
  sell what exists, which is what keeps the price on the curve.
* `paid`, `donated`, `lp_received`: histories, only read by properties (and
  `donated` by its bound).
* `escrow_base`, `damm`: what the external programs hold.
* `swaps`, `now`: bound and clock. One clock stands for slot and timestamp.

An action is one instruction: each `require!`, each checked operation that can
fail (`\in U64`, `>= 0`) and each transfer that may lack tokens is a conjunct, so
a rejected call is no step. `Swap` holds the order of `handle_swap`: refresh the
tracker, compute the result, apply it, transfer, and, when the threshold is
reached, check the base vault and move the stage.

Definitions commented **"Wrong:"** are plausible bugs the code does not have. No
specification uses them. Put in place of the definition that follows, each makes
TLC find a violation of the property that `PROJECT.json` pairs it with.

### External parts

The AMMs, the locker and the token program are other programs. They are modelled
from what this program passes them: DAMM v1 takes the two amounts it is given and
mints an amount of LP tokens from `LpMinted`; DAMM v2 takes the rounded-up
amounts of the liquidity it is asked for; the locker takes the whole vesting;
burning removes tokens from the vault. In `SwapClient` the token,
associated-token and system programs do to the payer's wallet what the client's
instructions ask of them (create fails if the account exists, a token
instruction is known by its number); a transaction is run by a recursive function
of how many of its instructions are done, whose value is the set of wallets it can
leave, empty from the first that fails on. In `LaunchClient` each call of a handler
into a token program is an operator on the new mint, which fails if the mint's
authority is gone.

In `ClientMath` a Decimal is the exact fraction it stands for (the client sets a
precision that is not exceeded at the model's sizes); what the model keeps is
the way back, through a text that changes form at 10^21 (`EXP_LIMIT`), and every
floor and ceiling.

## 3. Properties

| Property | Claim, and what would break it |
|---|---|
| `TypeOK`, `LaunchTypeOK` | every field keeps its width |
| `HoldersCanExit` | before completion, whatever part of the circulating tokens is sold at once, the reserve covers what the curve pays |
| `PriceWithinCurve` | sells cannot push the price below the start, although the walk down has no bound |
| `CanGraduate` | before completion there is one buy that completes the curve and passes the base-vault check |
| `CompletedCurveFrozen` | no instruction moves price or reserves of a complete curve |
| `TrackerSound` | after any pattern of swaps and pauses the volatility tracker cannot fail a swap and covers the distance from its reference price |
| `VaultsBacked` | vault balance = books + donations - what left, at every stage |
| `QuoteClaimsCovered`, `BaseFeesCovered` | no claim can be blocked by a faster one, the burn included |
| `MigrationFunded` | a pool waiting for its migration holds the base tokens the AMM takes |
| `FeesAccounted` | fees charged = fees paid + fees pending, per token and receiver |
| `SurplusPaidOnce` | a share of the surplus is paid once, in full, and only by a complete curve |
| `LpBacked`, `LpHandedOut` | LP tokens held = shares not handed out; none is kept for ever |
| `V2SharesHonoured` | both owners get their percentages up to a named rounding bound, although the second position is recomputed from what the first left |
| `CompleteCurveMigrates` | a complete curve is migrated in the end |
| `ImplementsLifecycle`, `ImplementsFairLifecycle` | the program implements `PoolLifecycle`, without and with liveness |
| `WalksAgree` | in every state of a pool and for every amount, the client's two walks over the curve throw or return the program's amount and price. The client has its own arithmetic, a bound on the points it looks at and a limit on the numbers it can convert; none of them makes it return another amount. (A sale from beyond the points it looks at starts at the wrong segment and is excepted: `saleIsSeen`) |
| `QuoteNeverOverpromises` | no quote of the TypeScript client is above what the program pays for the order, with the fee scale the client ships and for a pool read as it is or as the IDL decodes it |
| `QuoteStaysExact` | what the Rust SDK quotes on a fetched copy is what the trade pays until another swap lands, whatever else happens and at whatever time of its own the caller quoted |
| `SdkQuotePayable` | what the Rust SDK quotes for a sale of tokens the trader has, or for a buy of at most what is missing to the threshold, reserves and vaults can pay after any claims (it looks at neither), and such a buy leaves the base tokens of the migration. A larger buy is quoted against the whole curve, of which the supply covers only the part below the migration price and a buffer: the program may refuse it |
| `CallsAreTaken`, `FieldsArrive` | an account or field arrives where the sender meant it |
| `LocksCover` | no step of a launch changes an account its transaction does not open for writing |
| `UndisturbedSwapLands`, `SwapIsExact` | what `swap` built can land if nobody opened or closed an account meanwhile; what lands moves the order and nothing else, whatever other swaps of the payer did |
| `LaunchLands`, `PoolsAsRequested` | a sound launch is accepted the first time it arrives and never again; every pool is what one call asked for, with its supply in the vault and no mint authority left |
| `PaidFromRaise`, `RaiseGraduates` | the abstract launch itself: it pays only what was raised, and graduates |

The refinement mapping takes `quote_reserve` for `raised`, `damm.quote` for
`delivered`, the stage for the stage and the surplus payments for the payments.
So it says at once that the stages come in the order of the comment at
`state/virtual_pool.rs:56-61`, that nothing is raised after the threshold, that
at most the threshold goes to the AMM, once, and that both surplus payments come
out of what is left.

## 4. Runs

| Run | Question it answers | Expected |
|---|---|---|
| `pool_curve` | can nine buys and sells, fees in quote tokens, strand a holder, leave the curve or block graduation? can the pool pay what the Rust SDK quotes? does the TypeScript client's walk agree with the program's, on a curve longer than it looks? | pass |
| `pool_both_tokens` | the same with the fee taken from the output, so that base fees are pending in the base vault, and with traders' limits; does a quote of the TypeScript client promise too much? | pass |
| `dynamic_fee` | can swaps with pauses shorter than the filter period, between filter and decay period, and longer, confuse the tracker? can time, claims or withdrawals make a quote of the Rust SDK wrong? | pass |
| `launch_v1` | a launch to DAMM v1: claims and withdrawals race the migration, then four LP payouts; implements the lifecycle, liveness included; every step stays within its locks | pass |
| `launch_v2` | a launch to DAMM v2 with fees in both tokens and donations, where the last buy may leave hardly more than the migration needs | pass |
| `launch_vesting` | a launch with a large vesting to DAMM v2, whose last buys leave the migration enough: does it get through locker and migration, and can a rounding of the two deposits block it? | pass |
| `lifecycle` | the abstract launch | pass |
| `client` | launching, swapping and the interface: late, repeated and lost transactions, racing swaps of one payer, every account and field both sides know | pass |
| `vesting_unfunded` | is the migration funded with a vesting? | violation |
| `partner_is_creator` | are all LP tokens handed out when one key has both roles? | violation |
| `fee_scheduler` | are base fees with a schedule refused only for their fees? | violation |
| `interface_pool` | is the pool the client decodes the pool the program wrote? | violation |

Run one with `tlc -config launch_v1.cfg MCMigration`.

### Bounds, and why they are enough

* `ONE = 1024` for 2^64 (128 in `launch_v2` and `launch_vesting`, where amounts
  are in the thousands; 16 for the fee schedules, which use no price). With 1024, as
  in the program, the smallest price step is worth less than a token, so it is
  the rounding of token amounts that the properties are tested against; with a
  handful of tokens every division rounds. With 128 a step is worth a few tokens
  in a thousand, so the two v2 runs round prices more coarsely than the program. The products stay below 2^31, TLC's
  integers.
* Fees as shares of 100, protocol and referral shares of 50 %: they make the
  protocol's and the referrer's fees non-zero for fees of a few tokens.
* Curves of two or three segments with a threshold in a later one, padded to
  `MAX_CURVE_POINT = 3`: swaps within a segment, across a boundary in both
  directions, exactly to a boundary and into the padding all occur. `DeepEnd` has
  far more liquidity past the threshold than before it, so that one last buy can
  take the whole buffer of the supply: there the base-vault check really refuses
  swaps.
* `SwapAmounts` of two or three sizes: one that rounds to almost nothing, one in
  the middle, one that crosses segments or overshoots the threshold. In
  `launch_v1` the last buy of 45 is always funded and the one of 52 is refused
  after some histories.
* `MAX_SWAPS`: 9 for the questions about rounding, where a history of swaps
  matters, 4 for tracker and quotes, 2 or 3 where the question is what follows the completion.
* `ClaimLimits = {1, 1000}`: partial claims and full ones.
* `MAX_DONATED`: one donation to each vault, at any time, before or after the
  completion.
* `MAX_TIME`: four ticks after the start with filter period 1 and decay period
  3, so every pause class occurs, the shorter ones repeatedly, between swaps.
* `QuotedOrders`: one buy and one sell in `dynamic_fee`, none in the two
  `pool_*` runs, where the properties about quotes ask about every order in every
  state and need no session. `ClientClock = {3, 9}` in `dynamic_fee`: a caller's
  clock that is behind most swaps (the SDK then fails), and one that is ahead of
  all of them.
* The client's constants (`CLIENT_...`) stand to the program's as the shipped ones
  do. `math/constants.ts:5` has 5 000 of 10 000 as the highest fee, `constants.rs`
  counts from 100 000 to 500 000 000 of 10^9; in the runs 5 of 10 against 5 to 50 of
  100. So the client's cap cuts every fee, as it does in the repository.
  `CLIENT_MAX_CURVE_POINT` (10 of the program's 20) is 2 of three points in
  `pool_curve` and 1 in `pool_both_tokens`: the curve goes on where the client does
  not look, and it throws on buys that the program executes; in `pool_both_tokens`
  prices occur from which a sale is no longer seen. `EXP_LIMIT` (10^21, prices go to
  8 * 10^28) is 2000 with prices to 4096: the client throws where a next price would be
  higher, on orders that the program executes, and answers below.
* `SwapMinimums`: in `pool_both_tokens` a limit that some swaps miss; elsewhere
  none, and in `dynamic_fee` the quote itself.
* `client`: three calls, two payers, three generated keys below, between and
  above the three quote mints (one SPL, one supported and one unsupported
  Token-2022 mint), so that both orders of a key pair occur; two concurrent
  swaps, amounts that include 0, payouts on both sides of the minimum, config
  fetches that fail, and two openings or closings in between. The interface part
  has no bound: all calls and fields are tried.
* `LpMinted = {37}`: a number none of the percentages divides.
* `U64_MAX`, `U128_MAX` are far above what these bounds can reach. So in the runs
  `TypeOK` and `LaunchTypeOK` show that nothing goes below zero (a surplus taken
  before there is one); that no counter leaves its width at the limit rests on the
  theorems, where the widths are arbitrary.

`CHECK_DEADLOCK FALSE`: a launch really ends (and the bounds end it earlier).

### Fairness

`FairSpec` assumes weak fairness of `CreateMetadata`, `CreateLocker`, `Migrate`
and, for each owner, `LockLpToken` and `ClaimLpToken`. `lib.rs:100` lists these as
"PERMISSIONLESS FUNCTIONS": anybody can send them for any pool and nobody's
signature is needed, so all that is assumed is that someone keeps trying. Nothing
is assumed of traders, partner or protocol: `CompleteCurveMigrates` starts from a
complete curve, and no liveness property says that a curve completes.
Weak fairness is enough since no other instruction disables one of these.
The client machines have no fairness: any transaction may never arrive, and
their properties are about safety only.

## 5. Findings

* **`vesting_unfunded`** - the check "validate if base reserve is enough token
  for migration" (`instructions/ix_swap.rs:216`) counts the migration's tokens
  and the pending base fees, but not the vesting that `create_locker` takes from
  the same vault next. A last buy that overshoots into the buffer passes thanks
  to the vesting tokens; afterwards the vault does not hold what the migration
  takes.
* **`partner_is_creator`** - lock and claim serve an owner who is the partner as
  the partner (`meteora_damm_claim_lp_token.rs:89`). If the creator is the same
  key the creator's shares are never reached and stay with the program, while
  `src/README.md:40` promises them to the creator. (DAMM v2 sends both positions
  by itself and is not affected.)
* **`fee_scheduler`** - "trick to force current_point < activation_point"
  (`state/config.rs:154`) calls `get_base_fee_numerator(0, 1)`, whose first step
  is a checked `0 - 1`. So `create_config` refuses every base fee with a
  `period_frequency`, however good its fees. All tests use `period_frequency` 0.
* **`interface_pool`** - the `virtualPool` of `idl.ts` has 512 bytes and begins
  with fee parameters, the `VirtualPool` of the program at the same address has
  416 and begins with the volatility tracker. `fetcher.ts` promises "the decoded
  pool state", and both `swapQuote` and `swap` start from it.

A consequence for the rest of the model: a pool that exists has a constant base
fee. The proofs rely on it (lemma `BaseFeeIsCliff`), and a fix of that
validation would need the proof of the fee bounds redone.

### Other disagreements

Each of these is a property with a configuration of its own, which TLC ends with
a violation. They are not part of the run list.

| Configuration, module | Property | What it shows |
|---|---|---|
| `full_reduction`, `MCVirtualPool` | `FullReductionResets` | `params/fee_parameters.rs:125` calls `BASIS_POINT_MAX` a 100% reduction; `state/fee.rs:94` multiplies by it and keeps 100% |
| `quote_shipped_fees`, `MCClientQuote` | `QuoteMatchesTrade` | the client counts fees in 10 000ths with a maximum of 5000 (`math/constants.ts:5`), the program's numerators are in 10^9ths: even on a pool decoded correctly every quote takes half as fee |
| `quote_curve_points`, `MCClientQuote` | `QuoteAvailable` | the client's walks stop after 10 points (`math/constants.ts:8`), the program allows 20 |
| `quote_deep_segment`, `MCClientQuote` | `QuoteAvailable` | the amount of a whole segment goes through a text before the order is looked at; from 10^21 on it is exponential and BN throws, as with the sample curve of `scripts/createConfig.ts` |
| `cliff_never_ends`, `MCMigration` | `CompleteCurveMigrates` | the end of the vesting's cliff is a checked sum (`ix_create_config.rs:70`) that `create_config` does not look at: with a long enough cliff `create_locker` fails for good and the raise stays in the vault |
| `swap_for_sol`, `MCSwapClient` | `SolPayoutLands` | the "CloseAccount" that unwraps SOL has number 20 (`utils/token.ts:149`), CloseAccount is 9: no swap with SOL as output lands |
| `swap_token2022`, `MCSwapClient` | `UndisturbedSwapLands` | token accounts are always derived for the SPL token program (`swap.ts:94`): no swap of a Token-2022 base token lands |
| `swap_config_missing`, `MCSwapClient` | `TokenProgramDetermined` | `fetchPoolConfig` gives null after two failures (`fetcher.ts:93`), `swap` takes that for Token-2022 |
| `swap_account_race`, `MCSwapClient` | `GetOrCreate` | "Get or create" looks while building and creates on landing: an account that appears in between fails the swap |
| `protocol_fee_claim`, `MCClientInterface` | `ProtocolFeesPermissionless` | `ix_claim_protocol_fee.rs:71` says "Permissionless", line 62 wants an operator's signature |
| `token2022_metadata`, `MCLaunchClient` | `CreatorUpdatesMetadata` | "transfer update authority to creator" (`ix_initialize_virtual_pool_with_token2022.rs:154`) hands over the metadata pointer's authority only |

Seen while comparing the two sides of the interface, without a property: the
DAMM v1 lock and claim instructions of the IDL have other names than the
program's and so cannot be called; `create_locker` is missing from it; the
amount the program emits as `amount_in` of `EvtSwap` is called
`transferFeeExcludedAmountIn`; the `progress` of a decoded metadata account
reads padding; the client's `poolConfig` knows no vesting, which falls into its
padding. `createPool` passes the SPL token program for every quote mint although
the program supports Token-2022 quote mints (so `LaunchLands` calls only SPL
quote mints sound). The account that wraps SOL stays open after a swap.

As shipped, `swapQuote` quotes nothing but 0. By `interface_pool` it does not
decode the pool: the price it reads is padding and so 0 (`fetchedPool` lists what
each field it uses falls on), the base mint is no mint, so every order counts as a
buy, and a price of 0 makes the walk throw or pay nothing.
`QuoteNeverOverpromises` includes that case, and the case of a correct decoding,
which is the one in which the client's other limits matter. `swapQuote` does not
look whether the curve is complete either. A sale at a price beyond the points the
client looks at is computed with the liquidity of another segment, and its quote
can be too high: this is what `saleIsSeen` excepts.

## 6. Proofs

Eight modules, checked with `tlapm`. All theorems hold for every value of the
constants that satisfies the assumptions, and for any number of swaps, donations
and amounts: bounds and widths are arbitrary constants in them.

```
WalkProofs -- PoolProofs --+-- MigrationProofs -- GraduationProofs
                           +-- ClientQuoteProofs
PoolLifecycleProofs     LaunchClientProofs     SwapClientProofs
```

**Assumptions.** `OneAssumption`, `PriceAssumption`, `FeeAssumption`: the ranges
of the program's constants and of the integer fields. `ConfigAssumption`: the
widths are naturals, the points of the curve are pairs of `u128`, percentages are
`u8` up to 100, and the config is one that `create_config` accepts (`Accepts`,
translated from the validation, with the checks of the dynamic fee and the casts at
its end).
`BoundAssumption`: domains of inputs and of the clock; the time of creation is
later than one decay period after the epoch. `MigrationAssumption`: minted LP
tokens are `u64`, and the highest price is at most the square of the scale (about
2^96 against 2^128). `QuoteAssumption`: a session's orders are orders,
and a trader may set no limit. `FeeScaleAssumption`: how the client's fee constants
stand to the program's; it is true of the constants both ship.
`LifecycleAssumption`: ranges of the abstract constants.
`LaunchClientAssumption`: keys and supplies are naturals, and a generated key is
no quote mint's. `SwapClientAssumption`: amounts, deposits and balances are
naturals and a quote token is SOL or another. TLC evaluates each on every run of
a module that has it.

| Theorem | Module |
|---|---|
| `FeeIsSplit`, `DistributionIsSplit` | `WalkProofs` |
| `BuyStaysOnCurve`, `SaleStaysOnCurve`: what a walk does | `WalkProofs` |
| `PoolTypeCorrect`: `[]TypeOK` | `PoolProofs` |
| `PoolOnCurve`: `[]CurveBooks`, and from it `PriceStaysWithinCurve`, `HoldersCanAlwaysExit`, `PoolCanGraduate` | `PoolProofs` |
| `TrackerStaysSound`: `[]TrackerSound` | `PoolProofs` |
| `DepositCovered` | `MigrationProofs` |
| `LaunchTypeCorrect`: `[]LaunchTypeOK`; `LaunchKeepsCurve` | `MigrationProofs` |
| `CompleteCurveIsClosed`: `CompletedCurveFrozen` | `MigrationProofs` |
| `VaultsAreBacked`, `FeesAreAccounted`, `SurplusIsPaidOnce`, `BaseFeesAreCovered` (without a vesting), `QuoteClaimsAreCovered` | `MigrationProofs` |
| `MigrationIsFunded` (without a vesting), `LpIsBacked` | `GraduationProofs` |
| `V2SharesAreHonoured` (without a vesting, two different owners) | `GraduationProofs` |
| `LaunchImplementsLifecycle`: `Spec => ImplementsLifecycle`; `LaunchKeepsWithinLocks`: `Spec => LocksCover` | `MigrationProofs` |
| `QuotedPoolIsPool`, `SdkQuotesArePayable` | `ClientQuoteProofs` |
| `WalksAreSound`: `[]WalksAgree`; `QuotesAreCautious`: `[]QuoteNeverOverpromises`; `QuotesStayExact`: `[]QuoteStaysExact` | `ClientQuoteProofs` |
| `RaisePaysForAll`: `[]PaidFromRaise` | `PoolLifecycleProofs` |
| `LaunchesLand`: `[]LaunchLands`; `PoolsAreAsRequested`: `[]PoolsAsRequested`; `CallsReachTheirFields`: `[]CallsAreTaken` | `LaunchClientProofs` |
| `SwapsAreExact`: `SwapIsExact`; `UndisturbedSplSwapsLand`: `[]UndisturbedSwapLands` (where no pool has a Token-2022 base token) | `SwapClientProofs` |

### The curve

What a walk computes after all its passes needs induction over the passes. The
loops are recursive functions, and the induction principle is used as a statement
about sets: a set of naturals that contains 0 and with a number its successor is
all of `Nat` (lemma `Induction`, from the well-foundedness of `<`). For an
invariant of a loop the set is that of the passes after which it holds.
`LoopExists` shows with it that the recursive functions exist, so that each is
equal to its defining equation (`BuyLoop`, `SellLoop`, ...).

The invariant of both walks, and of the pool, is `OnCurve(price, reserve, sold)`:
the price lies in a segment, the quote reserve is at least what the segments
below cost, each **rounded up**, plus the exact value of the part of this segment
below the price; the base tokens sold are at most what the segments below hold,
each **rounded down**, plus the exact value of the part. It is stated with
products instead of divisions, so the rounding of the code disappears from it: a
division rounded against the trader can only make the two inequalities more true.
At a boundary both segments say the same (`AtLowerEnd`, `AtUpperEnd`), which is
why a walk may cross it. It is an inequality and not an equation, since a history
of trades that round leaves a little more quote and fewer base tokens outside than
the price alone says, and it is why the claims hold after *any* history:

* `HoldersCanAlwaysExit`: a sale of what circulates ends `OnCurve` again, and no
  position of the curve has a negative reserve.
* `PriceStaysWithinCurve`: the last step down has no bound in the code, but at
  the start price nothing is sold.
* `PoolCanGraduate`: `create_config` computes the migration price by a walk of its
  own, from the start and in whole. A buy of what is missing, wherever the history
  left the pool, ends at no higher price (`ThresholdWalk`), and what is sold at
  that price is at most what `create_config` counted (`SoldWithinSwapBase`); so
  the base vault still has the migration's tokens.

`CurveBooks` adds to `OnCurve` the equations of the two vaults until the curve
completes: what circulates was sold by the curve. Lemmas `BuyIsWalk` and
`SaleIsWalk` connect it with `Swap`: whatever fee is charged on whatever side, the
reserves move by exactly what the walk computes.

`TrackerBooks` strengthens `TrackerSound` from an inequality to an equation: after
the first swap the accumulator *is* the capped sum of the volatility reference and
the distance of the current price. It also says that before it the accumulator is 0
and the last update at time 0. That the first swap takes a price of the curve as its reference needs
that the pool is created later than a decay period after the epoch
(`BoundAssumption`); that the reference is never 0 and inside the curve needs
`CurveBooks`.

### The launch

For the books of the launch the walks are never opened. A swap is enabled
only when all its amounts are `u64`s (the casts and checked additions of the
code), so all that these proofs need of it is lemma `SwapBooks`: there are amounts
by which vaults, reserves, pending fees and metrics move *together*. It rests on
`FeeIsSplit`, which says that the four parts of a fee are naturals and add up, so
that no token appears or vanishes between what the trader pays, what crosses the
curve and what is set aside.

The vault properties are not inductive by themselves. `LaunchInv` is

* `LaunchTypeOK`;
* `Stages`: the stage, `is_migrated`, `is_curve_complete`, the escrow and the
  metadata agree - needed to know, for instance, that a swap meets an empty
  escrow and an uncreated AMM pool;
* `Books`: the two vault balances as exact equations over every other amount,
  with the base side before the migration only - needed since an inequality
  would not survive the next payment;
* `FeesAccounted` and `SurplusPaidOnce`;
* `AtMostThreshold`: the AMM took at most the threshold - needed to see that
  what is left in the quote vault covers the unpaid surplus. It rests on
  `DepositCovered`: liquidity computed by rounding down costs, rounded up, at
  most the amount it was computed from.

Each instruction has a lemma per part it can disturb; the invariants of the runs
follow from `LaunchInv` at once. `MigrationIsFunded` strengthens it by `Funded`,
the vault's excess over the migration's base tokens and the pending fees; it is
set up by the check of the last swap and kept by every later instruction, and it
needs `~has_vesting` exactly where `CreateLocker` would break it. `LpIsBacked`
counts the shares whose flags are not set. `LaunchImplementsLifecycle` uses
`LaunchInv` for the guards of the abstract payments: what a withdrawal pays is
within the surplus that the other payment left.

`LaunchKeepsWithinLocks` has a lemma per instruction: the accounts whose state the
step changes (`ChangedAccounts`) against the place in the interface's list where
each is opened for writing (`TradingOpens`, `MigrationOpens`). A position of a
list without its `mut` would leave a step without a proof. It needs `LaunchTypeOK`
only.

`V2SharesAreHonoured` is about one step, the migration to DAMM v2, and needs
`SharesGiven` (nothing was given out before) and `MigrationFunded` (the base
amount the code starts from is the migration's). The code deposits the larger
position first, rounded up, and computes the second one from the two amounts that
are left. `LeftWithinSecond` and `LeftForSecond` bound what is left from both sides: it
is worth at most the second share, and less only by what one token is worth and
the rounding down of its liquidity. `rounding_liquidity` allows for both, on the
quote side and on the base side. If one key has both roles its two
positions are added up and the statement, which is about one role, does not
apply; hence `PARTNER # CREATOR`.

### The quotes

`QuotedPoolIsPool`: a trader's session adds nothing to the pool, as `Trade` is a
`Swap` with one of the session's orders. So the theorems of `PoolProofs` hold next
to it, and `SdkQuotesArePayable` follows from `CurveBooks` as `HoldersCanExit`
does, with the fees of either side added.

*The two walks* (`WalksAreSound`). The client's loops over the curve are the
program's written a second time, with exact fractions instead of integer
divisions, their own bounds, their own tests for points without liquidity, and
integers taken back from decimal texts. The relation between the two is
`Computes(results, value)`: the client's call has exactly the program's value, or
throws. It composes along the calls, so every lemma is about one of them: the
conversions (`ConvertsDown`, `ConvertsUp`), the amounts between two prices and the
price a segment is left at, where a whole number next to a quotient is the quotient
of the sum (`WholeAndQuotient`), one pass of each loop (`BuyStepComputes`,
`SellStepComputes`), the loops, the walks. The loops do not run in step: the program
goes over `MAX_CURVE_POINT` padded points and the client over as many as it looks
at. So the invariant of the induction also says that the passes only one of them
makes do nothing, which needs the loop invariant of the program's walk (prices of
the curve, `BuyState` and `SellState`), and that a buy which is not finished where
the client stops looking makes it throw. An order of nothing returns early in the
client and walks in the program, whose rounding-up conversions must then give
nothing at every pass (`BuyOfNothing`, `SaleOfNothing`).

*Never too much* (`QuotesAreCautious`). The two fees are not equal, so this cannot
come from the agreement alone. `FeeScaleAssumption` says how the scales stand to each
other: the client's cap lies below the lowest fee numerator of a config, and is at
least the program's cap as a share. Both are true of the shipped constants (5 000 of
10 000; 100 000 to 500 000 000 of 10^9). So the client charges its cap whatever the
config says (`NumeratorIsCapped`), and its rounded-up share is at least the program's
fee (`ShareCoversFee`); hence what is left to walk with is at most the program's
(`FeeIsCautious`). For a sale the fee comes off the same walk. For a buy with the fee on
the input the walks start with two different amounts, and one has to know that a
smaller amount buys no more: `BuyGrows`, by induction over the passes with the
relation `NotAhead`, that both walks are at the same price or the smaller amount is
spent. On the pool as the IDL decodes it, price 0 leads the loop nowhere
(`NothingFromZero`).

The inductive invariant of both is that of the pool, `TypeOK` and `CurveBooks`: the
price is on the curve, where both sides divide by the same numbers.

*Staying exact* (`QuotesStayExact`). `QuoteBooks` says that until the next swap a
fetched copy is the pool and a quote is what a trade would pay. What is left to show
is that nothing else matters to the computation: the base fee of an accepted config
does not depend on time, the dynamic fee reads the accumulator, which
`update_references` does not touch (`FeeOfAccumulator`, `SwapAnyTime`), and claims,
withdrawals and donations touch no input of a walk. Nothing is assumed of the
constants.

### The client

Both theorems about launching and both about swapping are of `ClientSpec`, the
specification the run `client` checks, for every set of calls, payers, sessions,
keys and amounts.

*Launching.* `LaunchBooks` has two parts. `CallBooks`: a built call holds exactly
the transaction `createConfig` or `createPool` makes of its request, a pool's
token type is still the one its config has, and no two built calls have the same
key. `ChainBooks`: the quote mints are still what they were, and everything else
on the chain was put there by one built call, *with all it makes at once*
(`Launched`). The second is what the claims need: all addresses of a pool contain
its key, so of a call whose key is not on the chain nothing is (`NothingThere`),
and `init` accepts it; a call whose key is there was accepted before. Below it,
`SameLists` and `Taken` go through the two account lists position by position, so
that a position that differs would leave a step without a proof; `PoolSeeds` is
that the two sides order a pair of mint keys alike; `MintCalls` goes through the
calls of either handler, where the mint authority is removed last.

*Swapping.* A transaction has at most six instructions. `Runs` unfolds the
recursive function that runs it, and every instruction has a lemma that says when
it goes through and what it leaves (`CreateStep`, `TransferStep`, `SyncStep`,
`SwapStep`, `UnwrapStep`). `SolSwap` and `PlainSwap` say which instructions `swap`
puts together. `SolRunExact` and `PlainRunExact` follow them through for *any*
wallet, so `SwapsAreExact` needs little of the books, only that wallet and
transaction have their form. `UndisturbedSplSwapsLand` is the other direction and
needs `SwapBooks`: what a session noted about its two accounts is still so as long
as `changes` is what it was when it began to look (`Noted`). Then exactly the
missing accounts are created, each once (`Made`), and the lamports left over pay
for the transfer. For a pool with a Token-2022 base token the claim is false,
since the accounts are derived for the wrong token program (section 5,
`swap_token2022`); hence the hypothesis, which the pools of the run `client`
satisfy.

*The interface.* `CallsReachTheirFields` rests on the two lists of accounts.
Thirteen of the fourteen instructions that client and program both name list the
same accounts with the same access (`EqualLists`). In `migrationDammV2` one
account differs: the client asks to write `migrationMetadata`, which the program
only reads (`DammV2Lists`). So each account fits the field it meets
(`ListsFit`), and a call that has taken some takes the next.

### Only model-checked

* Liveness (`CompleteCurveMigrates`, `LpHandedOut`, `ImplementsFairLifecycle`,
  `RaiseGraduates`): needs ENABLED and fairness.
* `FieldsArrive`: its content is in the byte offsets of the concrete layouts,
  which TLC computes and tries field by field; there is nothing to generalise, and
  the sums of sizes are folds the provers cannot evaluate.

## 7. Plan

Done in this order: arithmetic and fees; walks and config; pool; migration with
both AMMs; lifecycle and refinement; proofs bottom-up; fee scheduler validation;
client arithmetic and quotes; the interface of client and program; swapping and
launching from the client; proofs about the walks, the tracker, the DAMM v2 shares,
the quotes, the client's transactions and the client's second computation of a swap;
the client's own fee scale, curve length and decoding in the runs and proofs.

Next, in order of what it would tell:

1. `FeeScheduler`, further: `pow` against a reference definition over bounded
   inputs, next to the client's `getFeeInPeriod`, and the schedule over time once
   the validation accepts one.
2. Several pools under one config, and one fee claimer claiming from each.
3. The set of claim-fee operators, with the right to claim changing hands
   between claims.

## 8. Not modelled

* The set of claim-fee operators: access control for one instruction. Their
  accounts and signatures are part of the interface.
* Partner and pool metadata: text written once and never read by the program.
* Transfer fees of Token-2022: quote mints with unknown extensions are refused
  (modelled in `LaunchClient`), the base mint is created without.
* Activation type and migration-fee option of the config: they select a clock and
  an account, not amounts.
* The release schedule of the vesting and the inside of the AMMs: other programs.
* Discriminators, documentation texts and error names of the IDL, and how Anchor
  fills in fixed addresses beyond the three `LaunchClient` names.
* `idl-type.ts`: the IDL a second time, as a type.
* Of the client: `scripts/` (samples), the facade `client.ts` (passes calls on;
  the program id it is given is not used), `getOrCreateAssociatedTokenAccount`
  and the two math helpers nothing calls, network fees, rent of the accounts a
  launch creates.
* Error codes, generated CPI interfaces.
