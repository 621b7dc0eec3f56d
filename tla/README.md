# TLA+ models of the Open Libra framework

The repository is the Move framework of the Open Libra chain
(`src/framework/libra-framework`) with Rust tools around it. The framework's own
logic - when an epoch ends, who validates in the next one, how several people
share an account, how donors govern the wallets they gave to - is in
`sources/ol_sources` and in a few changed Diem modules (`block.move`, `stake.move`,
`reconfiguration.move`, `multisig_account.move`, `diem_governance.move`). That is
the larger part of what is modelled. Of the Rust tools, the two that run several
steps against something that may fail in between are modelled as well: the batch of
payments (`src/tools/txs`) and the genesis ceremony with its migration of accounts
(`src/tools/genesis`). Paths below are relative to
`src/framework/libra-framework/sources` unless they end in `.rs`.

Transactions are atomic: an abort rolls everything back, so a failed assertion is
an action that is not enabled, and one action of a model is one whole transaction,
one block prologue, or one stage of the epoch boundary with everything it calls.
Nothing runs concurrently inside a transaction. What is hard is the *sequence*:
transactions of many senders in any order, with epoch boundaries, expirations and
claims between a check and the use of what was checked; and the boundary itself,
one transaction for everything, which an abort in any stage undoes for everyone.
The tools are different: each call of theirs is a step of its own, may fail or be
lost, and what was done before stays done.

## 1. Inventory

| Component | State | Operations | Interacts with |
|---|---|---|---|
| Epoch trigger (`block`, `timestamp`, `reconfiguration`, `epoch_helper`, `epoch_boundary`, `diem_governance`) | clock, last reconfiguration, epoch and its copy, `BoundaryBit` | block prologue, `trigger_epoch`, `smoke_trigger_epoch`, governance and rescue reconfigurations | starts the boundary; every module reads the epoch |
| Validator selection (`grade`, `musical_chairs`, `jail`, `proof_of_fee`, `stake`) | validator set, seats, bids, jail | bid, retract, unjail; grade, jail, auction, failover at the boundary | called by the boundary; reads vouches, slow wallets and fees |
| Multi-action accounts (`vote_lib/multi_action`, `vote_lib/ballot`, `multisig_account`, `safe`) | owners, threshold, offer, proposals | offer, claim, cage, propose, vote, change owners or threshold | used by `safe`, community wallets, donor voice |
| Community wallets (`community_wallet_init`, `community_wallet`, `ancestry`) | the account and its minima | offer, cage, change signer | a multi-action account with donor voice |
| Donor voice (`vote_lib/donor_voice*`, `cumulative_deposits`, `receipts`) | schedule, vetoes, liquidation ballots and queue, freeze | donate, schedule, veto, liquidate, pay at the boundary | payments approved by multi-action; paid by the boundary |
| Turnout tally (`vote_lib/tally`) | ballots | vote, tally | used by donor voice |
| Ledger (`ol_account`, `slow_wallet`, `libra_coin`, `transaction_validation`) | balances, unlocked amounts, list of slow wallets | transfer, withdraw, set slow, pay gas, drip | everything that pays |
| Fees, burns, rewards (`transaction_fee`, `fee_maker`, `burn`, `rewards`, `match_index`) | fees collected, makers, lifetime burn | pay a fee, reward, burn | boundary stages |
| Thermostat (`proof_of_fee`) | nominal reward, clearing price, bid history | set price, adjust | after the auction |
| Vouching (`vouch`, `ancestry`) | vouches given and received | vouch, revoke, expire | qualifies validators, unjails; a vouch costs a fee |
| Pledges (`pledge_accounts`, `infra_escrow`) | pledges, amount available | withdraw pro rata | subsidises rewards at the boundary, seeds genesis validators |
| Governance (`diem_governance`, `voting`) | proposals | propose, vote, resolve | reconfigures |
| Root billing (`safe`) | registry | bill per epoch | first boundary stage |
| Batch tool (`txs_cli_community.rs`, `submit_transaction.rs`) | a JSON file, the sender's sequence number | read ballots, propose or vote for each payment, write the file | donor voice proposals; a node |
| Genesis ceremony (`wizard.rs`, `genesis_registration.rs`, `genesis_builder.rs`, `cli.rs`) | configuration, fork, pulls, repository, `genesis.blob`, `waypoint.txt` | register, merge, build | a repository host; the migration |
| Hard-fork migration (`vm.rs`, `genesis_functions.rs`, `parse_json.rs`, `process_comm_wallet.rs`, `compare.rs`, `genesis.move`) | recovery file, drop list | repair, drop, migrate, register validators, audit | the first state of the ledger |
| Upgrade migrations, rescue and storage tools | - | one-time conversions | initial states |
| Inherited Diem modules, other Rust tools, compatibility, generated code, tests | - | - | clients and platform |

What makes each part correct, and what is hard about it:

- *Epoch trigger.* One boundary closes one epoch, boundaries are an interval
  apart, and epochs keep closing, although any user may consume the bit late and
  governance or a rescue may restart the interval in between.
- *Validator selection.* The set never gets too small, nobody enters who did not
  qualify, who failed leaves, newcomers stay few - whatever was jailed, retracted
  or left unpaid in the epoch, and through truncating ratios at small numbers.
- *Multi-action.* The authorities can always reach their threshold, and only they
  decide who joins, although additions take effect when a candidate claims, epochs
  after the vote, and expired proposals are closed lazily.
- *Donor voice.* A payment is settled once; vetoes need a turnout and a cool-off
  while the payment's deadline runs; liquidation refunds what is left and no more.
- *Ledger.* Coins are neither lost nor made, locked coins leave only as gas, and the
  unlocked counter, kept apart from the balance, does not exceed it - all but the
  first except through `coin::transfer`, see section 5 - although gas and
  the VM take locked coins, deposits unlock what they bring, and the boundary bills,
  pays, rewards, drips and charges the same accounts one after the other.
- *Batch tool.* Running a file again must not vote twice, and the file must not claim
  what did not happen, although an answer may be lost while its transaction executes.
- *Genesis.* Everyone builds the same complete block from what was registered, and
  the block holds the coins of the old chain, although registrations are two
  commits, may be merged between them, and any step may have to be run again.

`PROJECT.json` lists every hazard at its line with the properties that cover it.

## 2. Modules

| Module | Models | Proofs |
|---|---|---|
| `EpochTrigger` | prologue, boundary bit, reconfigurations | `EpochTrigger_proofs` |
| `EpochClock` | the abstract clock that `EpochTrigger` implements | by refinement |
| `MultiAction` | one multi-action account | `MultiAction_proofs` |
| `CommunityWallet` | extends `MultiAction` with the wallet's checks | `CommunityWallet_proofs` |
| `TurnoutTally` | ballots weighted by donation, as operators | `DonorVoice_proofs` |
| `DonorVoice` | extends `TurnoutTally`: the wallets of donors | `DonorVoice_proofs` |
| `ValidatorSelection` | bids, jail, auction, failover | `ValidatorSelection_proofs` |
| `Ledger` | all coins: accounts, slow wallets, fees, escrow, and the boundary's stages | `Ledger_proofs` |
| `CommunityBatch` | extends `MultiAction`: several runs of the batch tool against its wallet | `CommunityWallet_proofs` |
| `GenesisMigration` | the migration and the audit, as operators on a recovery file | `GenesisCeremony_proofs` |
| `GenesisCeremony` | extends `GenesisMigration`: registration, merging and building | `GenesisCeremony_proofs` |

`Sums_proofs` has the lemmas about sums over finite sets that the ledger, the donors'
wallets and the migration need. `MC*.tla` hold the constants of the TLC instances.
Operators named in a comment "Mutant of X" are deliberate errors used to show that a property can fail; no
specification uses them.

### EpochTrigger and EpochClock

`NormalBlock(t)` and `NilBlock` are `block_prologue`; the timestamp of a block with
a proposer advances and that of a NIL block does not (`update_global_time`).
`MaybeAdvanceEpoch` raises the bit, or on testnet runs the boundary. `open` says
that user transactions of the block can still run: a reconfiguration ends the block.
`TriggerEpoch` is any user's transaction, `SmokeTriggerEpoch` the one for chains
other than mainnet, `GovernanceReconfigure` any resolved proposal that reconfigures,
`RescueReconfigure` the offline one, with no timestamp check. Genesis leaves the
epoch at 1 and `epoch_helper` at 0, as the code does. `lastBoundary` is history.
The rest of the boundary is in other modules; an aborted one is no step.

`EpochClock` forgets absolute time: the time since the last reconfiguration up to
the interval, the bit, and whether transactions can run. It is finite and its
behaviours are infinite, so liveness is checked on it.

### MultiAction and CommunityWallet

One account. `ProposeOffer`, `ClaimInitialOffer`, `FinalizeAndCage` are the sponsor's
phase; after the cage `ProposeGovernance`, `Propose` (a payment) and `VoteWithId`
are votes, each of which first closes expired proposals of its tracker
(`CleanedUp`), then counts the votes against the threshold of that moment and
executes. An addition only extends the offer; `ClaimVotedOffer` makes the owner,
and the last claim applies the voted threshold. Repeating a proposal is voting for
it. `DropAlreadyClaimed` keeps the loop that skips an element after a removal.
A proposal's guid is its position in `props`; the lists of the tracker are its
`status`. `CommunityWallet` adds `MultisigThresh` and the kinship checks, at the
moment the code makes them; `Kin` is a constant relation.

### TurnoutTally and DonorVoice

A tally is a record; `Voted` is `vote` with `maybe_tally`, `CanVote` its assertions
(among them `create_from_rational`, which aborts when a ratio truncates to zero).
`DonorVoice` has donations (with receipts and enrolment), `Schedule` (the approved
payment), vetoes, liquidation votes, and `EpochBoundary`, which is
`process_donor_voice_accounts`: `Liquidate`, then the due payments of each wallet
from the back of the list, those that are short going back on it. `Reject` keeps
the loop bound of the code; `LiquidationPasses` says when the loop of `vm_liquidate`,
which indexes a shrinking copy of the queue, comes to its end. Guids are numbers. `refunded` and `swept` are history. The branch of
`veto_handler` that delays a payment is never taken (a vote returns a decision only once the ballot has passed) and is left out.
The approval of a payment is MultiAction's, so here it may happen at any time.

### ValidatorSelection

Between boundaries `UpdateBid`, `RetractBid` and `UnjailByVoucher`; at one,
`EpochBoundary(perf, fit, fees)`: grades, seats on offer, jail (only when there are
fees to settle), auction, failover, and the reset of the seats to the size of the
set. `perf` are the proposals of the epoch; `fit` are the validators with a
stake pool, a slow wallet, enough vouches and enough unlocked coins - all
combinations are tried; `fees` whether any were collected. Lists are sets: equal
bids are shuffled by the code, so `Top` gives every possible choice. Percentages
truncate as `FixedPoint32` does. A bid is made for some epochs or with expiry zero,
which `current_bid` honours and `audit_qualification` takes for expired. The filter of
`maybe_reconfigure` on missing configurations drops nobody: `initialize_validator`
creates `ValidatorState` and `ValidatorConfig` together, nothing removes them, and the
audit asks for the first.

### Ledger

`accts[a]` is the balance with `SlowWallet.unlocked`, which only accounts in
`wallets` have. A transaction of a user is its payload and then `Epilogue`, which
takes gas from whatever the payload left; `Abort` is a payload that was undone.
`Transfer` is the entry function with its limit on new accounts and its strict
comparison, `ScriptTransfer` a script that calls `withdraw` and `deposit_coins`
itself, where spending all that is unlocked is allowed. `CoinTransfer` is
`coin::transfer`: declared for friends, but an `entry` function, which anyone can send.
It moves balances only: no limit of a slow wallet applies and `unlocked` stays as it
was. The history variable `direct` holds the slow wallets that sent one in this epoch;
the properties of unlocked parts are about the others, and the boundary, whose drip
cuts `unlocked` down to the balance, clears it. `Boundary` is one
transaction with the stages that move coins in the order of `epoch_boundary`: bills,
a payment or a liquidation of a community wallet, the reset of the fee makers,
rewards, the burn of the rest, the drip, the entry fees, the draw on the escrow.
Rewards and VM deposits arrive locked. Who is compliant and seated, the entry fee
and the next reward are free choices, so the properties hold for every outcome of
`ValidatorSelection` and of the thermostat; that the payments of a community wallet
are due is DonorVoice's. `DripPasses` says that the loop of the drip ends: a boundary
in which it would spin is no step, and `DripAdvances` that this never happens.

### CommunityBatch

`Connect` is `Sender::new`, which reads the sequence number, `Fetch` the query of the
ballots; then one step per payment: `Skip`, or `Send` (or `Reject` by the node), and
`Answered`, `Expired` or `Lost`, in this order of the code. `Commit` executes the
next transaction on the wallet of `MultiAction`, `OtherTx` is one the same operator
sends from elsewhere, `Evict` an expiry in the mempool; these and the node are
external. Sequence numbers are kept relative to the account's, which makes the
state finite. `Finish` writes the file, `Crash` is a kill or a `?` before that. The
ballots are in a map by recipient, so of two for one recipient the last stays, and
the amount is compared only with that one (`Listed`, `Marked`).

### GenesisMigration and GenesisCeremony

A recovery file is a function from addresses to records with absent fields, as in
`LegacyRecoveryV6`; the operators are the passes over it, in their order: repair of
slow wallets, drop list, users, slow wallets, escrow, donors of community wallets,
then the validators, each seeded from the escrow, from the back of the layout's list as
`create_initialize_validators` takes them. The chain they make is a record. A draw of
which every share rounds to nothing panics (`Unseeded`). The chain is mainnet: on
others `genesis.move` also drips slow wallets after each validator. The reference
`CoinsOf` counts all records that are not dropped; that a record without a key has
neither balance nor pledge, and so nothing the migration could lose, is assumed of the
export (`ExportAssumption`: the key is read from the account resource, which every
account with coins has). `AuditErrors` and `AuditPanics` are what `compare.rs` would report.

In the ceremony a wizard goes through fork, operator file, owner file and pull
request, one repository call a step; `WizardFails` may end it at any of them and
`StartWizard` runs it again, perhaps with a new configuration: another host, or the
mnemonic of another account. `Account[u]` gives the account of each version of user
`u`'s configuration. `HasConfig` is the comparison of `get_config`: the owner's and the
operator's file must name the same account, or the build ends. `Owners` are the
accounts of the files read, along the sequence `Users` of the layout file (`Layout` is
their set). `Merge` takes what is
on the fork at that moment. `StartBuild` before the call is `hasty`: those builds
are allowed, and only promised that no account is joined with another's node.
`SaveBlob`, `SaveWaypoint` and the audit come in this order, and a failure between leaves the files as they are.

## 3. Runs

All runs finish within three minutes on two cores. A cfg only gives constants their values.

| Run | What it shows |
|---|---|
| `epoch_trigger` | safety of the trigger and its refinement of the clock, on all three kinds of chain |
| `epoch_clock` | liveness: a raised bit is consumed, boundaries recur unless governance restarts the interval for ever |
| `multi_action` | quorum, unique open proposals, voted authorities and thresholds, final decisions |
| `wallet_governance` | a community wallet keeps its minima through delayed additions |
| `donor_wallet` | one wallet, three payments: settled once, vetoes carried in two epochs, votes backed by donations, freeze, deadlines, refunds within what is left, nobody paid after the vote to liquidate |
| `donor_payments` | liveness, two wallets: payments complete unless the wallet stays short or the queue of liquidations stops the boundary |
| `validator_selection` | viability, qualification, jail and newcomers over every performance and bid |
| `selection_abort` (violation) | failover runs off the outgoing set and aborts the boundary |
| `community_batch` | two authorities and a file of two payments, run and rerun: files are backed by ballots, no second vote for the first payment |
| `ledger` | conservation of coins; but for wallets that used `coin::transfer` in the epoch, unlocked within balance, locked coins stay, the drip ends |
| `ledger_direct` (violation) | a slow wallet sends locked coins by `coin::transfer` and has more unlocked than it holds |
| `genesis` | the ceremony completes, no blob joins an account with another's node, blobs agree, the block holds the coins of the recovery file |

### Bounds

- `Interval = 3`, `MaxTime = 9`: three intervals, so a late trigger, a
  reconfiguration inside an interval and a second boundary all occur; `MaxEpoch = 6`
  leaves room for rescues. For `epoch_clock` the interval (20) is only a length.
- MultiAction: three accounts, two proposals, three epochs: one addition with and
  without a threshold, one removal, one threshold change and a payment, in every
  order and with expirations. CommunityWallet: five accounts, two of them related,
  three proposals and `MaxEpoch = 2`, so that an addition with a lower threshold
  waits for its claim while a removal and the other addition are voted.
- DonorVoice: two donors (equal, or one with too few votes to matter alone), so a
  veto needs both; payments due after one epoch and ballots of two and three
  epochs keep the order of the code's 3, 7 and 365; three payments reach the freeze.
  Values are such that one more payment than the wallet can pay is short. The run
  with liveness has two wallets, so that both can be queued for liquidation, with one
  payment each that is short until more is given; `PaymentDelay = 0`, ballots of one
  epoch and `MaxEpoch = 3` leave a payment two boundaries.
- ValidatorSelection: four validators with thresholds scaled to 2, 2 and 4 so that
  all branches of seats, set size and failover are reached; performances are
  flawless, leading with too many failures, and trailing. A bid is for one more epoch
  or has no expiry; a second one would only keep it longer. `selection_abort` uses
  the thresholds of the code (4, 9, 21, 10). At least `MinSeats` validators are
  assumed at genesis.
- `FixedOne` is 2^16 where the code has 2^32: TLC's integers are 32 bits wide.
  Every ratio checked has denominators far below it. u64 overflow is out of reach
  of the amounts modelled.

- CommunityBatch: two authorities who must both sign, two payments, ballots that
  expire at the next epoch (`PayDuration = 0`), one fault anywhere and one number
  signed ahead. One fault is enough for every kind of rerun; the ballots a rerun
  may open are bounded by `MaxProposals = 4`.
- Ledger: five addresses, one without an account, amounts of 1 and 2, a reward that
  the fees of an epoch may or may not reach, two epochs, so that what one boundary tracked is
  reset by the next. `One = 16` divides as the fixed point of the code does for
  these amounts; `MaxU64 = 16` is above all coins (12), as u64 is above the supply.
- Genesis: two users, one who may correct the mnemonic of a wrong account, the right
  one having a record, and one who may change its host; six recovery files (more
  unlocked than there is, with an escrow that seeds one validator, or none and a record
  without a key; a dropped donor; no balance; a dropped validator; many pledges whose
  shares round to nothing); one change of configuration each, two faults. `Scale` is
  2^16 where the code has 2^64: the shares round alike as long as a pledge times all
  pledges is below it.

Symmetry is used for authorities, donors and validators in runs without liveness. Deadlock is
not checked where nobody is obliged to act or where the epoch bound ends the run.

### Fairness

`epoch_clock`: weak fairness of blocks with a proposer, because consensus keeps
producing them; strong fairness of `Boundary`, because a block may end before a
pending `trigger_epoch` runs, but anybody may resend it (the tools have a command).
Nothing is assumed of governance or rescues. `donor_payments`:
weak fairness of the epoch boundary, which `epoch_clock` justifies. `genesis`: an
operator whose wizard ended with an error runs it again, a running wizard goes on,
the host finishes a fork it began, and the coordinator merges open pulls and calls
when all are done, which is what they came together for; nothing is assumed
of builds, and failures are bounded in number, not in place. Voters, donors and bidders owe nothing.

## 4. Proofs

Checked by TLAPS for all values of the constants that satisfy the named
assumptions; the epoch and time bounds are constants too.

- **EpochTrigger.** `TriggerInvariant`, and from it `TriggerTypes` and
  `EpochsAlwaysAgree` (the invariants of the run);
  `OneEpochPerBoundary` and `SpacedBoundaries` (the action properties);
  `TriggerImplementsClock`, the refinement. Invariant: the clock is at least the
  last reconfiguration, strictly while transactions run; the last boundary was a
  reconfiguration; on mainnet a raised bit is an interval after it. The second
  conjunct is what makes `reconfigure` never return silently in a boundary, and
  the third is what survives a reconfiguration between raising and use.
- **MultiAction.** `MultiActionInvariant` and from it `MultiActionTypes`, `QuorumAlwaysPossible`,
  `NoDuplicateProposals`, `AuthorityNeedsVote`, `DecisionsStand` and `ThresholdsNeedVotes`.
  The last rests on `WaitingWasVoted`: a threshold that waits in the offer of a caged
  account was voted. Invariant: types,
  the quorum, unique open proposals, and besides the owners also the candidates in
  the offer of a caged account were voted in - without the last part a claim could
  not be shown to follow a vote. Removal keeps the threshold reachable because
  `multisig_account` compares before it removes.
- **CommunityWallet.** `WalletAlwaysQuorate`, on top of the invariant of
  MultiAction. `WalletStaysQuorate` alone is not inductive: a threshold voted with
  an addition waits in the offer until the claim. `WalletInv` adds that a waiting
  threshold is at least the minimum, which `change_signer_community_multisig`
  checks when it is voted. Assumed of the proposals: each names one signer, as the
  entry function does.
- **Ledger.** `LedgerInvariant` and from it `UnlockedIsHeld`, `ListedHaveWallets` and
  `LockedStay`. Invariant: types, no more unlocked than held by wallets outside
  `direct`, and listed accounts are wallets. One lemma per way of moving coins (`DebitSound`, `CreditSound`,
  `DripSound`, ...) shows that it keeps an account well typed (`Typed`) and its unlocked part covered
  (`Within`); `MovedSound` is the exception, `coin::transfer`, which keeps the types, the
  sum, and every account but the sender's; and `DripSound` shows that the drip covers
  all again, so the exemption ends with the epoch. A transaction and a
  boundary are compositions of them, so the order of the stages does not matter
  for this invariant. `BooksInvariant` adds the sums: `LedgerBooks` is `LedgerInv`,
  the totals of escrow and fee makers with the types they need, and
  `BooksBalance`. From it `CoinsAreConserved`, `LedgerTypes` (nothing the code keeps
  unsigned goes below zero) and `DripAlwaysAdvances`. Here the order does matter: what
  a stage takes out of the accounts is in the pot before the next one counts. Assumed:
  the bill of a safe is not above its balance (`SafeFee <= One`); genesis starts with
  no more unlocked than held, which `GenesisAlwaysFaithful` proves of the migration;
  and `SupplyAssumption`, all coins and one drip fit the u64 that counts them (the
  final supply set in `genesis_functions.rs` is 10^17 of the smallest unit, a drip is
  3.5 * 10^10, and u64 ends at 1.8 * 10^19).
- **DonorVoice and TurnoutTally.** `DonorVoiceInvariant`, and from it `DonorVoiceTypes`,
  `PaymentsAreSettledOnce`, `VetoesAreCarried`, `VotesAreBacked`, `FreezesHaveAReason`,
  `FundsAreConserved` and the action properties `NothingIsPaidEarly` and
  `LiquidatedPayNobody`. `DonorVoiceInv` has one part per concern, each about one wallet:
  payments are numbered without gaps over the three lists and none is in two of
  them; what was voted in a ballot was given by its voters and is within its
  enrolment, and a completed one had more than an eighth of the votes; that the vote which
  carries a veto comes in a later epoch than the ones that reached the share
  (`VetoesAreCarried`, about steps) uses the ballot before and after it;
  balance, payments, refunds and sweep add up to the donations; and the queue of
  liquidations explains the freeze. `PaymentsSettleOnce` alone is not inductive: it
  does not say that the next number is new. The loop over due payments goes from the
  back of a list it shortens; it is a recursive function on the position, and
  `PaymentsSound` is kept along it.
- **CommunityBatch.** `BatchInvariant`, and from it `BatchTypes`, `FilesAlwaysBacked` and
  `FirstPaymentIsVotedOnce`. `BatchInv` has for each operator: what its file and its
  running tool claim is on the chain (`Backed`), its numbers and transactions in
  flight fit together (`ToolSound`, `PoolSound`), and, for the first payment,
  `VoteSound`: whatever is in flight for it has the number the chain accepts next,
  so at most one of them executes, and is there only while the operator may still
  vote. The argument rests on two things in the code: the sequence number is read
  *before* the ballots, so an older transaction either shows in the ballots or is
  stale; and two ballots for one payment cannot both be carried by majorities of
  the same authorities (`OneApproval`). Assumed: the wallet needs more than half of
  its signers (`multisig_thresh` asks for two thirds). `FirstPaymentIsVotedOnce` has a
  hypothesis, `FirstPayeeOnce`: no other payment of the file goes to the first
  recipient. It is necessary: `BatchTx::run` keeps the ballots in a map by recipient,
  and with the file `<<[p, 1], [p, 2]>>` TLC finds a second vote, because the ballot of
  the second payment hides the first. These proofs share a module with
  CommunityWallet's, and so its assumptions on the constants of both.
- **GenesisMigration and GenesisCeremony.** `CeremonyInvariant`, and from it
  `BlobsAlwaysComplete`, `BlobsAlwaysAgree` and `GenesisAlwaysFaithful`, for every layout,
  every set of recovery files and every escrow. `CeremonyInv`: files in the
  repository, on a fork or read by a build are of versions their owner had; when
  genesis is called every wizard is off and no pull is open, so from then on nothing
  can write to the repository; a build that began after the call has read what is
  there; and a blob has for each user two files of one account, and the chain of the
  recovery file and those accounts. That such a
  chain is faithful is a fact about the operators (`EncodingIsFaithful`): the users'
  coins are those of the file (`MigratedCoins`), and registering a validator takes
  from the pledges what it gives (`RegisterOne`; no share is above its pledge,
  `ShareFits`, which uses of `Scale` only that it is positive), which is carried along the layout by induction on its length.
  Assumed: users of a layout are distinct and have no account in common, records have
  their types, and `ExportAssumption`.
- **ValidatorSelection.** `SelectionInvariant` and from it `SelectionTypes`, `SetAlwaysViable`,
  `OnlyQualifiedEnter`, `JailedStayOut`, `FewNewcomers`. Invariant: types, a viable
  set, and as many seats as validators. The last part is `set_current_seats`: the
  bound on newcomers follows from the unproven quota only because unfilled seats
  are not carried over. `Failover` is treated once, in `FailoverIsViable`; the
  theorems speak of boundaries that complete (see `selection_abort`).

The library's induction theorems cannot be used here, so where a proof goes along
data (sums over a set, the positions of a list, the users of a layout) it takes a
least counterexample: `LeastSubset` and `LeastNumber` say that there is one, and each
lemma shows that removing one element gives a smaller.

Every safety property and every action property of the passing runs is a theorem.
Only model-checked: liveness under fairness, which this prover does not do
(`ReadyIsConsumed`, `BoundariesRecur`, `PaymentsComplete`, `RegistrationCompletes`);
and what the violation runs refute, `BoundaryCompletes` and `UnlockedWithinTotal`.

## 5. Disagreements between code and documentation

With a run (`PROJECT.json`, findings): the failover loop, and `coin::transfer`. The
comment above it says "Locking down transfers so that only system contracts can use
this", but an `entry` function is open to everyone. A slow wallet with 10 coins and 1
unlocked can send all 10 and is left with 1 unlocked of none; coins sent away like
this and given back by tracked deposits raise `unlocked` without bound until the next
drip cuts it down, and a drip that meets a value near the top of u64 does not end.
What the models claim of unlocked parts is therefore about wallets that did not use
it in the epoch, and about the effect of everybody else's steps on them.

Met while reading or modelling, without a run of their own:

- *Relatives*: a candidate is compared with the authorities when an addition is
  proposed and voted, not when it is claimed, so two relatives voted in together
  both become authorities.
- *Loops over a shrinking list*: `reject` keeps the old length, so the deciding vote
  on a payment that is not last in the schedule aborts; `vm_liquidate` "will ...
  liquidate all Donor Voice wallets in the queue", but a queue of two aborts the boundary
  and, as the queue is never emptied, every later one. `PaymentsComplete` names this
  case: no wallet's payments complete after it.
- *Frozen wallets still pay*: nothing in scheduling or paying reads `is_frozen`
  (`donor_voice_txs.move` says "no operations are available").
- *Vetoes*: "Each veto adds one day/epoch to the transaction" (`donor_voice_txs.move`,
  at the top and where the deadline is set), but the branch of `veto_handler` that adds
  it is for a ballot that was decided and not carried, which there never is: no veto
  delays a payment. `PaymentsWait` bounds deadlines from below only. A payment that stays short past
  the end of its ballot can no longer be vetoed (`is_unique_proposal`); the
  rejection counter is reset by a payment that was due but not paid; a donor whose
  share truncates to zero aborts the liquidation.
- *Multi-action*: re-offering skips an address next to a claimed one; votes of
  removed authorities still count; the first, expired entry of an address in the
  offer blocks a later one; a duplicate entry keeps a voted threshold unapplied.
- *Boundary*: fee makers are reset before `epoch_burn_fees` reads them, so the
  preferences of "remainder gets burnt according to fee maker preferences"
  (`epoch_boundary.move`) never apply and all is burnt; nobody is jailed in an epoch
  without fees.
- *Escrow*: when the budget is more than there is, each share is more than the whole
  and nothing is withdrawn at all; otherwise shares round down per pledger.
- *Batch tool*: a rerun while a transaction of a later payment is in flight can vote
  for that payment twice, in two ballots (the first payment is safe if its recipient is in the file once); the `voters`
  of a ballot that has expired stay in the file, and its authority then skips the
  payment for good; of two payments to one recipient only one ballot is seen, so a
  rerun may vote again even for the first. So nothing is claimed of the batch's progress.
- *Genesis*: `build` drops the list of errors of the audit and prints "account
  balances as expected" and "final supply as expected" in any case, after the files
  were written; the audit reports every validator with a record whom the escrow
  seeds, and panics on one whose record has no balance; a validator on the drop
  list panics the build.
- *Proof of fee*: an expiry of zero is documented as "never expires" and audited as
  expired; the audit uses the previous auction's entry fee; when proven validators
  do not bid, unproven ones can be more than a third of the actual set (the models
  bound them by the outgoing set instead).
- *Pledges*: the search for an earlier vote to revoke returns 0 both for found and
  not found; the vote is private and has no caller.
- *Slow wallets*: the drip loop does not advance past an entry it skips; "Sending funds
  to DonorDirected wallets is also unlimited" (`slow_wallet.move`, at the top), but
  `transfer` limits it to what is unlocked like any other.
- *Vouches*: a grantor at the limit cannot renew.

## 6. Not modelled, and the plan

Not modelled, with reasons, in `PROJECT.json` (components). Most of the repository's
Rust is generated (transaction builders of several versions), reads formats of
older versions, or is input and output around the vendor's node: it has no state
of its own whose order could be wrong. The plan for what has, in order:

1. Vouching: given and received lists agree, limits, expiry; composed with
   `ValidatorSelection` in place of the free choice of `fit`. The limit keeps a
   grantor from renewing, so friends may drop out of qualification together.
2. The auction's price and the thermostat, in place of the free choices of
   `Ledger`'s boundary: bidders are audited against the fee of the previous auction.
3. Governance proposals, and the inherited queue of multisig transactions.
4. Theorems: the abstract specifications the detailed ones implement besides the
   clock, for one, a ledger of conserved coins that `DonorVoice` and the migration
   both start and leave balanced.
