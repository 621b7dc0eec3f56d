---------------------------- MODULE EpochTrigger ----------------------------
(***************************************************************************)
(* When an epoch ends: the block prologue (block.move), the BoundaryBit    *)
(* any user may consume (epoch_boundary.move, diem_governance.move), the   *)
(* epoch counter (reconfiguration.move) and its copy (epoch_helper.move),  *)
(* with reconfigurations by governance proposals and offline rescues in    *)
(* between.                                                                *)
(*                                                                         *)
(* The business logic of the boundary itself is modelled elsewhere; here   *)
(* a boundary is its last call, reconfiguration::reconfigure. A boundary   *)
(* that aborts is rolled back whole, so it is no step at all.              *)
(***************************************************************************)
EXTENDS Integers

CONSTANTS
    Interval,           \* BlockResource.epoch_interval, fixed at genesis
    MaxTime,            \* bound on block timestamps
    MaxEpoch            \* bound on the epoch number

ASSUME TriggerAssumption ==
    /\ Interval \in Nat \ {0}
    /\ MaxTime \in Nat
    /\ MaxEpoch \in Nat

VARIABLES
    chain,          \* ChainId.id: fixed by genesis
    now,            \* CurrentTimeMicroseconds
    last,           \* Configuration.last_reconfiguration_time
    epoch,          \* Configuration.epoch
    helper,         \* EpochHelper.epoch
    ready,          \* BoundaryBit.ready
    closing,        \* BoundaryBit.closing_epoch
    open,           \* the block still executes user transactions
    lastBoundary    \* history: when the last boundary ran (0 at genesis)

vars == <<chain, now, last, epoch, helper, ready, closing, open, lastBoundary>>

\* Chain ids 1 and 4; staging and private chains are neither.
Chains == {"mainnet", "testnet", "other"}

\* testnet::is_testnet
Testnet == chain = "testnet"

\* The negation of testnet::is_not_mainnet.
Mainnet == chain = "mainnet"

TypeOK ==
    /\ chain \in Chains
    /\ now \in Nat
    /\ last \in Nat
    /\ epoch \in Nat
    /\ helper \in Nat
    /\ ready \in BOOLEAN
    /\ closing \in Nat
    /\ open \in BOOLEAN
    /\ lastBoundary \in Nat

(***************************************************************************)
(* Genesis ends with emit_genesis_reconfiguration_event, which sets the    *)
(* epoch to 1 and does not tell epoch_helper.                              *)
(***************************************************************************)
Init ==
    /\ chain \in Chains
    /\ now = 0
    /\ last = 0
    /\ epoch = 1
    /\ helper = 0
    /\ ready = FALSE
    /\ closing = 0
    /\ open = FALSE
    /\ lastBoundary = 0

-----------------------------------------------------------------------------
\* Mutant of BumpEpoch: epoch_helper is told the epoch before the increment.
BumpEpochStaleHelper(t) ==
    /\ epoch < MaxEpoch
    /\ last' = t
    /\ epoch' = epoch + 1
    /\ helper' = epoch
    /\ open' = FALSE

\* reconfiguration::maybe_bump_epoch at time t. A transaction that bumps the
\* epoch is the last one its block executes.
BumpEpoch(t) ==
    /\ epoch < MaxEpoch
    /\ last' = t
    /\ epoch' = epoch + 1
    /\ helper' = epoch + 1
    /\ open' = FALSE

\* reconfiguration::reconfigure: nothing before the first block, and nothing
\* a second time at the same timestamp.
Reconfigure(t) ==
    IF t = 0 \/ t = last
    THEN UNCHANGED <<last, epoch, helper, open>>
    ELSE BumpEpoch(t)

\* epoch_boundary::epoch_boundary, reduced to what it does to the epoch.
EpochBoundary(t) ==
    /\ Reconfigure(t)
    /\ lastBoundary' = t

\* Mutant of EnableEpochTrigger: the epoch before the one epoch_helper knows.
EnablePreviousEpoch ==
    /\ ready' = TRUE
    /\ closing' = helper - 1

\* epoch_boundary::enable_epoch_trigger, called by the VM.
EnableEpochTrigger ==
    /\ ready' = TRUE
    /\ closing' = epoch

\* block::maybe_advance_epoch in the prologue of a block stamped t; user
\* transactions follow when `txs` holds and the prologue did not reconfigure.
\* The first case also covers the early return for t < last.
MaybeAdvanceEpoch(t, txs) ==
    \/ /\ t < last + Interval
       /\ open' = txs
       /\ UNCHANGED <<last, epoch, helper, ready, closing, lastBoundary>>
    \/ /\ t >= last + Interval
       /\ ~Testnet
       /\ EnableEpochTrigger
       /\ open' = txs
       /\ UNCHANGED <<last, epoch, helper, lastBoundary>>
    \/ /\ t >= last + Interval
       /\ Testnet
       /\ EpochBoundary(t)
       /\ UNCHANGED <<ready, closing>>

\* block::block_prologue for a block with a proposer: time must advance.
NormalBlock(t) ==
    /\ t > now
    /\ now' = t
    /\ MaybeAdvanceEpoch(t, TRUE)
    /\ UNCHANGED chain

\* Mutant of NilBlock: it executes user transactions as well.
NilBlockWithTransactions ==
    /\ now' = now
    /\ MaybeAdvanceEpoch(now, TRUE)
    /\ UNCHANGED chain

\* block::block_prologue for a NIL block (proposer @vm_reserved): the
\* timestamp must not change and there are no user transactions.
NilBlock ==
    /\ now' = now
    /\ MaybeAdvanceEpoch(now, FALSE)
    /\ UNCHANGED chain

\* Mutant of TriggerEpoch: can_trigger does not look at the bit.
TriggerEpochUnready ==
    /\ open
    /\ closing <= epoch
    /\ ready' = FALSE
    /\ EpochBoundary(now)
    /\ UNCHANGED <<chain, now, closing>>

\* diem_governance::trigger_epoch, sent by any user.
TriggerEpoch ==
    /\ open
    /\ ready
    /\ closing <= epoch
    /\ ready' = FALSE
    /\ EpochBoundary(now)
    /\ UNCHANGED <<chain, now, closing>>

\* diem_governance::smoke_trigger_epoch, on chains other than mainnet.
SmokeTriggerEpoch ==
    /\ ~Mainnet
    /\ open
    /\ EpochBoundary(now)
    /\ UNCHANGED <<chain, now, ready, closing>>

\* A resolved governance proposal that calls reconfiguration::reconfigure
\* (diem_governance, version, gas_schedule, consensus and execution configs).
GovernanceReconfigure ==
    /\ open
    /\ Reconfigure(now)
    /\ UNCHANGED <<chain, now, ready, closing, lastBoundary>>

\* Mutant of RescueReconfigure: it also takes the bit down.
RescueReconfigureLowersReady ==
    /\ BumpEpoch(now)
    /\ ready' = FALSE
    /\ UNCHANGED <<chain, now, closing, lastBoundary>>

\* diem_governance::danger_reconfigure_on_rescue, applied offline to the
\* database: no block, no timestamp check.
RescueReconfigure ==
    /\ BumpEpoch(now)
    /\ UNCHANGED <<chain, now, ready, closing, lastBoundary>>

Next ==
    \/ \E t \in 1 .. MaxTime : NormalBlock(t)
    \/ NilBlock
    \/ TriggerEpoch
    \/ SmokeTriggerEpoch
    \/ GovernanceReconfigure
    \/ RescueReconfigure

Spec == Init /\ [][Next]_vars

-----------------------------------------------------------------------------
\* The clock never runs behind the last reconfiguration: the early return of
\* block::maybe_advance_epoch "to prevent underflow" is never taken.
NoUnderflow == last <= now

\* While a block executes user transactions its timestamp is newer than the
\* last reconfiguration, so a reconfigure in a transaction always takes effect
\* (the argument of the comment in reconfiguration::reconfigure).
OpenBlockIsNew == open => now > last

\* The bit never names an epoch that has not begun: can_trigger cannot abort
\* with ENOT_SAME_EPOCH.
ClosingNotAhead == closing <= epoch

\* Modules that read the epoch from epoch_helper see the epoch of the
\* Configuration, except in the first epoch, when genesis leaves them at 0.
HelperTracksEpoch ==
    \/ helper = epoch
    \/ epoch = 1 /\ helper = 0

\* A raised bit means a whole interval has passed since the last boundary.
ReadyIsDue ==
    /\ lastBoundary <= last
    /\ (Mainnet /\ ready) => now >= lastBoundary + Interval

\* The clocks, the boundary bit and the two copies of the epoch agree, whatever
\* blocks, triggers, governance and rescues happen in between: all of the above.
EpochsAgree ==
    /\ NoUnderflow
    /\ OpenBlockIsNew
    /\ ClosingNotAhead
    /\ HelperTracksEpoch
    /\ ReadyIsDue

\* Every boundary closes exactly one epoch: it never runs the payments and the
\* validator selection without starting a new epoch.
BoundaryClosesOneEpoch ==
    [][TriggerEpoch \/ SmokeTriggerEpoch => epoch' = epoch + 1]_vars

\* On mainnet two boundaries are at least an epoch interval apart, whatever
\* governance or a rescue reconfigures in between, so no trigger pays or
\* charges validators twice for one interval.
BoundariesAreSpaced ==
    [][Mainnet /\ TriggerEpoch => now >= lastBoundary + Interval]_vars

-----------------------------------------------------------------------------
\* Refinement mapping: the time since the last reconfiguration, as far as
\* maybe_advance_epoch can tell it apart.
sinceReconfiguration == IF now - last < Interval THEN now - last ELSE Interval

Clock == INSTANCE EpochClock WITH elapsed <- sinceReconfiguration

\* The block prologue and the boundary bit implement the clock of EpochClock.
ClockSpec == Clock!Spec
=============================================================================
