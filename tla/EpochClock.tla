----------------------------- MODULE EpochClock -----------------------------
(***************************************************************************)
(* What the epoch trigger promises, without absolute times or epoch        *)
(* numbers: a clock of the time since the last reconfiguration, stopped    *)
(* at the epoch interval, and the "ready" bit any user may consume.        *)
(*                                                                         *)
(* The state is finite and the behaviours are infinite, so liveness is     *)
(* checked here; EpochTrigger, which models the code, implements this      *)
(* specification.                                                          *)
(***************************************************************************)
EXTENDS Naturals

CONSTANT Interval   \* BlockResource.epoch_interval

ASSUME ClockAssumption == Interval \in Nat \ {0}

VARIABLES
    chain,      \* the chain id, fixed by genesis
    elapsed,    \* time since the last reconfiguration, at most Interval
    ready,      \* the epoch may be closed by any user
    open        \* user transactions can still run in the current block

vars == <<chain, elapsed, ready, open>>

Chains == {"mainnet", "testnet", "other"}

Testnet == chain = "testnet"

Mainnet == chain = "mainnet"

TypeOK ==
    /\ chain \in Chains
    /\ elapsed \in 0 .. Interval
    /\ ready \in BOOLEAN
    /\ open \in BOOLEAN

Init ==
    /\ chain \in Chains
    /\ elapsed = 0
    /\ ready = FALSE
    /\ open = FALSE

\* A block with no user transactions: time stands still.
NilTick ==
    /\ elapsed < Interval \/ ~Testnet
    /\ ready' = (ready \/ elapsed >= Interval)
    /\ open' = FALSE
    /\ UNCHANGED <<chain, elapsed>>

\* Mutant of Tick: the bit needs more than the interval.
TickStrictlyAfter ==
    /\ \E e \in (elapsed + 1) .. Interval \cup {Interval} :
        /\ e < Interval \/ ~Testnet
        /\ elapsed' = e
        /\ ready' = (ready \/ e > Interval)
    /\ open' = TRUE
    /\ UNCHANGED chain

\* A block advances the clock; at the interval the bit is raised.
Tick ==
    /\ \E e \in (elapsed + 1) .. Interval \cup {Interval} :
        /\ e < Interval \/ ~Testnet
        /\ elapsed' = e
        /\ ready' = (ready \/ e = Interval)
    /\ open' = TRUE
    /\ UNCHANGED chain

\* On testnet the block that reaches the interval runs the boundary itself.
TestnetBoundary ==
    /\ Testnet
    /\ elapsed' = 0
    /\ open' = FALSE
    /\ UNCHANGED <<chain, ready>>

\* Mutant of Boundary: the bit is only valid in the block that raises it.
BoundaryInDueBlock ==
    /\ open
    /\ ready
    /\ elapsed = Interval
    /\ elapsed' = 0
    /\ ready' = FALSE
    /\ open' = FALSE
    /\ UNCHANGED chain

\* A user consumes the bit.
Boundary ==
    /\ open
    /\ ready
    /\ elapsed' = 0
    /\ ready' = FALSE
    /\ open' = FALSE
    /\ UNCHANGED chain

\* A boundary forced on a chain that is not mainnet: the bit is not touched.
ForcedBoundary ==
    /\ ~Mainnet
    /\ open
    /\ elapsed' = 0
    /\ open' = FALSE
    /\ UNCHANGED <<chain, ready>>

\* A reconfiguration by governance or by a rescue restarts the clock and
\* leaves the bit as it is.
Restart ==
    /\ elapsed' = 0
    /\ open' = FALSE
    /\ UNCHANGED <<chain, ready>>

Next == NilTick \/ Tick \/ TestnetBoundary \/ Boundary \/ ForcedBoundary \/ Restart

(***************************************************************************)
(* Fairness: consensus keeps producing blocks that have a proposer, and a  *)
(* trigger_epoch transaction that could run again and again is eventually  *)
(* included (anyone may send it; the CLI has the command "EpochBoundary"). *)
(***************************************************************************)
Fairness ==
    /\ WF_vars(Tick \/ TestnetBoundary)
    /\ SF_vars(Boundary)

Spec == Init /\ [][Next]_vars

FairSpec == Spec /\ Fairness

-----------------------------------------------------------------------------
\* Once block.move has raised BoundaryBit.ready, some user's trigger_epoch
\* consumes it, whatever reconfigurations governance interposes.
ReadyIsConsumed == ready ~> ~ready

\* Epoch boundaries never stop: neither the testnet prologue nor the ready bit
\* can leave the chain in an epoch that is never closed, unless governance
\* restarts the interval for ever.
BoundariesRecur ==
    \/ []<><<Boundary \/ TestnetBoundary \/ ForcedBoundary>>_vars
    \/ []<><<Restart>>_vars
=============================================================================
