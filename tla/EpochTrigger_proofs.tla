------------------------ MODULE EpochTrigger_proofs ------------------------
(***************************************************************************)
(* Proofs about EpochTrigger, for every interval and every kind of chain:  *)
(* one inductive invariant, the action properties that follow from it and  *)
(* the refinement of EpochClock.                                           *)
(***************************************************************************)
EXTENDS EpochTrigger, TLAPS

(* The invariants of the runs are inductive together: OpenBlockIsNew makes *)
(* a boundary in a transaction move `last`, which ReadyIsDue needs.        *)
Inv ==
    /\ TypeOK
    /\ NoUnderflow
    /\ OpenBlockIsNew
    /\ ClosingNotAhead
    /\ HelperTracksEpoch
    /\ ReadyIsDue

(* The invariant holds in the state genesis leaves.                        *)
LEMMA InitInv == Init => Inv
<1> SUFFICES ASSUME Init PROVE Inv
  OBVIOUS
<1>1. ~ready /\ ready \in BOOLEAN /\ ~open /\ open \in BOOLEAN
  BY Zenon DEF Init
<1>2. QED
  BY <1>1, TriggerAssumption DEF Init, Inv, TypeOK, NoUnderflow, OpenBlockIsNew,
     ClosingNotAhead, HelperTracksEpoch, ReadyIsDue, Testnet, Mainnet

(* A prologue (block.move) keeps the invariant: time does not go back and  *)
(* only a block with a newer timestamp runs transactions.                  *)
LEMMA PrologueInv ==
  ASSUME Inv, NEW t \in Nat, NEW txs \in BOOLEAN,
         t >= now, txs => t > now, now' = t, MaybeAdvanceEpoch(t, txs),
         chain' = chain
  PROVE  Inv'
<1> USE TriggerAssumption DEF Inv, TypeOK, NoUnderflow, OpenBlockIsNew,
        ClosingNotAhead, HelperTracksEpoch, ReadyIsDue, Testnet, Mainnet
<1>1. CASE /\ t < last + Interval
           /\ open' = txs
           /\ UNCHANGED <<last, epoch, helper, ready, closing, lastBoundary>>
  BY <1>1
<1>2. CASE /\ t >= last + Interval
           /\ ~Testnet
           /\ EnableEpochTrigger
           /\ open' = txs
           /\ UNCHANGED <<last, epoch, helper, lastBoundary>>
  BY <1>2 DEF EnableEpochTrigger
<1>3. CASE /\ t >= last + Interval
           /\ Testnet
           /\ EpochBoundary(t)
           /\ UNCHANGED <<ready, closing>>
  <2>1. Reconfigure(t) /\ lastBoundary' = t /\ ready' = ready /\ closing' = closing
    BY <1>3 DEF EpochBoundary
  <2>2. CASE t = 0 \/ t = last
    BY <1>3, <2>1, <2>2 DEF Reconfigure
  <2>3. CASE ~(t = 0 \/ t = last)
    <3>1. ~open' /\ open' \in BOOLEAN
      BY <2>1, <2>3, Zenon DEF Reconfigure, BumpEpoch
    <3>2. last' = t /\ epoch' = epoch + 1 /\ helper' = epoch + 1
      BY <2>1, <2>3 DEF Reconfigure, BumpEpoch
    <3>3. QED
      BY <1>3, <2>1, <2>3, <3>1, <3>2
  <2>4. QED
    BY <2>2, <2>3
<1>4. QED
  BY <1>1, <1>2, <1>3 DEF MaybeAdvanceEpoch

(* A boundary or a reconfiguration in a transaction of an open block moves *)
(* `last` to the block's time and the epoch by one (reconfiguration.move). *)
LEMMA OpenReconfigure ==
  ASSUME Inv, open, Reconfigure(now)
  PROVE  /\ last' = now
         /\ epoch' = epoch + 1
         /\ helper' = epoch'
         /\ ~open'
         /\ open' \in BOOLEAN
<1>1. ~(now = 0 \/ now = last)
  BY DEF Inv, TypeOK, NoUnderflow, OpenBlockIsNew
<1>2. BumpEpoch(now)
  BY <1>1 DEF Reconfigure
<1>3. ~open' /\ open' \in BOOLEAN
  BY <1>2, Zenon DEF BumpEpoch
<1>4. QED
  BY <1>2, <1>3 DEF BumpEpoch

(* Every step keeps the invariant.                                         *)
LEMMA NextInv == Inv /\ [Next]_vars => Inv'
<1> SUFFICES ASSUME Inv, [Next]_vars
             PROVE  Inv'
  OBVIOUS
<1>1. ASSUME NEW t \in 1 .. MaxTime, NormalBlock(t)
      PROVE  Inv'
  <2>0. t \in Nat
    BY TriggerAssumption
  <2>1. t \in Nat /\ t > now /\ now' = t /\ MaybeAdvanceEpoch(t, TRUE) /\ chain' = chain
    BY <1>1, <2>0 DEF NormalBlock
  <2>2. TRUE \in BOOLEAN /\ (TRUE => t > now) /\ t >= now
    BY <2>1 DEF Inv, TypeOK
  <2>3. QED
    BY <2>1, <2>2, PrologueInv, Zenon
<1>2. CASE NilBlock
  <2>1. now \in Nat /\ now' = now /\ MaybeAdvanceEpoch(now, FALSE) /\ chain' = chain
    BY <1>2 DEF NilBlock, Inv, TypeOK
  <2>2. FALSE \in BOOLEAN /\ (FALSE => now > now) /\ now >= now
    BY <2>1
  <2>3. QED
    BY <2>1, <2>2, PrologueInv, Zenon
<1>3. CASE TriggerEpoch
  <2>1. /\ open /\ Reconfigure(now) /\ ~ready' /\ ready' \in BOOLEAN
        /\ lastBoundary' = now /\ now' = now /\ closing' = closing
        /\ chain' = chain
    BY <1>3, Zenon DEF TriggerEpoch, EpochBoundary
  <2>2. QED
    BY <2>1, OpenReconfigure, TriggerAssumption
    DEF Inv, TypeOK, NoUnderflow, OpenBlockIsNew, ClosingNotAhead,
        HelperTracksEpoch, ReadyIsDue, Testnet, Mainnet
<1>4. CASE SmokeTriggerEpoch
  <2>1. /\ ~Mainnet /\ open /\ Reconfigure(now) /\ ready' = ready
        /\ lastBoundary' = now /\ now' = now /\ closing' = closing
        /\ chain' = chain
    BY <1>4 DEF SmokeTriggerEpoch, EpochBoundary
  <2>2. QED
    BY <2>1, OpenReconfigure, TriggerAssumption
    DEF Inv, TypeOK, NoUnderflow, OpenBlockIsNew, ClosingNotAhead,
        HelperTracksEpoch, ReadyIsDue, Testnet, Mainnet
<1>5. CASE GovernanceReconfigure
  <2>1. /\ open /\ Reconfigure(now) /\ ready' = ready
        /\ lastBoundary' = lastBoundary /\ now' = now /\ closing' = closing
        /\ chain' = chain
    BY <1>5 DEF GovernanceReconfigure
  <2>2. QED
    BY <2>1, OpenReconfigure, TriggerAssumption
    DEF Inv, TypeOK, NoUnderflow, OpenBlockIsNew, ClosingNotAhead,
        HelperTracksEpoch, ReadyIsDue, Testnet, Mainnet
<1>6. CASE RescueReconfigure
  <2>1. ~open' /\ open' \in BOOLEAN
    BY <1>6, Zenon DEF RescueReconfigure, BumpEpoch
  <2>2. /\ last' = now /\ epoch' = epoch + 1 /\ helper' = epoch + 1
        /\ lastBoundary' = lastBoundary /\ now' = now /\ closing' = closing
        /\ chain' = chain
        /\ ready' = ready
    BY <1>6 DEF RescueReconfigure, BumpEpoch
  <2>3. QED
    BY <2>1, <2>2, TriggerAssumption
    DEF Inv, TypeOK, NoUnderflow, OpenBlockIsNew, ClosingNotAhead,
        HelperTracksEpoch, ReadyIsDue, Testnet, Mainnet
<1>7. CASE UNCHANGED vars
  BY <1>7 DEF vars, Inv, TypeOK, NoUnderflow, OpenBlockIsNew, ClosingNotAhead,
      HelperTracksEpoch, ReadyIsDue, Testnet, Mainnet
<1>8. QED
  BY <1>1, <1>2, <1>3, <1>4, <1>5, <1>6, <1>7 DEF Next

(* The epoch trigger keeps its state well-typed and its clocks, bit and    *)
(* epoch copies consistent, whatever interleaving of blocks, triggers,     *)
(* governance and rescue reconfigurations happens.                         *)
THEOREM TriggerInvariant == Spec => []Inv
<1>1. Init => Inv
  BY InitInv
<1>2. Inv /\ [Next]_vars => Inv'
  BY NextInv
<1>3. QED
  BY <1>1, <1>2, PTL DEF Spec

(* Every variable of block, reconfiguration and epoch_boundary keeps its   *)
(* type through any sequence of blocks, triggers and reconfigurations.     *)
THEOREM TriggerTypes == Spec => []TypeOK
<1>1. Inv => TypeOK
  BY DEF Inv
<1>2. QED
  BY <1>1, TriggerInvariant, PTL

(* The clocks, the bit and the copies of the epoch always agree: the early *)
(* return of maybe_advance_epoch and the abort of can_trigger are not met. *)
THEOREM EpochsAlwaysAgree == Spec => []EpochsAgree
<1>1. Inv => EpochsAgree
  BY DEF Inv, EpochsAgree
<1>2. QED
  BY <1>1, TriggerInvariant, PTL

(* trigger_epoch never runs a boundary without starting a new epoch.       *)
THEOREM OneEpochPerBoundary == Spec => BoundaryClosesOneEpoch
<1>1. Inv /\ [Next]_vars =>
        [TriggerEpoch \/ SmokeTriggerEpoch => epoch' = epoch + 1]_vars
  BY OpenReconfigure DEF TriggerEpoch, SmokeTriggerEpoch, EpochBoundary
<1>2. QED
  BY <1>1, TriggerInvariant, PTL DEF Spec, BoundaryClosesOneEpoch

(* On mainnet boundaries are an epoch interval apart (trigger_epoch).      *)
THEOREM SpacedBoundaries == Spec => BoundariesAreSpaced
<1>1. Inv /\ [Next]_vars =>
        [Mainnet /\ TriggerEpoch => now >= lastBoundary + Interval]_vars
  BY DEF Inv, ReadyIsDue, TriggerEpoch
<1>2. QED
  BY <1>1, TriggerInvariant, PTL DEF Spec, BoundariesAreSpaced

-----------------------------------------------------------------------------
(* A prologue is a step of the clock: a tick with or without transactions, *)
(* or the boundary a testnet block runs by itself.                         *)
LEMMA PrologueRefines ==
  ASSUME Inv, NEW t \in Nat, NEW txs \in BOOLEAN,
         txs => t > now, ~txs => t = now, now' = t, MaybeAdvanceEpoch(t, txs),
         chain' = chain
  PROVE  [Clock!Next]_(Clock!vars)
<1> DEFINE e == sinceReconfiguration
<1>0. /\ now \in Nat /\ last \in Nat /\ last <= now /\ Interval \in Nat \ {0}
      /\ ready \in BOOLEAN /\ open \in BOOLEAN
  BY TriggerAssumption DEF Inv, TypeOK, NoUnderflow
<1>1. CASE /\ t < last + Interval
           /\ open' = txs
           /\ UNCHANGED <<last, epoch, helper, ready, closing, lastBoundary>>
  <2>1. /\ e' = t - last /\ e' < Interval /\ e = now - last
        /\ e' \in Nat /\ e \in Nat
    BY <1>0, <1>1 DEF sinceReconfiguration
  <2>2. CASE txs
    <3>1. e' \in (e + 1) .. Interval \cup {Interval}
      BY <1>0, <2>1, <2>2
    <3>2. open' = TRUE /\ ready' = (ready \/ e' = Interval)
      <4>1. e' # Interval
        BY <1>0, <2>1
      <4>2. open' = TRUE /\ ready' = ready
        BY <1>1, <2>2, Zenon
      <4>3. QED
        BY <1>0, <4>1, <4>2, Zenon
    <3>3. Clock!Tick
      BY <2>1, <3>1, <3>2, Zenon DEF Clock!Tick, Clock!Testnet, Testnet
    <3>4. QED
      BY <3>3 DEF Clock!Next
  <2>3. CASE ~txs
    <3>1. e' = e /\ e < Interval /\ ~(e >= Interval)
      BY <1>0, <2>1, <2>3
    <3>2. open' = FALSE /\ ready' = (ready \/ e >= Interval)
      BY <1>0, <1>1, <2>3, <3>1, Zenon
    <3>3. Clock!NilTick
      BY <3>1, <3>2, Zenon DEF Clock!NilTick, Clock!Testnet, Testnet
    <3>4. QED
      BY <3>3 DEF Clock!Next
  <2>4. QED
    BY <2>2, <2>3
<1>2. CASE /\ t >= last + Interval
           /\ ~Testnet
           /\ EnableEpochTrigger
           /\ open' = txs
           /\ UNCHANGED <<last, epoch, helper, lastBoundary>>
  <2>1. e' = Interval /\ e' \in (e + 1) .. Interval \cup {Interval}
    BY <1>0, <1>2 DEF sinceReconfiguration
  <2>2. ready' = TRUE
    BY <1>2 DEF EnableEpochTrigger
  <2>3. CASE txs
    <3>1. open' = TRUE /\ ready' = (ready \/ e' = Interval)
      BY <1>2, <2>1, <2>2, <2>3, Zenon
    <3>2. Clock!Tick
      BY <1>2, <2>1, <3>1, Zenon DEF Clock!Tick, Clock!Testnet, Testnet
    <3>3. QED
      BY <3>2 DEF Clock!Next
  <2>4. CASE ~txs
    <3>1. e' = e /\ e >= Interval
      BY <1>0, <1>2, <2>1, <2>4 DEF sinceReconfiguration
    <3>2. open' = FALSE /\ ready' = (ready \/ e >= Interval)
      BY <1>2, <2>2, <2>4, <3>1, Zenon
    <3>3. Clock!NilTick
      BY <1>2, <3>1, <3>2, Zenon DEF Clock!NilTick, Clock!Testnet, Testnet
    <3>4. QED
      BY <3>3 DEF Clock!Next
  <2>5. QED
    BY <2>3, <2>4
<1>3. CASE /\ t >= last + Interval
           /\ Testnet
           /\ EpochBoundary(t)
           /\ UNCHANGED <<ready, closing>>
  <2>1. BumpEpoch(t)
    BY <1>0, <1>3 DEF EpochBoundary, Reconfigure
  <2>2. e' = 0
    BY <1>0, <2>1 DEF BumpEpoch, sinceReconfiguration
  <2>3. Clock!TestnetBoundary
    BY <1>3, <2>1, <2>2, Zenon DEF BumpEpoch, Clock!TestnetBoundary,
       Clock!Testnet, Testnet
  <2>4. QED
    BY <2>3 DEF Clock!Next
<1>4. QED
  BY <1>1, <1>2, <1>3 DEF MaybeAdvanceEpoch

(* Every step of the trigger is a step of the clock or leaves it alone.    *)
LEMMA NextRefines == Inv /\ [Next]_vars => [Clock!Next]_(Clock!vars)
<1> SUFFICES ASSUME Inv, [Next]_vars
             PROVE  [Clock!Next]_(Clock!vars)
  OBVIOUS
<1>0. now \in Nat /\ last \in Nat /\ Interval \in Nat \ {0}
  BY TriggerAssumption DEF Inv, TypeOK
<1>1. ASSUME NEW t \in 1 .. MaxTime, NormalBlock(t)
      PROVE  [Clock!Next]_(Clock!vars)
  <2>1. t \in Nat
    BY TriggerAssumption
  <2>2. t > now /\ now' = t /\ MaybeAdvanceEpoch(t, TRUE) /\ chain' = chain
    BY <1>1 DEF NormalBlock
  <2>3. QED
    BY <2>1, <2>2, PrologueRefines, Zenon
<1>2. CASE NilBlock
  <2>1. now' = now /\ MaybeAdvanceEpoch(now, FALSE) /\ chain' = chain
    BY <1>2 DEF NilBlock
  <2>2. QED
    BY <1>0, <2>1, PrologueRefines, Zenon
<1>3. ASSUME BumpEpoch(now), now' = now
      PROVE  sinceReconfiguration' = 0 /\ open' = FALSE
  <2>1. sinceReconfiguration' = 0
    BY <1>0, <1>3 DEF BumpEpoch, sinceReconfiguration
  <2>2. QED
    BY <1>3, <2>1 DEF BumpEpoch
<1>4. ASSUME open, Reconfigure(now)
      PROVE  BumpEpoch(now)
  <2>1. ~(now = 0 \/ now = last)
    BY <1>4 DEF Inv, TypeOK, NoUnderflow, OpenBlockIsNew
  <2>2. QED
    BY <1>4, <2>1 DEF Reconfigure
<1>5. CASE TriggerEpoch
  <2>1. Clock!Boundary
    BY <1>3, <1>4, <1>5, Zenon DEF TriggerEpoch, EpochBoundary, Clock!Boundary
  <2>2. QED
    BY <2>1 DEF Clock!Next
<1>6. CASE SmokeTriggerEpoch
  <2>1. Clock!ForcedBoundary
    BY <1>3, <1>4, <1>6, Zenon
    DEF SmokeTriggerEpoch, EpochBoundary, Clock!ForcedBoundary,
        Clock!Mainnet, Mainnet
  <2>2. QED
    BY <2>1 DEF Clock!Next
<1>7. CASE GovernanceReconfigure
  <2>1. Clock!Restart
    BY <1>3, <1>4, <1>7, Zenon DEF GovernanceReconfigure, Clock!Restart
  <2>2. QED
    BY <2>1 DEF Clock!Next
<1>8. CASE RescueReconfigure
  <2>1. Clock!Restart
    BY <1>3, <1>8, Zenon DEF RescueReconfigure, Clock!Restart
  <2>2. QED
    BY <2>1 DEF Clock!Next
<1>9. CASE UNCHANGED vars
  BY <1>9 DEF vars, Clock!vars, sinceReconfiguration
<1>10. QED
  BY <1>1, <1>2, <1>5, <1>6, <1>7, <1>8, <1>9 DEF Next

(* The code's prologue, bit and reconfigurations implement the clock, so   *)
(* what is checked of EpochClock holds of maybe_advance_epoch.             *)
THEOREM TriggerImplementsClock == Spec => ClockSpec
<1>1. Init => Clock!Init
  <2>1. Init => sinceReconfiguration = 0
    BY TriggerAssumption DEF Init, sinceReconfiguration
  <2>2. QED
    BY <2>1, Zenon DEF Init, Clock!Init, Clock!Chains, Chains
<1>2. Inv /\ [Next]_vars => [Clock!Next]_(Clock!vars)
  BY NextRefines
<1>3. QED
  BY <1>1, <1>2, TriggerInvariant, PTL DEF Spec, ClockSpec, Clock!Spec
=============================================================================
