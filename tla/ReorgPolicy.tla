---------------------------- MODULE ReorgPolicy ----------------------------
(***************************************************************************)
(* The pure reorg-acceptance policy of consensus/finality.rs and the       *)
(* fork-choice and finality-floor decisions add_block takes around it.     *)
(*                                                                         *)
(* Works are cumulative chain works (u128 in the code); MaxWork stands for *)
(* u128::MAX and is where saturating_mul saturates.                        *)
(***************************************************************************)
EXTENDS Integers

CONSTANTS
    MaxReorgDepth,          \* max_reorg_depth_for(network)
    UnconditionalDepth,     \* REORG_UNCONDITIONAL_DEPTH
    MessDivisor,            \* MESS_EXPONENT_DIVISOR
    BootstrapHeight,        \* BOOTSTRAP_MESS_HEIGHT
    ExponentCap,            \* the cap on the MESS exponent
    MaxWork,                \* u128::MAX
    CheckpointInterval      \* CHECKPOINT_INTERVAL

ASSUME PolicyAssumption ==
    /\ MaxReorgDepth \in Nat
    /\ UnconditionalDepth \in Nat
    /\ MessDivisor \in Nat \ {0}
    /\ BootstrapHeight \in Nat
    /\ ExponentCap \in Nat
    /\ MaxWork \in Nat
    /\ CheckpointInterval \in Nat \ {0}

AtMost(x, bound) == IF x <= bound THEN x ELSE bound

\* saturating_sub on u64.
SatSub(x, y) == IF x >= y THEN x - y ELSE 0

MessRequiredWork(depth, honest) ==
    LET exponent == AtMost((depth - UnconditionalDepth) \div MessDivisor, ExponentCap)
    IN  AtMost(honest * 2^exponent, MaxWork)

\* evaluate_reorg_acceptability(depth, fork_work, honest_work, current_height, max).
Acceptable(depth, fork, honest, height) ==
    /\ depth <= MaxReorgDepth
    /\ IF depth <= UnconditionalDepth \/ height < BootstrapHeight
          THEN fork >= honest
          ELSE fork > MessRequiredWork(depth, honest)

\* Fork choice of add_block: more work, or equal work and a smaller tip hash.
TakeFork(forkWork, forkHash, tipWork, tipHash) ==
    \/ forkWork > tipWork
    \/ forkWork = tipWork /\ forkHash < tipHash

FinalityFloor(tipHeight) == SatSub(tipHeight, CheckpointInterval)

\* add_block refuses a reorg whose fork point lies under the finality floor.
BelowFloor(forkPoint, tipHeight) ==
    /\ FinalityFloor(tipHeight) > 0
    /\ forkPoint < FinalityFloor(tipHeight)
=============================================================================
