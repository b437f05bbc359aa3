--------------------------- MODULE CanonicalChain ---------------------------
(***************************************************************************)
(* What the chain component promises its users (wallets, miners, RPC): a   *)
(* single canonical tip that is only ever replaced by a better, fully      *)
(* acceptable one, and never so that a block CheckpointInterval or more    *)
(* below it changes.  Storage, caches, reorg stages, crashes and restarts  *)
(* are invisible here.                                                     *)
(***************************************************************************)
EXTENDS Integers

CONSTANTS
    Block, Genesis,
    Height(_), Anc(_, _),   \* the block tree (module BlockTree)
    FinalityFloor(_),       \* the height a tip of this height makes final (ReorgPolicy)
    Better(_, _),           \* the fork choice, and
    AcceptableChain(_)      \* the chains that may win at all (ForkChoice)

VARIABLE canonical

Init == canonical = Genesis

\* The new chain has the finalised prefix of the old one.
KeepsFinalised(b) ==
    LET floor == FinalityFloor(Height(canonical))
    IN  Height(b) >= floor /\ Anc(b, floor) = Anc(canonical, floor)

Adopt(b) ==
    /\ Better(b, canonical)
    /\ AcceptableChain(b)
    /\ KeepsFinalised(b)
    /\ canonical' = b

Next == \E b \in Block : Adopt(b)

Spec == Init /\ [][Next]_canonical
=============================================================================
