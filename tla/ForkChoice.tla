----------------------------- MODULE ForkChoice -----------------------------
(***************************************************************************)
(* When one chain of the block tree is better than another, and when a     *)
(* chain is acceptable at all: the reference notions the abstract and the  *)
(* detailed chain specifications share.                                    *)
(***************************************************************************)
EXTENDS BlockTree, ReorgPolicy

\* Nothing on the chain of b spends twice, names a ring member that is not on the
\* chain below it, pays an address of that chain again (coinbases may), or has a
\* shielded part that does not verify.
AcceptableChain(b) ==
    \A a \in Branch(b) \ {Genesis} :
        /\ a \in ShieldedOk
        /\ SpendsOnce(a)
        /\ \A t \in Txs(a) :
            /\ \A s \in Ring(t) : PayHeights(Parent(a), s) # {}
            /\ KeyImages(t) # {} => PayHeights(Parent(a), Addr(t)) = {}

Better(b, a) == TakeFork(CumWork(b), Hash(b), CumWork(a), Hash(a))
=============================================================================
