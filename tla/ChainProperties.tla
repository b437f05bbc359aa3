-------------------------- MODULE ChainProperties --------------------------
(***************************************************************************)
(* What the chain state machine promises: memory is the replay of the      *)
(* applied chain, the disk describes one chain at every instant, the best  *)
(* fork wins, and the committed tip moves as CanonicalChain allows.        *)
(***************************************************************************)
EXTENDS Chain

\* The UTXO set is exactly what replaying the applied chain from genesis yields,
\* between handlers and inside a reorg, its undo included (chain.rs, the disconnect,
\* connect and rollback loops of add_block; rebuild_utxo_set after a restart).
UtxoMatchesChain ==
    phase # "down" =>
        /\ key_images = SpentOn(Applied)
        /\ outputs = OutputsOn(Applied)
        /\ stealth_index = OwnerOn(Applied)

\* Between handlers the tip is the committed one and the accumulators are the sums
\* over its chain: work is 1 + the difficulties, supply the rewards, burned the burns.
StatsMatchChain ==
    phase = "idle" =>
        /\ tip = Tip(db_state.tip_hash, Height(tip.hash))
        /\ stats = Stats(CumWork(tip.hash), CumSupply(tip.hash), CumBurn(tip.hash), tip.height + 1)

\* At every instant, so after a crash at any point, the height index, the tx index
\* and the state on disk describe one chain, the bodies of which are stored.
DiskDescribesOneChain ==
    LET t == db_state.tip_hash
    IN  /\ db_state.height = Height(t)
        /\ db_state.total_difficulty = CumWork(t)
        /\ db_state.total_supply = CumSupply(t)
        /\ db_state.total_burned = CumBurn(t)
        /\ Branch(t) \subseteq db_blocks
        /\ \A h \in Heights : db_heights[h] = IF h <= Height(t) THEN Anc(t, h) ELSE NoBlock
        /\ \A x \in Tx : LET on == {h \in 0 .. Height(t) : x \in Txs(Anc(t, h))}
                         IN  IF on = {} THEN db_txs[x] = NoHeight ELSE db_txs[x] \in on

\* Addresses that one transaction only uses, so that oldest-wins never decides.
Unshared == {s \in Address : \A t, u \in Tx : Addr(t) = s /\ Addr(u) = s => t = u}

\* Between handlers the output index on disk holds a row for every output of the
\* chain and no other, with the height it was created at (ring-member lookups).
RowsMatchChain(addresses) ==
    phase = "idle" => \A s \in addresses : db_outputs[s] = RowsOn(tip.hash)[s]
UnsharedRowsMatchChain == RowsMatchChain(Unshared)

\* Between handlers no stored block that the node would adopt now ends a better
\* chain than the tip: no fork that should win is left lying in the database.
FollowsBestChain ==
    phase = "idle" =>
        ~ \E b \in db_blocks :
            /\ AcceptableChain(b)
            /\ \E f \in Heights : Reorganises(b, CumWork(b), f)

\* The node ends on the best acceptable chain of all blocks it is ever offered, in
\* whatever order they come, as long as no depth rule stands in the way.
OnBestChain ==
    /\ phase = "idle"
    /\ \A c \in WellFormed : AcceptableChain(c) => c = tip.hash \/ Better(tip.hash, c)
ConvergesToBestChain == <>[]OnBestChain

\* Whatever happens in memory and however often the process dies, the committed tip
\* moves like the canonical chain of module CanonicalChain.
Canonical == INSTANCE CanonicalChain WITH canonical <- db_state.tip_hash
ImplementsCanonicalChain == Canonical!Spec

=============================================================================
