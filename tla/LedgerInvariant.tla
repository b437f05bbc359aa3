-------------------------- MODULE LedgerInvariant ---------------------------
(***************************************************************************)
(* What the theorems of ChainTheorems rest on, beside ChainInv: the UTXO   *)
(* set is the replay of the applied chain, the statistics and the disk     *)
(* describe the committed one, the chain that wins is the better one, and  *)
(* the cache reaches as far down as a reorg does.                          *)
(***************************************************************************)
EXTENDS ChainProperties, ChainInvariant

MidReorg == Reorging \/ phase = "commit_reorg"

-----------------------------------------------------------------------------
(* The hypotheses.                                                         *)

\* The disconnect loop, which reads the cache only, finds the block it is at.
DisconnectsCached == Disconnect => height_to_hash[job.at] \in cache

\* The process dies between handlers or while it extends the tip, not within a reorg.
CrashesOutsideReorg == Crash => ~MidReorg

\* No read and no write of the database fails.
Reliable == ~ReadErrors /\ ~WriteErrors

\* A chain with as much work as another is at most KeepBlocks - CheckpointInterval + 1
\* blocks shorter (57 with the 200 and 144 of the code).
WindowCovers ==
    \A a, b \in Block : CumWork(a) <= CumWork(b) =>
        Height(a) + CheckpointInterval <= Height(b) + KeepBlocks + 1

\* No rule limits how deep a reorg goes, the cache keeps every block, and the process
\* does not die.
NoDepthRules ==
    /\ MaxReorgDepth >= MaxHeight /\ BootstrapHeight > MaxHeight
    /\ CheckpointInterval >= MaxHeight /\ KeepBlocks >= MaxHeight
    /\ MaxCrashes = 0

-----------------------------------------------------------------------------
(* The UTXO set.                                                           *)

\* The height down to which the running reorg has disconnected the old chain.
Floor == IF phase = "disconnect" THEN job.at ELSE job.fork

\* A reorg has disconnected every block of the old chain above that height, and still
\* holds them all in the cache.
DisconnectedOK ==
    MidReorg =>
        /\ job.disconnected = {Anc(T, h) : h \in Floor + 1 .. Height(T)}
        /\ job.disconnected \subseteq cache

LedgerInv == DisconnectedOK /\ UtxoMatchesChain

-----------------------------------------------------------------------------
(* The statistics and the disk, where no read or write fails.              *)

StatsOf(b) == Stats(CumWork(b), CumSupply(b), CumBurn(b), Height(b) + 1)

StatsOK ==
    /\ phase \in {"boot", "idle", "extend"} => stats = StatsOf(T)
    /\ phase \in {"commit", "commit_reorg"} => stats = StatsOf(job.block)
    /\ phase \in {"disconnect", "connect"} =>
        stats = Stats(CumWork(T), CumSupply(Applied), CumBurn(Applied), Height(T) + 1)
    /\ Reorging => job.pre_stats = StatsOf(T) /\ job.work = CumWork(job.block)

\* What is cached is stored, and so are the ancestors of what is stored.
StoredOK ==
    /\ cache \subseteq db_blocks
    /\ T \in db_blocks
    /\ \A b \in db_blocks : Branch(b) \subseteq db_blocks
    /\ phase \in {"extend", "commit"} \/ MidReorg => job.block \in db_blocks

BooksInv == StatsOK /\ DiskDescribesOneChain

-----------------------------------------------------------------------------
(* The choice of the chain.                                                *)

\* The chain whose outputs the rows on disk are among: a reorg removes rows as it
\* disconnects, and adds none before it commits.
RowBase ==
    CASE phase \in {"disconnect", "reapply"} -> Anc(T, job.at)
      [] phase \in {"connect", "undo", "commit_reorg"} -> Anc(T, job.fork)
      [] OTHER -> T

RowsOnChain == \A s \in Address : db_outputs[s] # NoRow => PayHeights(RowBase, s) # {}

ChoiceInv ==
    /\ RowsOnChain
    /\ AcceptableChain(T)
    /\ phase \in {"extend", "commit", "commit_reorg"} => AcceptableChain(job.block)
    /\ phase \in {"connect", "undo"} => AcceptableChain(Anc(job.block, job.at))
    /\ MidReorg => Better(job.block, T) /\ FinalityFloor(Height(T)) <= job.fork

\* For an address that one transaction only uses the row is that chain's.
RowsOK == \A s \in Unshared : db_outputs[s] = RowsOn(RowBase)[s]

-----------------------------------------------------------------------------
(* The cache.                                                              *)

\* The height up to which the index in memory is that of the applied chain.
Reach ==
    CASE phase \in {"disconnect", "connect", "reapply"} -> job.at
      [] phase = "undo" -> job.fork
      [] OTHER -> tip.height

\* The index names every block up to there that lies within KeepBlocks of the highest
\* tip since the start, and the block is cached; the fork block a reorg connected last
\* need not be, the next one looks it up.
WindowInv ==
    /\ phase \in {"extend", "commit"} \/ MidReorg => job.block \in cache
    /\ phase # "down" => \E top \in Block :
        /\ CumWork(top) <= CumWork(tip.hash)
        /\ \A h \in 1 .. Reach : h + KeepBlocks >= Height(top) =>
            /\ height_to_hash[h] # NoBlock
            /\ height_to_hash[h] \in cache \/ (phase = "connect" /\ h = job.at /\ job.fork < h)

-----------------------------------------------------------------------------
(* The best chain, where no depth rule applies.                            *)

\* No stored block that ends an acceptable chain is better than the committed tip,
\* except the one a handler is adopting; and the node runs, with every stored block in
\* its cache.
BestInv ==
    /\ phase \notin {"down", "boot"}
    /\ db_blocks \subseteq cache
    /\ \A b \in db_blocks : AcceptableChain(b) =>
        \/ b = T \/ Better(T, b)
        \/ b = job.block /\ phase \in {"extend", "commit", "disconnect", "connect", "commit_reorg"}
=============================================================================
