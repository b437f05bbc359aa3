--------------------------- MODULE ChainInvariant ---------------------------
(***************************************************************************)
(* The inductive invariant behind the theorems of ChainTheorems: what      *)
(* holds at every stage of a handler, of a crash and of a restart, and     *)
(* implies that the chain of the tip spends no key image twice.            *)
(***************************************************************************)
EXTENDS Chain

Reorging == phase \in {"disconnect", "connect", "undo", "reapply"}

\* The committed tip.
T == db_state.tip_hash

\* The index on disk is the chain of the committed tip.  A height that does not
\* belong to the tip is what a truncated load leaves behind; no node runs on it.
DiskOK ==
    /\ Genesis \in db_blocks
    /\ \A h \in 0 .. Height(T) : db_heights[h] = Anc(T, h)
    /\ \A h \in Heights : db_heights[h] # NoBlock => Height(db_heights[h]) = h
    /\ db_state.height = Height(T) => \A h \in Heights : h > Height(T) => db_heights[h] = NoBlock
    /\ phase \notin {"down", "boot"} => db_state.height = Height(T)

TipOK ==
    /\ phase \notin {"down", "commit", "commit_reorg"} => tip = Tip(T, db_state.height)
    /\ phase \in {"commit", "commit_reorg"} => tip = Tip(job.block, Height(job.block))

\* The local variables of the handler that extends the tip, and of the reorg.
JobOK ==
    /\ phase \in {"extend", "commit"} =>
        /\ job.block \in Block \ {Genesis}
        /\ Parent(job.block) = T
        /\ SpendsOnce(job.block)
    /\ Reorging \/ phase = "commit_reorg" =>
        /\ job.block \in Block
        /\ job.pre_tip = Tip(T, Height(T))
        /\ job.fork < Height(job.block)
        /\ job.fork <= Height(T)
        /\ Anc(job.block, job.fork) = Anc(T, job.fork)
        /\ \A h \in job.fork + 1 .. Height(job.block) : NoDuplicateKeyImages(Anc(job.block, h))
        /\ job.disconnected \subseteq {Anc(T, h) : h \in job.fork + 1 .. Height(T)}
    /\ Reorging => job.fork <= job.at
    /\ phase \in {"disconnect", "reapply"} => job.at <= Height(T)
    /\ phase \in {"connect", "undo"} => job.at < Height(job.block)
    /\ phase \in {"disconnect", "undo"} => job.fork < job.at

\* The index in memory names only blocks of the applied chain.
IndexOK ==
    phase # "down" =>
        \A h \in Heights : height_to_hash[h] # NoBlock =>
            h <= Height(Applied) /\ height_to_hash[h] = Anc(Applied, h)

KnownOK == \A b \in cache \cup db_blocks : NoDuplicateKeyImages(b)

\* The blocks whose effects a reorg has undone: the others it found uncached.
Undone == job.disconnected \cap cache

\* Every key image of the applied chain is marked spent; in a reorg, so are those
\* of the old chain that were not undone, and no connected block shares one of them.
SpentOK ==
    /\ phase \in {"boot", "idle", "extend", "commit", "commit_reorg"} =>
        SpentOn(tip.hash) \subseteq key_images
    /\ phase \in {"disconnect", "connect", "undo"} => Images(Branch(T) \ Undone) \subseteq key_images
    /\ phase \in {"connect", "undo"} =>
        \A h \in job.fork + 1 .. job.at :
            LET n == Anc(job.block, h)
            IN  /\ BlockKeyImages(n) \subseteq key_images
                /\ BlockKeyImages(n) \cap Images(Branch(T) \ Undone) = {}
                /\ SpendsOnce(n)
    /\ phase = "reapply" =>
        Images(Branch(T) \ {o \in Undone : Height(o) > job.at}) \subseteq key_images

\* The inductive invariant: the type invariant, the facts above about the disk, the
\* tip, the running handler, the index and the spent key images, and NoDoubleSpend.
ChainInv ==
    TypeOK /\ DiskOK /\ TipOK /\ JobOK /\ IndexOK /\ KnownOK /\ SpentOK /\ NoDoubleSpend
=============================================================================
