------------------------------- MODULE Chain -------------------------------
(***************************************************************************)
(* The chain state machine of chain.rs: add_block with its three outcomes  *)
(* (extend the tip, keep a fork block, reorganise), the undo of a failed   *)
(* reorg, the crash of the process at any point and the reload at restart. *)
(*                                                                         *)
(* apply_lock serialises the writers, so a handler runs alone; but it is   *)
(* not one step.  It releases the inner lock between its stages, it writes *)
(* to disk in several separate operations, and a crash can fall between    *)
(* any two of them.  Each loop iteration and each durable write is         *)
(* therefore an action, and phase is the program counter of the handler.   *)
(***************************************************************************)
EXTENDS ForkChoice

CONSTANTS
    KeepBlocks,     \* heights never evicted, and reloaded, below the tip (200)
    MaxBlockCache,  \* MAX_BLOCK_CACHE (500)
    ReadErrors,     \* may a database read fail during a reorg?
    WriteErrors,    \* may db.blocks.insert fail?
    MaxCrashes      \* bound on the crashes of a behaviour

ASSUME ChainAssumption ==
    /\ KeepBlocks \in Nat /\ MaxBlockCache \in Nat /\ MaxCrashes \in Nat
    /\ ReadErrors \in BOOLEAN /\ WriteErrors \in BOOLEAN

VARIABLES
    cache,          \* inner.blocks
    height_to_hash, \* inner.height_to_hash
    tip,            \* inner.tip
    stats,          \* inner.stats
    outputs,        \* inner.utxos.outputs
    stealth_index,  \* inner.utxos.stealth_index
    key_images,     \* inner.utxos.key_images
    db_blocks,      \* db.blocks, by hash
    db_heights,     \* db.blocks.height_index
    db_state,       \* db.state: ChainStateData
    db_outputs,     \* db.output_index
    db_txs,         \* db.tx_index
    phase,          \* where the running handler is
    job,            \* the local variables of the running handler
    crashes         \* crashes so far

memory == <<cache, height_to_hash, tip, stats>>
utxos  == <<outputs, stealth_index, key_images>>
disk   == <<db_blocks, db_heights, db_state, db_outputs, db_txs>>
vars   == <<memory, utxos, disk, phase, job, crashes>>

Tip(b, h) == [hash |-> b, height |-> h]
Stats(work, supply, burned, blocks) ==
    [total_difficulty |-> work, total_supply |-> supply,
     total_burned |-> burned, total_blocks |-> blocks]
State(b, h, s, ckpt) ==
    [tip_hash |-> b, height |-> h, total_difficulty |-> s.total_difficulty,
     total_supply |-> s.total_supply, total_burned |-> s.total_burned,
     last_checkpoint |-> ckpt]

NoHeight == -1
NoStats  == Stats(0, 0, 0, 0)
NoJob ==
    [block |-> NoBlock, work |-> 0, fork |-> 0, at |-> 0, pre_tip |-> Tip(NoBlock, 0),
     pre_stats |-> NoStats, disconnected |-> {}]

GenesisStats == Stats(1, Reward(0), 0, 1)
Init ==
    /\ cache = {Genesis}
    /\ height_to_hash = [h \in Heights |-> IF h = 0 THEN Genesis ELSE NoBlock]
    /\ tip = Tip(Genesis, 0)
    /\ stats = GenesisStats
    /\ outputs = Txs(Genesis)
    /\ stealth_index = OwnerOn(Genesis)
    /\ key_images = {}
    /\ db_blocks = {Genesis}
    /\ db_heights = [h \in Heights |-> IF h = 0 THEN Genesis ELSE NoBlock]
    /\ db_state = State(Genesis, 0, GenesisStats, 0)
    /\ db_outputs = RowsOn(Genesis)
    /\ db_txs = [t \in Tx |-> IF t \in Txs(Genesis) THEN 0 ELSE NoHeight]
    /\ phase = "idle"
    /\ job = NoJob
    /\ crashes = 0

-----------------------------------------------------------------------------
(* Reads of the node, and updates of the UTXO set.                         *)

Known(b) == b \in cache \/ b \in db_blocks

\* get_block_hash: the memory index, then the database.
MainHash(h) == IF height_to_hash[h] # NoBlock THEN height_to_hash[h] ELSE db_heights[h]

\* db.blocks.get_by_height: the row of the index, if its body is stored.
DiskBlock(h) == IF db_heights[h] \in db_blocks THEN db_heights[h] ELSE NoBlock

\* The addresses a ring member may name: indexed in memory, or on disk.
Indexed == {s \in Address : stealth_index[s] # NoTx \/ db_outputs[s] # NoRow}

\* The checks of validate_block_ctx that depend on the UTXO set: key images, ring
\* members and the addresses of new outputs, which a coinbase alone may reuse.
ContextValid(b) ==
    /\ BlockKeyImages(b) \cap key_images = {}
    /\ \A t \in Txs(b) :
        /\ Ring(t) \subseteq Indexed
        /\ KeyImages(t) # {} => Addr(t) \notin Indexed

\* apply_batch(batch_from_block(b)): the older output keeps its address.
UtxoConnect(b) ==
    /\ outputs' = outputs \cup Txs(b)
    /\ stealth_index' = [s \in Address |-> IF stealth_index[s] = NoTx /\ Pays(b, s)
                                            THEN PaidBy(b, s) ELSE stealth_index[s]]
    /\ key_images' = key_images \cup BlockKeyImages(b)

\* Two broken disconnects: one drops the entry of an address whoever owns it, one
\* leaves the key images of the block spent.
UtxoDisconnectAnyOwner(b) ==
    /\ outputs' = outputs \ Txs(b)
    /\ stealth_index' = [s \in Address |-> IF Pays(b, s) THEN NoTx ELSE stealth_index[s]]
    /\ db_outputs' = [s \in Address |-> IF Pays(b, s) THEN NoRow ELSE db_outputs[s]]
    /\ key_images' = key_images \ BlockKeyImages(b)
UtxoDisconnectKeepsSpent(b) ==
    /\ outputs' = outputs \ Txs(b)
    /\ stealth_index' = [s \in Address |-> IF stealth_index[s] \in Txs(b)
                                            THEN NoTx ELSE stealth_index[s]]
    /\ db_outputs' = [s \in Address |-> IF stealth_index[s] \in Txs(b)
                                         THEN NoRow ELSE db_outputs[s]]
    /\ UNCHANGED key_images

\* apply_batch(batch_disconnect_block(b)).  remove_output drops the index entry
\* of an address only if the removed output owns it, in memory and, in the same
\* call, from the output index on disk.
UtxoDisconnect(b) ==
    /\ outputs' = outputs \ Txs(b)
    /\ stealth_index' = [s \in Address |-> IF stealth_index[s] \in Txs(b)
                                            THEN NoTx ELSE stealth_index[s]]
    /\ db_outputs' = [s \in Address |-> IF stealth_index[s] \in Txs(b)
                                         THEN NoRow ELSE db_outputs[s]]
    /\ key_images' = key_images \ BlockKeyImages(b)

\* persist_output_index: oldest wins against what is on disk.
PersistOutputs(rows, b) ==
    [s \in Address |-> IF rows[s] = NoRow /\ Pays(b, s)
                         THEN Row(PaidBy(b, s), Height(b)) ELSE rows[s]]

Minted(s, b) ==
    [s EXCEPT !.total_supply = @ + Reward(Height(b)), !.total_burned = @ + Burn(b)]
Unminted(s, b) ==
    [s EXCEPT !.total_supply = @ - Reward(Height(b)), !.total_burned = @ - Burn(b)]


-----------------------------------------------------------------------------
(* add_block: the block is stored, then extends the tip or stays a fork.   *)

\* classify_incoming and the context-free validation: a block that is known, has
\* no parent or is malformed changes nothing.
Offered(b) ==
    /\ phase = "idle"
    /\ ~Known(b)
    /\ Known(Parent(b))
    /\ b \in WellFormed
    /\ NoDuplicateKeyImages(b)

Store(b) ==
    /\ cache' = cache \cup {b}
    /\ db_blocks' = db_blocks \cup {b}
    /\ UNCHANGED <<height_to_hash, tip, stats, utxos, db_heights, db_state, db_outputs, db_txs>>

\* A valid child of the tip is stored; its shielded part is verified after that.
StoreMain(b) ==
    /\ Offered(b)
    /\ Parent(b) = tip.hash
    /\ ContextValid(b)
    /\ Store(b)
    /\ IF b \in ShieldedOk
         THEN phase' = "extend" /\ job' = [NoJob EXCEPT !.block = b]
         ELSE UNCHANGED <<phase, job>>
    /\ UNCHANGED crashes

\* db.blocks.insert fails: the error is returned with the block left in the cache.
StoreFails(b) ==
    /\ WriteErrors
    /\ Offered(b)
    /\ Parent(b) = tip.hash => ContextValid(b)
    /\ cache' = cache \cup {b}
    /\ UNCHANGED <<height_to_hash, tip, stats, utxos, disk, phase, job, crashes>>

\* evict_block_cache: the lowest heights go first, genesis and recent ones never.
Evicted(blocks, index, tipHeight) ==
    LET candidates == {h \in Heights \ {0} : index[h] # NoBlock /\ h + KeepBlocks < tipHeight}
        excess     == Cardinality(blocks) - MaxBlockCache
    IN  {h \in candidates : Cardinality({k \in candidates : k < h}) < excess}

ExtendTip ==
    /\ phase = "extend"
    /\ LET b     == job.block
           index == [height_to_hash EXCEPT ![Height(b)] = b]
           gone  == Evicted(cache, index, Height(b))
       IN  /\ tip' = Tip(b, Height(b))
           /\ stats' = [Minted(stats, b) EXCEPT !.total_difficulty = @ + Difficulty(b),
                                                !.total_blocks = @ + 1]
           /\ UtxoConnect(b)
           /\ cache' = cache \ {index[h] : h \in gone}
           /\ height_to_hash' = [h \in Heights |-> IF h \in gone THEN NoBlock ELSE index[h]]
    /\ phase' = "commit"
    /\ UNCHANGED <<disk, job, crashes>>

\* A checkpoint is recorded every CheckpointInterval blocks, on this path only.  The
\* first form is broken: it records the floor, which may lie below genesis.
CheckpointBelow(h) == h - CheckpointInterval
Checkpoint(h) == IF h % CheckpointInterval = 0 THEN h ELSE db_state.last_checkpoint

\* commit_block_atomic: output index, height index, state and tx index at once.
CommitBlock ==
    /\ phase = "commit"
    /\ LET b == job.block
       IN  /\ db_heights' = [db_heights EXCEPT ![Height(b)] = b]
           /\ db_outputs' = PersistOutputs(db_outputs, b)
           /\ db_txs' = [t \in Tx |-> IF t \in Txs(b) THEN Height(b) ELSE db_txs[t]]
           /\ db_state' = State(b, Height(b), stats, Checkpoint(Height(b)))
    /\ phase' = "idle"
    /\ job' = NoJob
    /\ UNCHANGED <<memory, utxos, db_blocks, crashes>>

\* A walk from b towards genesis stops at height k: the body there is not stored,
\* or it is not cached and the database read fails.
Readable(b) == b \in cache \/ (b \in db_blocks /\ ~ReadErrors)
WalkStops(b, k) ==
    /\ k < Height(b)
    /\ ~Readable(Anc(b, k))
    /\ \A j \in k + 1 .. Height(b) - 1 : Known(Anc(b, j))

\* calculate_fork_cumulative_work: a walk that stops early yields a partial sum.
ForkWorks(b) ==
    {CumWork(b) - CumWork(Anc(b, k)) : k \in {h \in Heights : WalkStops(b, h)}}
        \cup (IF \A a \in Branch(b) \ {b} : Known(a) THEN {CumWork(b)} ELSE {})

\* find_fork_point: the highest proper ancestor of b on the main chain.
IsForkPoint(b, f) ==
    /\ f < Height(b)
    /\ MainHash(f) = Anc(b, f)
    /\ \A k \in f .. Height(b) - 1 : Known(Anc(b, k))
    /\ \A k \in f + 1 .. Height(b) - 1 : MainHash(k) # Anc(b, k)

\* Broken: equal work wins whatever the hashes are.
ReorganisesOnTie(b, work, f) ==
    /\ work >= stats.total_difficulty
    /\ IsForkPoint(b, f)
    /\ Acceptable(Height(b) - f, work, stats.total_difficulty, tip.height)
    /\ ~BelowFloor(f, tip.height)

\* Broken: what is deeper than the unconditional depth is refused whatever its work.
ReorganisesIfShallow(b, work, f) ==
    /\ TakeFork(work, Hash(b), stats.total_difficulty, Hash(tip.hash))
    /\ IsForkPoint(b, f)
    /\ Height(b) - f <= UnconditionalDepth
    /\ ~BelowFloor(f, tip.height)

\* The fork choice, the three-tier depth policy and the finality floor.
Reorganises(b, work, f) ==
    /\ TakeFork(work, Hash(b), stats.total_difficulty, Hash(tip.hash))
    /\ IsForkPoint(b, f)
    /\ Acceptable(Height(b) - f, work, stats.total_difficulty, tip.height)
    /\ ~BelowFloor(f, tip.height)

\* AcceptedFork, ReorgTooDeep, or Corruption when the search for the fork point
\* cannot read a body: the block is kept and the chain is not moved.
StoreFork(b) ==
    /\ Offered(b)
    /\ Parent(b) # tip.hash
    /\ \/ \E work \in ForkWorks(b) : \A f \in Heights : ~Reorganises(b, work, f)
       \/ \E a \in Branch(b) \ {b} : ~Readable(a)
    /\ Store(b)
    /\ UNCHANGED <<phase, job, crashes>>

BeginReorg(b) ==
    /\ Offered(b)
    /\ Parent(b) # tip.hash
    /\ \E work \in ForkWorks(b), f \in Heights :
        /\ Reorganises(b, work, f)
        /\ Store(b)
        /\ job' = [block |-> b, work |-> work, fork |-> f, at |-> tip.height, pre_tip |-> tip,
                   pre_stats |-> stats, disconnected |-> {}]
        /\ phase' = IF tip.height > f THEN "disconnect" ELSE "connect"
    /\ UNCHANGED crashes

-----------------------------------------------------------------------------
(* The reorg.  job.at is the height up to which the UTXO set is applied.   *)

\* One iteration of the disconnect loop.  It reads the cache only: a height whose
\* hash or body is not cached is skipped without undoing its effects.
\* Broken: the in-memory index keeps the height of a disconnected block.
DisconnectKeepsIndex ==
    /\ phase = "disconnect"
    /\ LET h == job.at
           o == height_to_hash[h]
       IN  /\ IF o \in cache
                THEN UtxoDisconnect(o) /\ stats' = Unminted(stats, o)
                ELSE UNCHANGED <<utxos, stats, db_outputs>>
           /\ UNCHANGED height_to_hash
           /\ job' = [job EXCEPT !.at = h - 1,
                                 !.disconnected = @ \cup ({o} \ {NoBlock})]
           /\ phase' = IF h - 1 > job.fork THEN "disconnect" ELSE "connect"
    /\ UNCHANGED <<cache, tip, db_blocks, db_heights, db_state, db_txs, crashes>>
Disconnect ==
    /\ phase = "disconnect"
    /\ LET h == job.at
           o == height_to_hash[h]
       IN  /\ IF o \in cache
                THEN UtxoDisconnect(o) /\ stats' = Unminted(stats, o)
                ELSE UNCHANGED <<utxos, stats, db_outputs>>
           /\ height_to_hash' = [height_to_hash EXCEPT ![h] = NoBlock]
           /\ job' = [job EXCEPT !.at = h - 1,
                                 !.disconnected = @ \cup ({o} \ {NoBlock})]
           /\ phase' = IF h - 1 > job.fork THEN "disconnect" ELSE "connect"
    /\ UNCHANGED <<cache, tip, db_blocks, db_heights, db_state, db_txs, crashes>>

NextForkBlock == Anc(job.block, job.at + 1)

\* Broken: the block that triggered the reorg is applied without validation.
ValidInReorgButTip(b) ==
    Parent(b) \in cache /\ (b = job.block \/ ContextValid(b)) /\ b \in ShieldedOk

\* Full validation against the rewound UTXO set, the parent looked up in the cache.
ValidInReorg(b) == Parent(b) \in cache /\ ContextValid(b) /\ b \in ShieldedOk

ConnectFork ==
    /\ phase = "connect"
    /\ NextForkBlock # job.block
    /\ ValidInReorg(NextForkBlock)
    /\ UtxoConnect(NextForkBlock)
    /\ height_to_hash' = [height_to_hash EXCEPT ![job.at + 1] = NextForkBlock]
    /\ stats' = Minted(stats, NextForkBlock)
    /\ job' = [job EXCEPT !.at = @ + 1]
    /\ UNCHANGED <<cache, tip, disk, phase, crashes>>

BeginUndo ==
    /\ phase' = IF job.at > job.fork THEN "undo" ELSE "reapply"
    /\ UNCHANGED <<memory, utxos, disk, job, crashes>>

ConnectFails ==
    /\ phase = "connect"
    /\ ~ValidInReorg(NextForkBlock)
    /\ BeginUndo

\* A failed database read drops a row of the difficulty window, and the target of
\* the block no longer matches the one the window yields.
RecheckFails ==
    /\ ReadErrors
    /\ phase = "connect"
    /\ ValidInReorg(NextForkBlock)
    /\ BeginUndo

AdoptTip ==
    /\ phase = "connect"
    /\ NextForkBlock = job.block
    /\ ValidInReorg(job.block)
    /\ LET b == job.block
       IN  /\ UtxoConnect(b)
           /\ tip' = Tip(b, Height(b))
           /\ stats' = [Minted(stats, b) EXCEPT
                          !.total_difficulty = job.work,
                          !.total_blocks = @ - Cardinality(job.disconnected \cap cache)
                                             + (Height(b) - job.fork)]
           /\ height_to_hash' = [height_to_hash EXCEPT ![Height(b)] = b]
    /\ phase' = "commit_reorg"
    /\ UNCHANGED <<cache, disk, job, crashes>>

\* The rows apply_reorg_atomic leaves in the output index.  Every address of a
\* disconnected block is removed; the outputs of the new branch are inserted in
\* ascending order unless the address was present and is not being removed.
ReorgRows(b, fork, gone) ==
    [s \in Address |->
        LET removed == \E o \in gone : Pays(o, s)
            adders  == {h \in fork + 1 .. Height(b) : Pays(Anc(b, h), s)}
        IN  IF adders # {} /\ (removed \/ db_outputs[s] = NoRow)
              THEN Row(PaidBy(Anc(b, Highest(adders)), s), Highest(adders))
              ELSE IF removed THEN NoRow ELSE db_outputs[s]]

\* The tx index of the same batch: the removals, then the additions.
ReorgTxs(b, fork, gone) ==
    [t \in Tx |->
        LET added == {h \in fork + 1 .. Height(b) : t \in Txs(Anc(b, h))}
        IN  IF added # {} THEN Highest(added)
            ELSE IF \E o \in gone : t \in Txs(o) THEN NoHeight ELSE db_txs[t]]

\* The height index of the same batch: the new branch is written over the old one,
\* and what the old one had above it is removed.  Broken: it is left in place.
ReorgHeightsLeftAbove(b, fork, old) ==
    [h \in Heights |-> IF h \in fork + 1 .. Height(b) THEN Anc(b, h) ELSE db_heights[h]]
ReorgHeights(b, fork, old) ==
    [h \in Heights |-> IF h \in fork + 1 .. Height(b) THEN Anc(b, h)
                       ELSE IF h \in Height(b) + 1 .. old THEN NoBlock
                       ELSE db_heights[h]]

CommitReorg ==
    /\ phase = "commit_reorg"
    /\ LET b    == job.block
           gone == job.disconnected \cap cache
       IN  /\ db_outputs' = ReorgRows(b, job.fork, gone)
           /\ db_txs' = ReorgTxs(b, job.fork, gone)
           /\ db_heights' = ReorgHeights(b, job.fork, job.pre_tip.height)
           /\ db_state' = State(b, Height(b), stats, db_state.last_checkpoint)
    /\ phase' = "idle"
    /\ job' = NoJob
    /\ UNCHANGED <<memory, utxos, db_blocks, crashes>>

\* A failed reorg first takes back the fork blocks it had connected ...
Undo ==
    /\ phase = "undo"
    /\ LET h == job.at
           n == Anc(job.block, h)
       IN  /\ UtxoDisconnect(n)
           /\ stats' = Unminted(stats, n)
           /\ height_to_hash' = [height_to_hash EXCEPT ![h] = NoBlock]
           /\ job' = [job EXCEPT !.at = h - 1]
           /\ phase' = IF h - 1 > job.fork THEN "undo" ELSE "reapply"
    /\ UNCHANGED <<cache, tip, db_blocks, db_heights, db_state, db_txs, crashes>>

Remaining == {o \in job.disconnected : Height(o) > job.at}

\* Broken: the rows of the disconnected blocks are not put back on disk.
RestoredRowsLost(o) == db_outputs
RestoredRows(o) == PersistOutputs(db_outputs, o)

\* ... then connects the disconnected blocks again, lowest first, in memory and in
\* the output index on disk ...
Reapply ==
    /\ phase = "reapply"
    /\ \E o \in Remaining :
        /\ \A p \in Remaining : Height(o) <= Height(p)
        /\ height_to_hash' = [height_to_hash EXCEPT ![Height(o)] = o]
        /\ IF o \in cache
             THEN UtxoConnect(o) /\ db_outputs' = RestoredRows(o)
             ELSE UNCHANGED <<utxos, db_outputs>>
        /\ job' = [job EXCEPT !.at = Height(o)]
    /\ UNCHANGED <<cache, tip, stats, db_blocks, db_heights, db_state, db_txs, phase, crashes>>

\* Broken: the statistics stay as the disconnect loop left them.
RestoreTipOnly ==
    /\ phase = "reapply"
    /\ Remaining = {}
    /\ tip' = job.pre_tip
    /\ phase' = "idle"
    /\ job' = NoJob
    /\ UNCHANGED <<cache, height_to_hash, stats, utxos, disk, crashes>>

\* ... and restores the tip and the statistics it had saved.
RestoreTip ==
    /\ phase = "reapply"
    /\ Remaining = {}
    /\ tip' = job.pre_tip
    /\ stats' = job.pre_stats
    /\ phase' = "idle"
    /\ job' = NoJob
    /\ UNCHANGED <<cache, height_to_hash, utxos, disk, crashes>>

-----------------------------------------------------------------------------
(* Crash and restart.                                                      *)

NoMemory ==
    /\ cache' = {}
    /\ height_to_hash' = [h \in Heights |-> NoBlock]
    /\ tip' = Tip(NoBlock, 0)
    /\ stats' = NoStats
    /\ outputs' = {}
    /\ stealth_index' = [s \in Address |-> NoTx]
    /\ key_images' = {}
    /\ job' = NoJob

\* The process dies, or panics because a commit failed: memory is lost and every
\* write that had completed is on disk.
Crash ==
    /\ phase # "down"
    /\ crashes < MaxCrashes
    /\ crashes' = crashes + 1
    /\ phase' = "down"
    /\ NoMemory
    /\ UNCHANGED disk

\* The height of the last stored block below h, which rebuild_utxo_set compares the
\* parent of the block at h with.
LastBelow(h) == CHOOSE k \in 0 .. h - 1 :
                    /\ DiskBlock(k) # NoBlock
                    /\ \A j \in k + 1 .. h - 1 : DiskBlock(j) = NoBlock

\* Broken: links are not checked.
NoBrokenLinks == {}

\* The heights at which the replay finds a block that does not link to the last one.
BrokenLinks ==
    {h \in 1 .. db_state.height :
        DiskBlock(h) # NoBlock /\ Parent(DiskBlock(h)) # DiskBlock(LastBelow(h))}

\* The checks load_from_database makes before it touches anything.
Loadable ==
    /\ db_heights[0] = Genesis
    /\ db_state.tip_hash \in db_blocks
    /\ Height(db_state.tip_hash) = db_state.height

\* recompute_total_difficulty: keep the stored value if a block is missing.
RecomputedWork ==
    IF \A h \in 1 .. db_state.height : DiskBlock(h) # NoBlock
      THEN 1 + SumFunction([h \in 1 .. db_state.height |-> Difficulty(DiskBlock(h))])
      ELSE db_state.total_difficulty

\* rebuild_utxo_set up to height last: replay, in order, whatever is stored.
Replay(last) ==
    LET replayed == {h \in 0 .. last : DiskBlock(h) # NoBlock}
        cached   == {h \in replayed : h >= SatSub(db_state.height, KeepBlocks)}
        payers(s) == {h \in replayed : Pays(DiskBlock(h), s)}
        first(s)  == Lowest(payers(s))
        rows      == [s \in Address |-> IF payers(s) = {} THEN NoRow
                                         ELSE Row(PaidBy(DiskBlock(first(s)), s), first(s))]
    IN  /\ cache' = {DiskBlock(h) : h \in cached}
        /\ height_to_hash' = [h \in Heights |-> IF h \in cached THEN DiskBlock(h) ELSE NoBlock]
        /\ stats' = Stats(RecomputedWork, db_state.total_supply, db_state.total_burned,
                          Cardinality(replayed))
        /\ outputs' = UNION {Txs(DiskBlock(h)) : h \in replayed}
        /\ key_images' = UNION {BlockKeyImages(DiskBlock(h)) : h \in replayed}
        /\ stealth_index' = [s \in Address |-> rows[s].tx]
        /\ db_outputs' = IF db_state.height > 0 /\ \A s \in Address : db_outputs[s] = NoRow
                           THEN rows ELSE db_outputs

\* load_from_database on an index without a broken link.
Load ==
    /\ Loadable
    /\ BrokenLinks = {}
    /\ Replay(db_state.height)
    /\ tip' = Tip(db_state.tip_hash, db_state.height)
    /\ UNCHANGED <<db_blocks, db_heights, db_state, db_txs>>

\* load_from_database on a broken link: the chain is truncated below it, in memory,
\* in the height index and in the saved state; the totals are saved as they are.
LoadTruncated ==
    /\ Loadable
    /\ \E h \in BrokenLinks :
        /\ \A k \in BrokenLinks : h <= k
        /\ Replay(h - 1)
        /\ tip' = Tip(DiskBlock(LastBelow(h)), h - 1)
        /\ db_heights' = [k \in Heights |-> IF k \in h .. db_state.height
                                             THEN NoBlock ELSE db_heights[k]]
        /\ db_state' = [db_state EXCEPT !.tip_hash = DiskBlock(LastBelow(h)), !.height = h - 1,
                                        !.total_difficulty = RecomputedWork]
    /\ UNCHANGED <<db_blocks, db_txs>>

Start ==
    /\ phase = "down"
    /\ Load \/ LoadTruncated
    /\ phase' = "boot"
    /\ UNCHANGED <<job, crashes>>

\* boot_integrity_check: the index must name the tip at the height of the tip.
BootIntact == MainHash(tip.height) = tip.hash

Boot ==
    /\ phase = "boot"
    /\ BootIntact
    /\ phase' = "idle"
    /\ UNCHANGED <<memory, utxos, disk, job, crashes>>

\* The node refuses to start and exits; what the load wrote stays on disk.
BootRefused ==
    /\ phase = "boot"
    /\ ~BootIntact
    /\ phase' = "down"
    /\ NoMemory
    /\ UNCHANGED <<disk, crashes>>

\* What the node does by itself once it holds a block, and what it is given.
HandlerStep ==
    \/ ExtendTip \/ CommitBlock
    \/ Disconnect \/ ConnectFork \/ ConnectFails \/ RecheckFails \/ AdoptTip \/ CommitReorg
    \/ Undo \/ Reapply \/ RestoreTip

AddBlock(b) == StoreMain(b) \/ StoreFork(b) \/ BeginReorg(b)

Next ==
    \/ \E b \in Block : AddBlock(b) \/ StoreFails(b)
    \/ HandlerStep
    \/ Crash
    \/ Start \/ Boot \/ BootRefused

Spec == Init /\ [][Next]_vars

\* The handler runs to its end, a stopped node is started again, and every block is
\* delivered as long as the node would still take it.
Fairness ==
    /\ WF_vars(HandlerStep)
    /\ WF_vars(Start) /\ WF_vars(Boot)
    /\ \A b \in Block : WF_vars(AddBlock(b))

FairSpec == Spec /\ Fairness

-----------------------------------------------------------------------------
(* Properties.                                                             *)

TipType == [hash : Block \cup {NoBlock}, height : Heights]
StatsType == [total_difficulty : Int, total_supply : Int, total_burned : Int, total_blocks : Int]
StateType == [tip_hash : Block, height : Heights, total_difficulty : Int,
              total_supply : Int, total_burned : Int, last_checkpoint : Heights]
JobType == [block : Block \cup {NoBlock}, work : Int, fork : Heights, at : Heights,
            pre_tip : TipType, pre_stats : StatsType, disconnected : SUBSET Block]

TypeOK ==
    /\ cache \subseteq Block /\ db_blocks \subseteq Block
    /\ height_to_hash \in [Heights -> Block \cup {NoBlock}]
    /\ db_heights \in [Heights -> Block \cup {NoBlock}]
    /\ tip \in TipType /\ stats \in StatsType /\ db_state \in StateType
    /\ outputs \subseteq Tx /\ key_images \subseteq KeyImage
    /\ stealth_index \in [Address -> Tx \cup {NoTx}]
    /\ db_outputs \in [Address -> Rows]
    /\ db_txs \in [Tx -> Heights \cup {NoHeight}]
    /\ phase \in {"down", "boot", "idle", "extend", "commit", "disconnect", "connect",
                  "commit_reorg", "undo", "reapply"}
    /\ job \in JobType
    /\ crashes \in 0 .. MaxCrashes

\* The block whose chain the UTXO set stands for, at every stage of every handler.
Applied ==
    CASE phase \in {"disconnect", "reapply"} -> Anc(job.pre_tip.hash, job.at)
      [] phase \in {"connect", "undo"}       -> Anc(job.block, job.at)
      [] OTHER                               -> tip.hash

\* No key image is spent twice on the chain of the tip, whatever mix of extensions,
\* reorgs, failed reorgs and restarts built it (A6-REORG-VALIDATE).
NoDoubleSpend ==
    /\ phase # "down" => \A a \in Branch(tip.hash) : SpendsOnce(a)
    /\ \A a \in Branch(db_state.tip_hash) : SpendsOnce(a)

\* Between handlers get_block_hash names, from memory or from disk, the block of the
\* chain of the tip at every height and nothing above it: through evictions, reorgs,
\* undone reorgs and truncated loads (boot_integrity_check keeps the latter out).
IndexNamesChain ==
    phase = "idle" =>
        /\ tip.height = Height(tip.hash)
        /\ \A h \in Heights : MainHash(h) = IF h <= tip.height THEN Anc(tip.hash, h) ELSE NoBlock
=============================================================================
