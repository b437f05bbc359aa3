# A TLA+ verification of the CoinCync node

CoinCync is a proof-of-work node with ring signatures and stealth addresses,
written in Rust. This directory holds TLA+ models of it, the TLC configurations
that check them on small instances, and theorems whose proofs TLAPS checks for
every value of the constants. The models are translated from the source; paths
below are relative to the root of the repository.

Six parts are modelled: the chain state machine with its disk and its restart, the
memory pool beside a moving chain, block download, transaction relay, the atomic
swap with Bitcoin, and the FROST signing coordinator.

## 1. The system and its parts

| Part | Source | State it owns | Here |
|---|---|---|---|
| Chain state machine | `src/chain.rs`, `src/chain/{apply,fork_calc}.rs` | tip, statistics, block cache, height index | `Chain` |
| Recovery and boot | `src/chain/{recovery,queries}.rs`, `src/bin/node.rs` | (rebuilds the above from disk) | `Chain` |
| Reorg policy | `src/consensus/finality.rs` | none, pure | `ReorgPolicy`, `ForkChoice` |
| UTXO set | `src/storage/utxos.rs` | outputs, stealth index, key images | `Chain` |
| Database | `src/db/*` | block bodies, height index, state, output and tx index | `Chain` |
| Validation | `src/consensus/validation.rs` | none | `BlockTree`, `Chain` |
| Mempool | `src/mempool.rs`, event loop of `src/bin/node.rs` | pool, key images, linking tags, size | `Mempool`, `MempoolNode` |
| Block download | `src/network/sync.rs`, `src/network/node/{sync_driver,dispatch/*}.rs` | queue, requests, nonces, orphans | `ChainSync`, `SyncNode` |
| Transaction relay | `src/network/dandelion.rs`, `src/network/node/{maintenance,dispatch/relay}.rs` | stempool, announced set, absence cache | `Dandelion`, `TxRelay` |
| Atomic swaps | `crates/coincync-swap` | both parties' state files, handshake sessions | `SwapProtocol`, `SwapNode`, `AtomicSwap` |
| FROST coordinator | `crates/coincync-frost-coordinator` | signing sessions, their file | `FrostSession`, `FrostCoord` |
| Rolling finality, tick rescue, circuit breakers | `crates/coincync-rolling-finality`, `crates/tick`, `src/fuse.rs`, `src/*_breaker.rs` | | not modelled |
| Mining, Stratum, pool, wallet | `src/mining/*`, `src/wallet/*` | | not modelled |
| Emission, fee market, difficulty | `src/emission/*`, `src/consensus/{fee_market,difficulty}.rs` | none, pure | constants of the model |
| Cryptography, proof of work, Spark | `src/crypto/*`, `src/consensus/pow.rs`, `src/storage/spark*.rs` | | verdicts are constants |
| Transport, discovery, RPC queries, CLI, tooling | `src/network/*`, `src/rpc/*`, `src/cli/*`, other crates | | not modelled: I/O |

`PROJECT.json` lists every part with its status, and every hazard (what can go
wrong there that a unit test would hardly reach) at the line where it bites.

How the parts interact. The sync driver fetches headers and blocks and hands each
block to the node's event loop (`src/bin/node.rs`), which calls `add_block`;
`apply_lock` admits one writer at a time. `add_block` classifies the block,
validates it, stores its body, and then extends the tip, keeps the block as a fork,
or reorganises. Afterwards, outside that lock, the loop realigns the mempool and
spawns a task that reports the outcome to the sync layer. A transaction enters
through the RPC or the relay handlers; the Dandelion router decides when it is
announced, and only then may it enter the mempool of a node it was not submitted
to. At start the node loads the database, replays the chain into an empty UTXO set
and refuses to serve if a cross-check fails. Swap and coordinator are programs of
their own; the swap uses the node through its RPC.

The models follow these seams. `MempoolNode` composes the pool with a chain that
moves as `ForkChoice` says; `SyncNode` takes the chain as a height, because
`Chain` has the rest; `TxRelay` takes the mempool as a set; `SwapNode` takes both
ledgers as external.

## 2. The modules

| Module | Content |
|---|---|
| `BlockTree` | The blocks a node may be offered, as a constant tree, and what the chain that ends in a block amounts to (spent key images, owner of each address, work, supply, burn). The reference the state is compared with. |
| `ReorgPolicy` | `evaluate_reorg_acceptability` with its three tiers, the fork choice, the finality floor: pure operators. |
| `ForkChoice` | When a chain is acceptable and when it is better than another. |
| `Chain` | The chain state machine, its disk and its restart. |
| `CanonicalChain` | Abstract: one tip, replaced only by a better acceptable one that keeps the finalised prefix. Its parameters are the tree, the order and the floor; `ChainProperties` instantiates it with those of `ForkChoice`. |
| `Mempool`, `MempoolNode` | The pool as a value with the operations on it; the threads that move the chain, realign the pool and submit. |
| `ChainSync`, `SyncNode` | The download bookkeeping as a record with its methods; the driver, handlers, event loop, detached tasks, peers and network around it. |
| `Dandelion`, `TxRelay` | The router as a record with its methods; connected nodes with mempools, relay messages and connections that end. |
| `SwapProtocol`, `SwapNode` | The swap's state machine and handshake session; two parties with files and commands, and two ledgers. |
| `AtomicSwap` | Abstract: who holds each of the two coins. |
| `FrostSession`, `FrostCoord` | The signing session with its transitions; the connections, the file, crashes and broadcasts around it. |
| `ChainProperties`, `MempoolProperties`, `SyncProperties`, `RelayProperties`, `SwapProperties`, `FrostProperties` | What each promises. |
| `ChainInvariant`, `LedgerInvariant` | The inductive invariants of the chain, and the hypotheses of its theorems (the invariants of the other parts are with their properties). |
| `Subsequences` | The elements of a sequence at chosen positions, and the orders of a set. |
| `MCChain`, `MCMempool`, `MCSync`, `MCRelay`, `MCSwap`, `MCFrost` | The instances. |
| `ChainLemmas`, `SubsequenceProofs` | Lemmas about block trees, heights and the chain's operators and steps, and about subsequences. |
| `ChainTheorems`, `MempoolProofs`, `SyncProofs`, `RelayProofs`, `SwapProofs`, `FrostProofs` | The theorems of each part. |

Definitions whose comment begins with "Broken" are mutations of the definition that
follows them. No specification uses them; they are what the properties are
tested with.

### The chain: `Chain`

| Variable | Code |
|---|---|
| `cache`, `height_to_hash`, `tip`, `stats` | the fields of `BlockchainInner` |
| `outputs`, `stealth_index`, `key_images` | the fields of `UtxoSet` |
| `db_blocks`, `db_heights` | bodies by hash, and the height index |
| `db_state` | `ChainStateData` |
| `db_outputs`, `db_txs` | the output index (with creation heights) and the tx index |
| `phase`, `job` | program counter and local variables of the running handler |
| `crashes` | a counter that bounds the crashes of a behaviour |

A block is an abstract value with a parent, a height, a difficulty, a hash rank
and a set of transactions. A transaction has one output, so that the output key
(tx hash, index) of the code is the transaction; it has key images, a ring (the
addresses it names) and an address. A coinbase is a transaction without key
images. Everything that is decided by a block alone (proof of work, timestamps,
signatures, commitments, fees) is membership of `WellFormed`; what the shielded
part comes to is membership of `ShieldedOk`, which is consulted where the code
does it, after the body has been stored.

`apply_lock` makes a handler run alone, but it is not one step: it releases the
inner lock between stages and writes to disk in several operations. Each durable
write and each loop iteration is an action, so that a crash can fall between any
two of them.

| Action | Code |
|---|---|
| `StoreMain`, `StoreFork`, `BeginReorg` | `add_block` up to and including `db.blocks.insert`, and the fork choice |
| `StoreFails` | `db.blocks.insert` returns an error, the block stays in the cache |
| `ExtendTip`, `CommitBlock` | the tip in memory (with eviction); `commit_block_atomic` |
| `Disconnect`, `ConnectFork`, `AdoptTip`, `CommitReorg` | the loops of the reorg; `apply_reorg_atomic` |
| `ConnectFails`, `RecheckFails` | a fork block fails validation, or the difficulty re-check |
| `Undo`, `Reapply`, `RestoreTip` | the rollback of a failed reorg (both copies of it in the code) |
| `Crash` | the process dies, or panics because a commit failed |
| `Start`, `Boot`, `BootRefused` | `load_from_database`, `boot_integrity_check` |

Two reads of the code matter for the result and are kept apart. The disconnect
loop and the parent lookup of the re-validation see the cache only; the walks over
a fork and the readers see the cache and then the database, whose reads may fail
when `ReadErrors` is set. A failing read ends `calculate_fork_cumulative_work`
with a partial sum, so `ForkWorks` is a set of possible results.

The rule that an output of a non-coinbase transaction may not reuse an address of
the chain is taken as active (it is from genesis on mainnet, and from height
13,000 on testnet).

### The memory pool: `Mempool`, `MempoolNode`

`Mempool` has the operations of `struct Mempool` as operators: `admit_after_checks`
with the fee floor, replacement by fee, the dry run of the eviction and the eviction
itself, `remove_confirmed`, `set_height`. They run under one write lock. What calls
them does not, and that is `MempoolNode`:

| State | Code |
|---|---|
| `pool` | `SharedMempool.inner` |
| `stored`, `tip`, `applied`, `generation`, `writer` | the chain as the pool sees it: known blocks, tip, the block whose replay the UTXO set is, `state_generation`, who is inside `add_block` |
| `work[h]` | a block handler: the network event loop ("wire") or a miner's submission, in `process_block`, `remove_confirmed`, `restore_orphaned`, `set_height`, `shadow_evict_invalid` |
| `adm[t]` | a thread in `add_with_chain`: generation read, validated, inserted if the generation still stands, up to `MAX_CHAIN_GENERATION_ATTEMPTS` times |
| `sweep` | `shadow_evict_invalid`, one transaction at a time, under the pool lock |
| `torn` | auxiliary: the last sweep read a UTXO set that a reorg had rewound |

`BeginBlock`, `Extend`, `KeepFork`, `Rewind`, `Connect`, `EndUpdate` are the chain's
side; a reorg that fails at its last block puts the old UTXO set back. `Decide`,
`Confirm`, `Restore`, `ReadHeight`, `SetHeight`, `BeginSweep`, `SweepOne`, `EndSweep`
are the handler's; `Submit`, `ReadGeneration`, `ValidateTx`, `InsertTx` the client's.

### Block download: `ChainSync`, `SyncNode`

`ChainSync` is the struct of that name with one operator per method. Blocks form one
chain and are named by height. `SyncNode` interleaves everything that takes its
lock: the driver's tick (stall retry, headers request, window, spans, emergency
recovery), the handlers of `ChainWork`, `InvBlock`, `Blocks` and `Headers` (verified
slice by slice), the event loop that processes blocks, and the detached tasks by
which it reports each outcome. A span is sent in one step and recorded as requested
in the next, as in `send_block_spans`, so an answer can overtake its own request.

A fault is an action guarded by a bound: a lost message, a timer that runs out too
early or an answer that outruns the bookkeeping, a disconnection, a block that fails,
a restart that keeps the chain only.

### Transaction relay: `Dandelion`, `TxRelay`

`Dandelion` is the router: `add_local_tx`, `add_received_tx`, `tick`,
`enforce_stempool_limit`. `TxRelay` has several nodes with a router, a mempool, an
absence cache and in-order connections. `run_dandelion_tick`, `handle_inv_tx`,
`handle_get_txs`, `handle_not_found`, `handle_txs` are the functions of these names;
`Submit` and `queue_transaction` are the RPC and the task it spawns; `Admit` is the
consumer of `TransactionReceived`, which runs after the announcement has gone out.
What the code draws at random (epoch kind, relay, delay) is a choice at each use. A
relay slot may name a peer whose connection ended, because `cleanup_connection`
leaves it there.

### Atomic swaps: `SwapProtocol`, `SwapNode`

`SwapProtocol` is `Swap::apply` with its verified variants, the timeout rule and the
`HandshakeSession`. `SwapNode` has both parties: the handshake drivers `run_alice`
and `run_bob` over a wire that may time out and be dialled again, then the commands
of `cyncswap`. A command that moves coins loads the file, checks, broadcasts, and
only then applies the transition and saves; it is two steps (the command, then
`Save`) with `Crash` between them. The ledgers are external: a lock is in a mempool
and then in the chain, the timelock matures, and of two competing spends one is
mined. The parties are honest, and an operator reports a transaction when it is
buried deep enough to stay.

### The FROST coordinator: `FrostSession`, `FrostCoord`

`FrostSession` is `Session::apply` with each transition. `FrostCoord` has the
connections: a request is applied under the write lock, saved under a read lock
(`StartSave`/`SaveOpen`, `SaveWrite`, `SaveRename`), broadcast (`Tell`) and answered.
Several saves overlap and use the same temporary file, so a task may write to what
another has already renamed. `SaveFails`, `Crash`, `Shutdown` and `Start` are the
faults. `promised` and `owed` are history variables: what participants were told, and
who must still hear how the session ended.

## 3. The runs

| Run | Instance | Properties |
|---|---|---|
| `chain_forks` | all branches, failing reads | `UnsharedRowsMatchChain` |
| `chain_crash` | one crash anywhere, failing reads | `TypeOK`, `DiskDescribesOneChain`, `UtxoMatchesChain`, `NoDoubleSpend`, `StatsMatchChain`, `IndexNamesChain`, `ImplementsCanonicalChain` |
| `chain_converges` | all branches, no faults, fair | `FollowsBestChain`, `ConvergesToBestChain` |
| `chain_write_errors` | failing inserts, two crashes | `UtxoMatchesChain`, `ChainInv` |
| `mempool` | two handlers, one client, a reorg, a failing reorg, restarts | `IndicesAgree`, `SizeAccounted`, `PoolMineable`, `PoolInv`, `DropsOnlyCheaper`, `RefusalChangesNothing` |
| `sync` | two peers, two blocks, one fault of any of seven kinds | `InFlightAgrees`, `OwnedIsQueued`, `PublishedTipFresh`, `SyncInv`, `GivesUpOnlyToStartOver` |
| `sync_converges` | one peer, three blocks, one fault, fair | `Converges` |
| `relay` | three nodes, one transaction, one connection that ends, fair | `StemIsHidden`, `RelayInv`, `AnnouncedOnce`, `OriginAnnounces`, `OriginPeersLearn` |
| `swap` | two handshakes, two commands that die, fair | `AgreedBeforeLock`, `HandshakeInOrder`, `FileNotAhead`, `SwapInv`, `ImplementsAtomicSwap`, `Settles` |
| `frost` | two connections, three participants for two places, one fault | `SignedByQuorum`, `AcceptedIsKept`, `ListenersHearTheEnd`, `FrostInv`, `FileAdvances` |
| `claim_orphans` | one peer, two blocks, fair | `OrphansFedBack` (violated) |
| `claim_swap_refunded` | one handshake, one command that dies | `AliceRefundedIsWhole` (violated) |

What they show.

*Chain.* Memory is at every stage of every handler the replay of the applied chain,
the undo of a failed reorg included. The disk describes one chain at every instant,
apart from the output index (see the observations). Nothing is spent twice. The
committed tip moves as `CanonicalChain` allows. Without faults the node ends on the
best acceptable chain in whatever order the blocks come, although it weighs a fork
only once. When storing a body fails, a chain with a hole can be committed; the node
that boots from it is refused by `boot_integrity_check`.

*Mempool.* The indices and the size stay exact, an admission changes the pool
completely or not at all and pushes out only what pays less per byte, and once the
handlers are done every pending transaction could be mined on the tip. One case is
excepted and shown by the variable `torn`: a sweep takes the pool lock but not
`apply_lock`, so it may revalidate against a UTXO set that another handler's reorg has
rewound and, if that reorg fails, is about to put back.

*Block download.* In every interleaving the bookkeeping agrees with itself, the
published tip is the chain's once no publication is pending, and no timeout,
disconnection, failed send or failed block loses a block that is still needed unless
the driver is about to ask for headers again. With the expiry of pooled blocks the
node reaches the tip.

*Relay.* A transaction is in the mempool of a node of the stem path only once that
node has announced it, each node announces it once, its origin always does, and every
peer that stays connected to the origin gets it.

*Swap.* No coin is locked before both sides have verified the other's material and
agree on the terms; files are never ahead of the ledgers; the locked CYNC goes to
whoever did not get the BTC; and both coins leave the joint outputs even if Alice
walks away. `Settles` names the two ways out of that: a lock whose command died before
it saved, and a refund broadcast while a claim is unconfirmed. In both the state files
have no legal transition that matches the ledgers, and the operator must act by hand.

*FROST.* What a participant was told is never taken back, also across a crash, unless
the save of that very request met an I/O error; a signature stands on a quorum; the
file only advances; listeners hear how a session ended.

Two runs state what a comment says, and TLC finds a behaviour of the code that
violates it.

* `claim_orphans`. `src/bin/node.rs` says of the drain after a connected block that it
  "Closes the out-of-order / reorg stall where stashed orphans were never fed back
  until the 30-min TTL." The outcome of each block is reported by a task of its own.
  The task of an orphan can pool it after the task of its parent has drained the
  pool; header answers skip pooled blocks, so only the limit frees it.
* `claim_swap_refunded`. `State::Refunded` says "For Alice this means Bob refunded
  before CYNC was locked, or Alice swept CYNC after recovering Bob's share." `lock-cync`
  broadcasts before it saves. If it dies in between and Bob refunds, Alice's file goes
  from `BobLocked` to the terminal `Refunded`, and `refund-cync` is legal only in
  `BtcRefunded`.

### Bounds

*Chain.* The tree of `MCChain` has twelve blocks above genesis: a main branch, a
branch that ties with it on work and wins on its hash, with a block that re-mines a
transaction and one that double-spends it; a short heavy branch with a block whose
shielded part does not verify; a block with a ring member that is not on its chain;
and two coinbases of one address. Blocks arrive in every order the node accepts.
Height at most 5 suffices for a reorg that undoes three blocks and connects three, to
a longer, an equal and a shorter branch, and for a reorg of a reorg. The constants of
the policy are scaled down together and keep the order they have in the code where a
property depends on it: the hard cap above the unconditional depth,
`CheckpointInterval` at most `KeepBlocks`, `KeepBlocks` below `MaxBlockCache`. With
`KeepBlocks = 3`, `MaxBlockCache = 4` and height 5 eviction happens. Height 4 ends the
bootstrap phase, so both arms of the policy are taken. `MaxWork` is never reached:
saturation is defined, not exercised. A second crash is needed to fall on what a
truncated load wrote.

*Mempool.* Four pending transactions: two with one key image of which one outbids the
other, two that share only a linking tag, and one that fills the pool and names an
output of one branch. The pool holds two of the small ones, one eviction attempt is
allowed (so the plan can fail), the generation is re-read once, and three blocks are
applied among a branch, a better branch and one whose block fails in the reorg. The
branches are one block long, so expiry by height is defined and not reached.

*Block download.* Two blocks and two peers reach every pair of concurrent steps that
touch one block and its parent; three blocks with an orphan pool of one reach its
limit. One fault of any kind at every point, and two headers exchanges at a time, so
that a late answer meets the next request. `sync` downloads one block at a time from
its window (a direct request for an announced block comes on top of it),
`sync_converges` two.

*Relay.* A triangle has stem loops, a relay that is not the source, and two ways from
the origin to each node. One transaction: the router treats transactions separately
except at the limit of the stempool, which is therefore defined and not exercised.

*Swap.* Two swap names and four sets of terms (two amounts, a CYNC timeout one block
short of safe, and the network name the command line writes), two handshakes and two
commands that die: enough for both locks to be unrecorded.

*FROST.* Threshold and total are two, with three participants (so that one is too
many), two connections (so that saves overlap), two possible commitments, and one
fault: a crash, a shutdown or a failing save at any point.

The sets of blocks, transactions and requests are finite, so each system comes to
rest: all runs leave the check for deadlock out. That nothing hangs is the liveness
properties' business. Symmetry is used where no liveness property is checked.

### Fairness

*Chain.* Weak fairness of the handler's own steps (a synchronous function under a
lock), of `Start` and `Boot` (a supervisor restarts the process), and of the delivery
of each block as long as the node would take it.

*Block download.* The driver ticks every 500 ms, and sooner or later a tick finds a
timer run out whose request is not answered; a span that was begun is sent and
recorded; a connected peer answers what is not lost and announces its work, and a
disconnected one is connected again; the event loop and each task are scheduled. The
header verification holds a fair mutex, hence strong fairness there. `Converges` also
needs the 30-minute expiry of pooled blocks, for the reason `claim_orphans` shows.

*Relay.* The tick comes every ten seconds, so each node in the end has a tick at which
all its deadlines have passed; events, spawned tasks and messages of a connection that
stays up are taken.

*Swap.* Blocks are mined, the timelock matures, a command that broadcast goes on to
save unless it dies, and each party takes the way out it has: Bob refunds or claims
the CYNC, Alice sweeps after a refund. Nothing obliges Alice to lock or to claim.

No fairness is assumed of any fault. Where weak fairness would need `ENABLED` of a large
action, it is written out with the state predicate that makes the step possible.

### Observations without a run

Met while modelling; each compares a comment or a document with the code.

Chain:

* A crash between the write of a body (`chain.rs:2360`) and the commit of the block
  leaves the body on disk. After the restart `classify_incoming` answers
  `AlreadyKnown` for it for ever, and a child of it is a fork block whose parent lies
  outside the cache. `chain.rs:2572`: "on restart the node re-syncs this single block
  from peers rather than running with in-memory ahead of disk".
* `remove_output` (`storage/utxos.rs:422`) deletes rows of the output index at once, long
  before the batch of the reorg; after a crash in between they are missing, and the
  load rebuilds the index only when it is empty. `chain.rs:4016`: "A crash at ANY point
  during this block either commits everything or nothing".
* The batch of a reorg (`chain.rs:4048`) removes the row of an address whoever owns it.
  `storage/utxos.rs:409`: "Only remove the entry when it actually references the output
  being removed". `UnsharedRowsMatchChain` leaves shared addresses out for this reason.
* The floor of a reorg is the tip minus `CHECKPOINT_INTERVAL`, and `last_checkpoint` is
  never consulted. `consensus/finality.rs:24`: "each node refuses to reorg below its own
  `last_checkpoint`".
* The depth handed to the policy (`chain.rs:2848`) is that of the new branch; a shorter
  and heavier branch replaces more blocks than the cap. `consensus/finality.rs:150`:
  "No amount of work can reorg past this depth."
* A load that truncates at a missing body can save a height and a hash that do not
  belong together. `chain/recovery.rs:500`: "stats.height, tip.height, and tip.hash now
  ALWAYS move together."
* With a fork that reaches beyond the cache, a failing read ends
  `calculate_fork_cumulative_work` with a partial sum, which becomes `total_difficulty`
  if it wins.

Mempool: `mempool.dat` is written at shutdown (`bin/node.rs:2355`) and never read
(`load_from_disk` has no caller but tests), so a restart empties the pool, as in the
model.

Block download: `mark_block_failed` queues a block without leaving `Synced`, against
"I10 enforcement: state == Synced ⇒ pending_headers.is_empty()" (`sync.rs:1841`); a
block requested directly in `Synced` is not retried there; a node level with all peers
can stay in `Blocks` with a known block in flight; `on_timeout`, `get_timed_out` and
`on_block_received_from` have callers in tests only.

Relay: a node announces a transaction before its mempool admits it
(`maintenance.rs:470`, `dispatch/relay.rs`), so on a line of nodes the next one can be
told `NotFound`, caches it, and hears no second announcement. Therefore
`OriginPeersLearn` speaks of peers of the origin, whose mempool has it from the start.
With two wallets that submit the same transaction and a lost connection it does not
hold. `tx_confirmed_via_diffusion` has no caller, so a transaction fetched after an
announcement enters the stem phase again, with an embargo, at each hop.
`add_received_tx` makes room in the stempool even for a transaction it announces at once.

Swap: `alice` and `bob` write files with `btc_network` "unknown", which
`verify_pre_cync_lock` refuses for evidence of a real network; the terms of the model
include it. `legal_transitions` leaves `ObserveCompleted` out. The drivers of
`coordinator.rs` are a library that the commands of `cyncswap` do not call.

FROST: "Returns `Err` (with the session UNCHANGED)" (`session.rs:369`): a request after
the deadline changes the session to `Expired` and fails, and the change is neither saved
nor broadcast. "Save `sessions` to disk atomically" (`persistence.rs:149`): overlapping
saves share one temporary file, and a crash can leave a torn file, which `Torn` stands for.
A participant is subscribed after its own attach was broadcast, and an attach in `Round1`
or later is refused. `now` is read before the write lock is taken.

## 4. The theorems

Every specification has theorems: every safety property that a run checks is proved,
from an inductive invariant that TLC has checked as well. What
the proofs assume of the constants is stated with them (`TreeAssumption`,
`AncestorAssumption`, `WorkAssumption`, `TxAssumption`, `PoolAssumption`,
`NodeAssumption`, `ChainSyncConstants`, `SyncNodeConstants`, `DandelionConstants`,
`RelayConstants`, `SwapConstants`, `FrostConstants`, `CoordConstants`), and TLC
evaluates it on the instances. Some theorems about
the chain, and `PoolStaysMineable`, have hypotheses of their own; they are explained
below.

The module of a component's theorems has one lemma per action, resting on lemmas about
the operators the actions apply; the last lemma puts the actions together and the
theorems combine it with the initial state.

### The chain

Proved in `ChainTheorems`. Four theorems hold for every tree, every bound, with failing
reads and writes and any number of crashes (heights and ancestors are those of a tree,
cumulative work is the sum of the difficulties, transactions of one block have
distinct addresses):

* `ChainInvariantHolds`: `Spec => []ChainInv`;
* `TypeCorrect`: `Spec => []TypeOK`;
* `ChainNeverDoubleSpends`: `Spec => []NoDoubleSpend`;
* `IndexAlwaysNamesChain`: `Spec => []IndexNamesChain`.

`NoDoubleSpend` is not inductive: it says nothing about the UTXO set, which is what
the validation consults. One might expect to need `UtxoMatchesChain`, but that is
false in general: the disconnect loop skips blocks it does not find in the cache
(after the tip has moved to ever shorter, ever heavier branches, a block evicted
earlier can lie above the fork point; chain.rs:95 records this as a known risk).
What the argument needs is one direction only. `SpentOK`
says that every key image of the applied chain is marked spent; in a reorg, so is
every key image of the old chain that was not undone, and no connected block shares
one with those, so that undoing connected blocks cannot unmark them. Skipping a
block leaves too much marked, never too little, and the theorem survives the
skipped blocks. The remaining conjuncts are what this rests on: the index on disk
is the chain of the committed tip (`DiskOK`, also after a truncated load, which
`boot_integrity_check` keeps from running), the saved local variables describe a
fork of that chain (`JobOK`), the index in memory names only applied blocks
(`IndexOK`), and no stored block repeats a key image in itself (`KnownOK`).

The other theorems are about what the chain amounts to. Their hypotheses, which
`LedgerInvariant` states, are things the code relies on and does not ensure in every case:

| Theorem | Statement | Hypotheses |
|---|---|---|
| `UtxoAlwaysMatchesChain` | `[]UtxoMatchesChain` | `[][DisconnectsCached]_vars` |
| `UnsharedRowsAlwaysMatchChain` | `[]UnsharedRowsMatchChain` | `~WriteErrors`, `[][DisconnectsCached]_vars`, `[][CrashesOutsideReorg]_vars` |
| `StatsAlwaysMatchChain` | `[]StatsMatchChain` | `Reliable`, `[][DisconnectsCached]_vars` |
| `DiskAlwaysDescribesOneChain` | `[]DiskDescribesOneChain` | `Reliable`, `[][DisconnectsCached]_vars` |
| `ChainImplementsCanonicalChain` | `ImplementsCanonicalChain` | `Reliable`, `[][DisconnectsCached]_vars` |
| `DisconnectLoopFindsItsBlocks` | `[][DisconnectsCached]_vars` | `Reliable`, `WindowCovers` |
| `ReliableChainIsCorrect` | the UTXO set, the statistics, the disk and the refinement | `Reliable`, `WindowCovers` |
| `AlwaysFollowsBestChain` | `[]FollowsBestChain` | `Reliable`, `NoDepthRules` |

* `DisconnectsCached`: the disconnect loop finds the block it is at in the cache. The
  code does not ensure it (chain.rs:95: "could silently under-disconnect"); a behaviour
  in which it fails is one in which the UTXO set keeps the effects of a block that is
  no longer on the chain. `DisconnectLoopFindsItsBlocks` says when it is ensured.
* `WindowCovers`: a chain with as much work as another is at most
  `KeepBlocks - CheckpointInterval + 1` blocks shorter. No reorg goes deeper than
  `CheckpointInterval` below the tip it leaves, but the cache is trimmed around the
  highest tip since the start, and the tip may since have moved to heavier and shorter
  chains. With the 200 and 144 of the code the slack is 57 blocks.
* `Reliable`: no read and no write of the database fails. A failing read can make a
  partial sum the total difficulty, and a failing write leaves a cached block unstored,
  so that a chain with a hole is committed (see the observations above).
* `CrashesOutsideReorg`: the process does not die in a reorg, which deletes rows of the
  output index at once and adds those of the new branch when it commits.
* `NoDepthRules`: no limit on depth, a cache that keeps every block, no crash; the
  constants of `chain_converges`. A fork is weighed once, when it arrives. One that a
  depth rule refuses then may be acceptable from a later tip; a crash may leave a stored
  better block that is never weighed; and a parent outside the cache fails the
  validation in a reorg.

`LedgerNext` shows that every step keeps six invariants, each with the hypotheses and the
earlier ones it needs. `UtxoMatchesChain` in a reorg needs to know which blocks the loop
has undone (`DisconnectedOK`): exactly those of the old chain above the height it has
reached, all still in the cache, so that the undo can put them back. `StoredOK` (the
ancestors of what is stored are stored) makes the walk over a fork complete, so that the
work a fork is weighed with is its own; then `BooksInv` says what the statistics are at
each stage. `ChoiceInv` says that the branch a reorg works on is better, keeps the
finalised prefix, and is acceptable as far as it is connected: this is what the
refinement's step needs at `CommitReorg`, where nothing is checked any more. Validation
reads the output index on disk as well as memory, hence its conjunct `RowsOnChain`.
`WindowInv` relates the cache to the highest tip since the start, which no variable
records; it is the witness of an existential, and the work it has is at most that of the
tip. `BestInv` is `FollowsBestChain` at every stage: a fork kept is not better than the
tip (its fork point is found, since genesis is common), a reorg given up has a branch
that is not acceptable, and what is adopted is better than all that the old tip was
better than.

`TxsOnce`, `OwnerParent`, `ConnectsLedger` and `DisconnectsLedger` say what one block adds
to the replay of a chain and that disconnecting takes away the same, `SwitchesTxs` and
`SwitchesRows` what the batch of a reorg makes of the two indexes, and `ReplaysLedger` what
a restart rebuilds. `ChainLemmas` has these, the facts about the tree, and `NextInv`, the
actions in the order of the code. `HeightFacts` collects what is taken from the library
on well-founded orders and finite sets; it is a hypothesis of the lemmas, and
`HeightFactsHold` proves it where the theorems begin.

TLC has checked the invariants of `LedgerInvariant` on the instances of the runs, by
adding them to their configurations: `LedgerInv`, `StoredOK`, `BooksInv`, `ChoiceInv`,
`WindowInv` and `WindowCovers` on those of `chain_crash` and `chain_forks` without failing
reads, `LedgerInv` with failing reads and writes as well, `RowsOK` on both, and `BestInv`
on that of `chain_converges`. Where a hypothesis is about steps it was the constraint.
`MCChain` assumes, and TLC evaluates in each run, that the constants of the instance
satisfy `WindowCovers` or `NoDepthRules`.

### The memory pool

Proved in `MempoolProofs` for any number of handlers and clients, any transactions,
fees and sizes, any limits of the pool and any block tree:

* `PoolInvariant`: `Spec => []PoolInv`;
* `IndicesStayExact`: `Spec => []IndicesAgree`;
* `SizeStaysExact`: `Spec => []SizeAccounted`;
* `OnlyCheaperLeave`: `Spec => DropsOnlyCheaper`;
* `RefusalIsAtomic`: `Spec => RefusalChangesNothing`;
* `PoolStaysMineable`: `Spec => []PoolMineable`, if `OneTimeAddresses`.

The operations on the pool come first. `RemoveKeeps` and `InsertKeeps` say what each
does to the indices and the size; a key image leaves the index with its transaction
only because no two held transactions share one, which is why `IndicesAgree` has that
conjunct. `PlanIsKept` is the heart of `RefusalIsAtomic` and `OnlyCheaperLeave`: the
dry run sums the sizes of the cheapest transactions of the pool without the replaced
ones, the eviction loop then removes them one at a time, and both go through the same
transactions in the same order, so that the loop neither runs out of attempts nor
meets one that pays as much.

`PoolInv` adds the threads. A verdict is used only if the generation has not moved, so
what has to be shown of it is that it was reached on the chain of that generation;
between the two pieces of a reorg the UTXO set is not that of the tip, but then there
is a writer and no generation is stable (`ChainOK`, `AdmissionsOK`).

`PoolMineable` speaks of moments without a handler at work. `MineableInv` says at every
moment why a transaction that is not valid on the tip may still be held: a handler has
yet to remove what its block confirms or spends, has yet to sweep, or is sweeping. A
block that extends the tip is followed by no sweep, so everything it spoils must be a
transaction it holds or whose key image it spends. The one other way is an output of
the block at the address of a pending transaction, which validation would then refuse
(`src/consensus/validation.rs`, check of reused addresses). The comment there says why
that does not happen: "Honest stealth addresses are random (Diffie-Hellman derived
per-output); duplicates only happen via deliberate construction or broken RNG."
`OneTimeAddresses` is that sentence, for transactions that pass the pool's own checks;
coinbases may share addresses among themselves. The instance of the run satisfies it.

### Block download

Proved in `SyncProofs` for any finite set of peers, any length of chain, any limits and
any number of faults of all seven kinds:

* `SyncInvariant`: `Spec => []SyncInv`;
* `RequestsAreDownloads`: `Spec => []InFlightAgrees`;
* `CountedIsQueued`: `Spec => []OwnedIsQueued`;
* `TipIsPublished`: `Spec => []PublishedTipFresh`;
* `NoWorkIsLost`: `Spec => GivesUpOnlyToStartOver`.

The methods of `ChainSync` each preserve `Consistent`, which adds to the two agreements
that a block in flight has its place in the download order: a requeue goes through that
order, so a block without a place would vanish, and `NoWorkIsLost` would fail.
`TipIsPublished` needs to know where the missing publication is: if ChainSync is behind
the chain, the task of the chain's last block is still waiting and no later one has
been published.

`SubsequenceProofs` has the lemmas on `Pick`, by which the models take elements out of
a sequence.

### Transaction relay

Proved in `RelayProofs` for any nodes, connections, transactions and wallets:

* `RelayInvariant`: `Spec => []RelayInv`;
* `StemStaysHidden`: `Spec => []StemIsHidden`;
* `NeverAnnouncedTwice`: `Spec => AnnouncedOnce`.

What is announced once is announced by a router that no longer stems it; `RelayInv`
says that a stempool never holds an announced transaction, nor one twice, and that what
waits to be admitted has been announced.

### The swap

Proved in `SwapProofs` for every set of terms, any number of handshakes and any number
of commands that die:

* `SwapInvariant`: `Spec => []SwapInv`;
* `LockFollowsAgreement`: `Spec => []AgreedBeforeLock`;
* `MessagesInOrder`: `Spec => []HandshakeInOrder`;
* `FilesNeverAhead`: `Spec => []FileNotAhead`;
* `SwapIsAtomic`: `Spec => ImplementsAtomicSwap`.

`SwapInv` has two halves. `FileNotAhead` relates files to broadcasts only. A command in
progress has broadcast and not saved, and an observation moves a file because of what is
mined, so `FundsInv` also says where the state a command is about to save (`doing`), and
each state reached by an observation, leaves the ledgers. The refinement rests on three
of its conjuncts: a claim of the BTC is broadcast only with the CYNC locked, Bob's spend
of the CYNC only after the claim was mined, Alice's only after the refund was.

`HandshakeInv` is about the two streams. `StreamOK` says what is on the wire of a side as
a function of how far the other has sent and it has received; from this, Ready is
received only from a side whose verifier has accepted, and the evidence Bob locks on has
the terms of Alice's file.

### The coordinator

Proved in `FrostProofs` for any participants, messages, thresholds, connections and
number of faults:

* `FrostInvariant`: `Spec => []FrostInv`;
* `SignaturesHaveQuorum`: `Spec => []SignedByQuorum`;
* `AnnouncedIsKept`: `Spec => []AcceptedIsKept`;
* `EndIsHeard`: `Spec => []ListenersHearTheEnd`;
* `FileNeverGoesBack`: `Spec => FileAdvances`.

A save writes a snapshot that was taken before; that the file does not go back rests on
the lock: while a task writes or renames, its snapshot is the session itself, and what
is in the temporary file is the session, torn or absent (`LockHolds`). What was told is
in the session and, as far as it can be read, in the file (`TellsWhatIsKept`). A
listener that has not heard of the end is owed it by a request that will tell
(`EndIsOnItsWay`).

### Notes on the proofs

Leaves are left to Zenon unless they cite the SMT solver, because tlapm's
translation for the SMT solver slows down with the number of definitions and of leaves
of a module. For the same reason the modules that are proved about take elements out of
a sequence with `Pick` and not with the operators of SequencesExt, and `SizeOf` counts
bytes: a sum over a set is defined by recursion, of which the provers know nothing.

### Only model-checked

Every liveness property (`ConvergesToBestChain`, `Converges`, `OriginAnnounces`,
`OriginPeersLearn`, `Settles`): fairness is out of the prover's reach. And the instances on
which a hypothesis above fails but the property holds all the same, as with the failing
reads of `chain_crash` and `chain_forks` and with the failing writes of
`chain_write_errors`.

## 5. What is not modelled

*Chain*: the operator's rollback (`rollback_to_height`, which writes row by row in a
process of its own), eviction of outputs from memory, ring maturity, ring size with its
output counters, commitments, the checkpoint stacks of the phase-2 stores, the supply
commitment (gated off), the rolling-finality check (behind a feature), the hardcoded
checkpoints, database migrations, pruning, and saturation of the 128-bit work. The
check for a tip that moved between validation and storing (RACE-R7) is unreachable
under `apply_lock`.

*Mempool*: the sweep at the output-age hard fork, the saved file, fee estimates and the
audit log.

*Block download*: branches, work claims, the caps per peer and of requests, sync bans
(set in tests only), the RandomX key-epoch pause, `self_heal`,
`cancel_headers_request`, `retain_connected_peers`, and what `run_synced_tick` does when
a guard that cannot hold there holds. `network/orphan.rs` is used by its own tests only.

*Relay*: scoring of peers that relay invalid transactions, pruning of the announced
set, traffic shaping, and eviction from the mempool.

*Swap*: dishonest parties, the adaptor signatures and proofs (a verdict here), reorgs
of the two ledgers deeper than the agreed depth, eviction of an unconfirmed lock, a
short write of the HMAC key (`state.rs:388`), and two commands on one file at a time.

*FROST*: several sessions at once, invitation tokens, rate limits, receivers that lag
more than 64 events, metrics, and a loss of power (a crash ends the process, not the
machine).

*Other parts*, all with their hazards in the code: rolling finality (attestations to
blocks a reorg replaced), tick rescue (a host taken from the queue before its data is
applied), circuit breakers (a fault that returns while a breaker heals), the mining
pool (a balance dropped before its payment exists), the wallet. They are separate
machines that the ones modelled here do not depend on. Discovery, transport, RPC
queries and tooling are I/O; cryptography and arithmetic on targets and rewards are
constants.
