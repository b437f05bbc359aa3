---------------------------- MODULE MempoolNode ----------------------------
(***************************************************************************)
(* The memory pool inside the node: block handlers that move the chain and *)
(* then realign the pool, and clients that submit transactions, all at the *)
(* same time.                                                              *)
(*                                                                         *)
(* A handler is the consumer of network events in bin/node.rs ("wire"), or *)
(* a miner's submission through the RPC or the block builder (the other    *)
(* handlers): process_block, remove_confirmed, restore_orphaned,           *)
(* set_height, shadow_evict_invalid.  apply_lock lets one handler at a     *)
(* time move the chain, but what follows is not under it.                  *)
(*                                                                         *)
(* add_with_chain validates against the chain without the pool lock and    *)
(* repeats that if the generation of the chain has moved when it has it.   *)
(* A handler that restores an orphaned tx runs the same procedure, so each *)
(* thread has an admission record.                                         *)
(***************************************************************************)
EXTENDS ForkChoice, Mempool

CONSTANTS
    Handler, Client,        \* threads that process blocks, threads that submit
    Wire,                   \* the handler of network events
    NoThread,
    MaxGenerationAttempts,  \* MAX_CHAIN_GENERATION_ATTEMPTS (4)
    MaxUpdates              \* bound on the calls of add_block

ASSUME NodeAssumption ==
    /\ Wire \in Handler /\ NoThread \notin Handler /\ Handler \cap Client = {}
    /\ MaxGenerationAttempts \in Nat \ {0} /\ MaxUpdates \in Nat

Thread == Handler \cup Client

VARIABLES
    pool,           \* SharedMempool.inner
    stored,         \* blocks the chain knows
    tip,            \* inner.tip, the block the node is on
    applied,        \* the block whose chain inner.utxos is the replay of
    generation,     \* state_generation
    writer,         \* the thread inside add_block: state_updates_in_progress
    work,           \* local variables of the block handlers
    adm,            \* local variables of add_with_chain in each thread
    sweep,          \* shadow_evict_invalid, which holds the pool lock
    torn            \* auxiliary: the last sweep read a rewound UTXO set

chain == <<stored, tip, applied, generation, writer>>
vars == <<pool, chain, work, adm, sweep, torn>>

NoWork == [pc |-> "idle", block |-> NoBlock, reorg |-> FALSE, orphaned |-> {},
           full |-> FALSE, height |-> 0]
NoAdmission == [pc |-> "idle", tx |-> NoTx, gen |-> 0, valid |-> FALSE, attempts |-> 0]
NoSweep == [by |-> NoThread, left |-> {}, invalid |-> {}, torn |-> FALSE]

Init ==
    /\ pool = EmptyPool
    /\ stored = {Genesis}
    /\ tip = Genesis /\ applied = Genesis
    /\ generation = 0 /\ writer = NoThread
    /\ work = [h \in Handler |-> NoWork]
    /\ adm = [t \in Thread |-> NoAdmission]
    /\ sweep = NoSweep /\ torn = FALSE

\* validate_transaction against the UTXO set that replays the chain of b.
Valid(t, b) ==
    /\ KeyImages(t) \cap SpentOn(b) = {}
    /\ \A s \in Ring(t) : PayHeights(b, s) # {}
    /\ PayHeights(b, Addr(t)) = {}

\* shielded_unminable: a linking tag of t is spent on the chain of b.
Unminable(t, b) == LinkingTags(t) \cap TagsOf(OutputsOn(b)) # {}

Unlocked == sweep.by = NoThread

-----------------------------------------------------------------------------
(* process_block.  A reorg is visible in two pieces: the inner lock is     *)
(* released between the disconnect loop and the connect loop.              *)

ForkPoint(a, b) == Anc(a, Highest({h \in 0 .. Height(a) : h <= Height(b) /\ Anc(a, h) = Anc(b, h)}))
Disconnected(a, b) == Branch(a) \ Branch(b)

BeginBlock(h, b) ==
    /\ work[h].pc = "idle" /\ writer = NoThread /\ generation < MaxUpdates
    /\ b \notin stored /\ Parent(b) \in stored /\ b \in WellFormed
    /\ writer' = h
    /\ work' = [work EXCEPT ![h] = [NoWork EXCEPT !.pc = "process", !.block = b]]
    /\ UNCHANGED <<pool, stored, tip, applied, generation, adm, sweep, torn>>

\* StateUpdate is dropped: the generation moves, whatever add_block did.
EndUpdate == writer' = NoThread /\ generation' = generation + 1

\* The block is known: only the height of the pool is refreshed.
BeginKnown(h) ==
    /\ work[h].pc = "idle" /\ writer = NoThread /\ generation < MaxUpdates
    /\ EndUpdate
    /\ work' = [work EXCEPT ![h].pc = "restore"]
    /\ UNCHANGED <<pool, stored, tip, applied, adm, sweep, torn>>

\* The block extends the tip; an invalid one is not stored.
Extend(h) ==
    LET b == work[h].block
    IN  /\ work[h].pc = "process" /\ Parent(b) = tip
        /\ IF AcceptableChain(b)
             THEN /\ stored' = stored \cup {b} /\ tip' = b /\ applied' = b
                  /\ work' = [work EXCEPT ![h].pc = "decide"]
             ELSE /\ work' = [work EXCEPT ![h] = NoWork]
                  /\ UNCHANGED <<stored, tip, applied>>
        /\ EndUpdate
        /\ UNCHANGED <<pool, adm, sweep, torn>>

\* AcceptedFork: kept, the chain does not move.
KeepFork(h) ==
    LET b == work[h].block
    IN  /\ work[h].pc = "process" /\ Parent(b) # tip /\ ~Better(b, tip)
        /\ stored' = stored \cup {b}
        /\ work' = [work EXCEPT ![h].pc = "decide"]
        /\ EndUpdate
        /\ UNCHANGED <<pool, tip, applied, adm, sweep, torn>>

Rewind(h) ==
    LET b == work[h].block
    IN  /\ work[h].pc = "process" /\ Parent(b) # tip /\ Better(b, tip)
        /\ stored' = stored \cup {b}
        /\ applied' = ForkPoint(tip, b)
        /\ work' = [work EXCEPT ![h].pc = "connect"]
        /\ UNCHANGED <<pool, tip, generation, writer, adm, sweep, torn>>

\* AcceptedReorg with the non-coinbase txs of the disconnected blocks, or back to
\* the old tip when a block of the fork does not validate.
Connect(h) ==
    LET b    == work[h].block
        gone == UNION {Txs(a) : a \in Disconnected(tip, b)}
    IN  /\ work[h].pc = "connect"
        /\ IF AcceptableChain(b)
             THEN /\ tip' = b /\ applied' = b
                  /\ work' = [work EXCEPT ![h].pc = "decide", ![h].reorg = TRUE,
                                          ![h].orphaned = {t \in gone : KeyImages(t) # {}}]
             ELSE /\ applied' = tip
                  /\ work' = [work EXCEPT ![h] = NoWork]
                  /\ UNCHANGED tip
        /\ EndUpdate
        /\ UNCHANGED <<pool, stored, adm, sweep, torn>>

-----------------------------------------------------------------------------
(* add_with_chain, for a tx of a client or one that a reorg orphaned.      *)

StartAdmission(th, t) ==
    adm' = [adm EXCEPT ![th] = [NoAdmission EXCEPT !.pc = "generation", !.tx = t]]

\* Broken: one attempt too many.
RetryOnceMore(a) == IF a.attempts = MaxGenerationAttempts
                      THEN NoAdmission
                      ELSE [NoAdmission EXCEPT !.pc = "generation", !.tx = a.tx,
                                               !.attempts = a.attempts + 1]

\* retry_stable_admission gives up after MaxGenerationAttempts attempts.
Retry(a) == IF a.attempts + 1 = MaxGenerationAttempts
              THEN NoAdmission
              ELSE [NoAdmission EXCEPT !.pc = "generation", !.tx = a.tx,
                                       !.attempts = a.attempts + 1]

\* add_with_chain refuses a malformed tx before anything else.
Submit(c, t) ==
    /\ adm[c].pc = "idle" /\ t \in Sound
    /\ StartAdmission(c, t)
    /\ UNCHANGED <<pool, chain, work, sweep, torn>>

\* stable_generation: none while a handler is inside add_block.
ReadGeneration(th) ==
    /\ adm[th].pc = "generation"
    /\ adm' = [adm EXCEPT ![th] = IF writer # NoThread THEN Retry(@)
                                  ELSE [@ EXCEPT !.pc = "validate", !.gen = generation]]
    /\ UNCHANGED <<pool, chain, work, sweep, torn>>

ValidateTx(th) ==
    /\ adm[th].pc = "validate"
    /\ adm' = [adm EXCEPT ![th].pc = "insert", ![th].valid = Valid(adm[th].tx, applied)]
    /\ UNCHANGED <<pool, chain, work, sweep, torn>>

\* Broken: the verdict is used whatever has happened to the chain since.
StillCurrentAlways(th) == TRUE

\* Under the pool lock: is the generation still the one validated against?
StillCurrent(th) == writer = NoThread /\ generation = adm[th].gen

InsertTx(th) ==
    LET answer == add(pool, adm[th].tx)
    IN  /\ adm[th].pc = "insert" /\ Unlocked
        /\ IF ~StillCurrent(th)
             THEN adm' = [adm EXCEPT ![th] = Retry(@)] /\ UNCHANGED pool
             ELSE /\ adm' = [adm EXCEPT ![th] = NoAdmission]
                  /\ pool' = IF adm[th].valid THEN answer.pool ELSE pool
        /\ UNCHANGED <<chain, work, sweep, torn>>

-----------------------------------------------------------------------------
(* The handler realigns the pool.                                          *)

\* needs_full_revalidation_after_block, or a shielded tx is pending (has_shielded);
\* the other handlers always sweep.  The block that crosses the output-age
\* hard-fork height, which also asks for a sweep, is not in the model.
NeedsSweep(h) ==
    h # Wire \/ work[h].reorg \/ \E t \in Held(pool) : LinkingTags(t) # {}

Decide(h) ==
    /\ work[h].pc = "decide" /\ Unlocked
    /\ work' = [work EXCEPT ![h].pc = "confirm", ![h].full = NeedsSweep(h)]
    /\ UNCHANGED <<pool, chain, adm, sweep, torn>>

Confirm(h) ==
    /\ work[h].pc = "confirm" /\ Unlocked
    /\ pool' = remove_confirmed(pool, Txs(work[h].block))
    /\ work' = [work EXCEPT ![h].pc = "restore"]
    /\ UNCHANGED <<chain, adm, sweep, torn>>

\* restore_orphaned takes the txs one by one; what is refused is dropped.
Restore(h, t) ==
    /\ work[h].pc = "restore" /\ adm[h].pc = "idle"
    /\ t \in work[h].orphaned
    /\ work' = [work EXCEPT ![h].orphaned = @ \ {t}]
    /\ IF t \in Sound THEN StartAdmission(h, t) ELSE UNCHANGED adm
    /\ UNCHANGED <<pool, chain, sweep, torn>>

\* set_height(chain.height()): the height is read before the lock is taken.
ReadHeight(h) ==
    /\ work[h].pc = "restore" /\ adm[h].pc = "idle" /\ work[h].orphaned = {}
    /\ work' = [work EXCEPT ![h].pc = "set_height", ![h].height = Height(tip)]
    /\ UNCHANGED <<pool, chain, adm, sweep, torn>>

SetHeight(h) ==
    /\ work[h].pc = "set_height" /\ Unlocked
    /\ pool' = set_height(pool, work[h].height)
    /\ work' = IF work[h].full THEN [work EXCEPT ![h].pc = "sweep"]
                                ELSE [work EXCEPT ![h] = NoWork]
    /\ UNCHANGED <<chain, adm, sweep, torn>>

\* shadow_evict_invalid holds the pool lock throughout, but reads the chain anew for
\* every tx.
BeginSweep(h) ==
    /\ work[h].pc = "sweep" /\ Unlocked
    /\ sweep' = [NoSweep EXCEPT !.by = h, !.left = Held(pool)]
    /\ work' = [work EXCEPT ![h].pc = "sweeping"]
    /\ UNCHANGED <<pool, chain, adm, torn>>

SweepOne(t) ==
    /\ sweep.by # NoThread /\ t \in sweep.left
    /\ sweep' = [sweep EXCEPT !.left = @ \ {t},
                              !.invalid = IF ~Valid(t, applied) \/ Unminable(t, applied)
                                            THEN @ \cup {t} ELSE @,
                              !.torn = @ \/ applied # tip]
    /\ UNCHANGED <<pool, chain, work, adm, torn>>

EndSweep ==
    /\ sweep.by # NoThread /\ sweep.left = {}
    /\ pool' = Remove(pool, sweep.invalid)
    /\ work' = [work EXCEPT ![sweep.by] = NoWork]
    /\ sweep' = NoSweep /\ torn' = sweep.torn
    /\ UNCHANGED <<chain, adm>>

\* expire_old of the maintenance task; the wall clock may make any tx too old.
ExpireOld(S) ==
    /\ Unlocked /\ S # {}
    /\ pool' = Remove(pool, S)
    /\ UNCHANGED <<chain, work, adm, sweep, torn>>

\* The node stops and starts again.  The pool is saved (save_to_disk) but nothing in
\* the node reads the file back: the new pool is empty and knows the height.
Restart ==
    /\ writer = NoThread /\ Unlocked
    /\ pool' = set_height(EmptyPool, Height(tip))
    /\ work' = [h \in Handler |-> NoWork] /\ adm' = [t \in Thread |-> NoAdmission]
    /\ torn' = FALSE
    /\ UNCHANGED <<chain, sweep>>

Next ==
    \/ \E h \in Handler :
        \/ \E b \in Block : BeginBlock(h, b)
        \/ BeginKnown(h)
        \/ Extend(h) \/ KeepFork(h) \/ Rewind(h) \/ Connect(h)
        \/ Decide(h) \/ Confirm(h)
        \/ \E t \in Tx : Restore(h, t)
        \/ ReadHeight(h) \/ SetHeight(h) \/ BeginSweep(h)
    \/ \E c \in Client, t \in Tx : Submit(c, t)
    \/ \E th \in Thread : ReadGeneration(th) \/ ValidateTx(th) \/ InsertTx(th)
    \/ \E t \in Tx : SweepOne(t)
    \/ EndSweep
    \/ \E S \in SUBSET Held(pool) : ExpireOld(S)
    \/ Restart

Spec == Init /\ [][Next]_vars
=============================================================================
