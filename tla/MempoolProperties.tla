------------------------- MODULE MempoolProperties -------------------------
(***************************************************************************)
(* What the memory pool promises its users: wallets that wait for their    *)
(* transaction, and miners that build blocks from it.                      *)
(***************************************************************************)
EXTENDS MempoolNode

\* struct Mempool, and the local variables of the handlers and of the admissions.
PoolRecord ==
    [transactions : UNION {[S -> Heights] : S \in SUBSET Sound},
     by_fee : SUBSET (Nat \X Tx), key_images : SUBSET KeyImage,
     linking_tags : SUBSET LinkingTag, current_size : Nat, chain_height : Heights]
WorkRecord ==
    [pc : {"idle", "process", "connect", "decide", "confirm", "restore", "set_height",
           "sweep", "sweeping"},
     block : Block \cup {NoBlock}, reorg : BOOLEAN, orphaned : SUBSET Tx,
     full : BOOLEAN, height : Heights]
AdmissionRecord ==
    [pc : {"idle", "generation", "validate", "insert"}, tx : Tx \cup {NoTx}, gen : Nat,
     valid : BOOLEAN, attempts : 0 .. MaxGenerationAttempts - 1]
SweepRecord ==
    [by : Handler \cup {NoThread}, left : SUBSET Tx, invalid : SUBSET Tx, torn : BOOLEAN]

\* Every variable is of its type; in particular no admission is tried more often than
\* MAX_CHAIN_GENERATION_ATTEMPTS (retry_stable_admission, mempool.rs).
PoolTypeOK ==
    /\ pool \in PoolRecord
    /\ stored \subseteq Block /\ tip \in stored /\ applied \in stored
    /\ writer \in Handler \cup {NoThread} /\ generation \in Nat
    /\ work \in [Handler -> WorkRecord]
    /\ adm \in [Thread -> AdmissionRecord]
    /\ sweep \in SweepRecord /\ torn \in BOOLEAN

Indexed(p) ==
    /\ p.key_images = ImagesOf(Held(p))
    /\ p.linking_tags = TagsOf(Held(p))
    /\ p.by_fee = {<<FeeRate(t), t>> : t \in Held(p)}
    /\ \A t, u \in Held(p) :
        t # u => /\ KeyImages(t) \cap KeyImages(u) = {}
                 /\ LinkingTags(t) \cap LinkingTags(u) = {}

\* The four indices of the pool (mempool.rs, struct Mempool) describe the held
\* transactions exactly, whatever was admitted, replaced, evicted, confirmed, swept
\* or expired before: key images and linking tags without leftovers, each held by one
\* tx only, and the fee order.
IndicesAgree == Indexed(pool)

Accounted(p) == p.current_size = SizeOf(Held(p)) /\ p.current_size <= MaxSize

\* verify_size_invariant of the code, and the bound the evictions are for.
SizeAccounted == Accounted(pool)

\* What every operation on the pool leaves behind (mempool.rs).
PoolOK(p) == p \in PoolRecord /\ IsFiniteSet(Held(p)) /\ Indexed(p) /\ Accounted(p)

\* The chain under the pool: the thread inside add_block is the writer, the UTXO set
\* replays the tip but between the two pieces of a reorg, and stored blocks have
\* their ancestors stored.
ChainOK ==
    /\ Genesis \in stored /\ \A b \in stored : Branch(b) \subseteq stored
    /\ \A h \in Handler :
        /\ work[h].pc \in {"process", "connect"} => writer = h
        /\ work[h].pc = "process" =>
             work[h].block \in Block \ {Genesis} /\ Parent(work[h].block) \in stored
        /\ work[h].pc = "connect" => work[h].block \in stored
        /\ work[h].pc \in {"decide", "confirm"} => work[h].block \in Block
    /\ (\A h \in Handler : work[h].pc # "connect") => applied = tip

\* A verdict that is about to be used was reached on the chain of its generation.
AdmissionsOK ==
    \A th \in Thread :
        /\ adm[th].pc \in {"validate", "insert"} => adm[th].gen <= generation
        /\ adm[th].pc = "insert" /\ adm[th].valid /\ StillCurrent(th) => Valid(adm[th].tx, tip)

\* The inductive invariant of the pool and of the threads around it (mempool.rs,
\* bin/node.rs).
PoolInv ==
    /\ PoolTypeOK /\ PoolOK(pool) /\ ChainOK /\ AdmissionsOK
    /\ sweep.by # NoThread => work[sweep.by].pc = "sweeping"

\* A step that inserts into the pool, and what it removed to do so.
Admits(t) == t \in Held(pool)' /\ t \notin Held(pool)
Removed == Held(pool) \ Held(pool)'

AdmitsOverCheaper == \A t \in Tx : Admits(t) => \A u \in Removed : FeeRate(u) < FeeRate(t)

\* An admission drops other transactions for two reasons only: it outbids what it
\* conflicts with, or it pays strictly more per byte than what it evicts (#88 in
\* admit_after_checks, whose eviction loop itself does not look at the rates).
DropsOnlyCheaper == [][AdmitsOverCheaper]_vars

RefusesCleanly ==
    \A th \in Thread :
        (adm[th].pc = "insert" /\ adm'[th].pc # "insert" /\ adm[th].tx \notin Held(pool)')
            => pool' = pool \/ Restart

\* An admission that is refused leaves the pool untouched: the dry run foresees
\* every failure of the eviction loop (ATOMICITY in admit_after_checks).
RefusalChangesNothing == [][RefusesCleanly]_vars

\* No handler is between a block and the end of its clean-up.
Settled == writer = NoThread /\ \A h \in Handler : work[h].pc = "idle"

\* Once the handlers are done every pending tx could be mined on the tip: neither an
\* admission that was validated against a chain that has moved on, nor a block, nor
\* a reorg leaves a tx behind that would spoil every block template.  Excepted is a
\* sweep that ran while another handler had rewound the UTXO set.
PoolMineable == Settled /\ ~torn => \A t \in Held(pool) : Valid(t, tip)

\* Why a tx that is not valid on the tip may still be in the pool: a handler has yet
\* to remove what its block confirms or spends, has yet to sweep the pool, or is
\* sweeping it and has not dropped the tx yet.
ToBeConfirmed(h, t) ==
    /\ work[h].pc \in {"decide", "confirm"}
    /\ \/ t \in Txs(work[h].block)
       \/ KeyImages(t) \cap ImagesOf(Txs(work[h].block)) # {}
WillSweep(h) ==
    \/ work[h].pc = "decide" /\ (h # Wire \/ work[h].reorg)
    \/ work[h].pc \in {"confirm", "restore", "set_height"} /\ work[h].full
    \/ work[h].pc = "sweep"
BeingSwept(t) == sweep.by # NoThread /\ t \in sweep.left \cup sweep.invalid

Covered(t) ==
    \/ Valid(t, tip)
    \/ BeingSwept(t)
    \/ \E h \in Handler : WillSweep(h) \/ ToBeConfirmed(h, t)

\* The sweep in progress, or else the last one, saw no rewound UTXO set.
SweepSound == IF sweep.by = NoThread THEN ~torn ELSE ~sweep.torn

\* The invariant behind PoolMineable, at every stage of the handlers (bin/node.rs).
MineableInv == SweepSound => \A t \in Held(pool) : Covered(t)
=============================================================================
