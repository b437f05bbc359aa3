------------------------------ MODULE Mempool ------------------------------
(***************************************************************************)
(* The memory pool of mempool.rs as a value and the operations on it.      *)
(* Every operation of the code runs under the write lock of SharedMempool, *)
(* so it is an operator from pools to pools; who calls them, and when, is  *)
(* the subject of module MempoolNode.                                      *)
(*                                                                         *)
(* A transaction is one of the block tree.  Its shape, its signatures and  *)
(* its range proofs are verdicts on the transaction alone: membership of   *)
(* Sound.                                                                  *)
(***************************************************************************)
EXTENDS BlockTree, FiniteSetsExt

CONSTANTS
    Sound,                  \* transactions that pass preflight_check and the crypto checks
    LinkingTags(_),         \* shielded_linking_tags of a tx
    Size(_), Fee(_),        \* bytes, and atomic units
    TxHash(_),              \* the rank of the tx hash in byte order
    MaxSize,                \* max_size of the pool
    MaxTxSize,              \* MAX_TX_SIZE
    MinFeePerByte,          \* MIN_FEE_PER_BYTE
    FeeScale,               \* the factor of scaled_fee_per_byte (1_000_000)
    MaxEvictionAttempts,    \* MAX_EVICTION_ATTEMPTS (100)
    TxExpiryBlocks          \* TX_EXPIRY_BLOCKS (288)

ASSUME PoolAssumption ==
    /\ Sound \subseteq {t \in Tx : KeyImages(t) # {}}
    /\ MaxSize \in Nat \ {0} /\ MaxTxSize \in Nat /\ MinFeePerByte \in Nat
    /\ FeeScale \in Nat \ {0} /\ MaxEvictionAttempts \in Nat /\ TxExpiryBlocks \in Nat
    /\ \A t \in Tx : Size(t) \in Nat \ {0} /\ Fee(t) \in Nat /\ TxHash(t) \in Nat
    /\ \A t, u \in Tx : TxHash(t) = TxHash(u) => t = u

\* scaled_fee_per_byte, and the same expression in MempoolEntry::new.
FeeRate(t) == (Fee(t) * FeeScale) \div Size(t)

LinkingTag == UNION {LinkingTags(t) : t \in Tx}
ImagesOf(S) == UNION {KeyImages(t) : t \in S}
TagsOf(S) == UNION {LinkingTags(t) : t \in S}

\* The bytes of the transactions of S, and how many they are: the sum of their sizes.
Bytes(S) == UNION {{t} \X (1 .. Size(t)) : t \in S}
SizeOf(S) == Cardinality(Bytes(S))

\* struct Mempool; transactions maps a held tx to its height_added.
EmptyPool ==
    [transactions |-> [t \in {} |-> 0], by_fee |-> {}, key_images |-> {},
     linking_tags |-> {}, current_size |-> 0, chain_height |-> 0]

Held(p) == DOMAIN p.transactions

\* Broken: the linking tags of a removed tx stay behind.
RemoveKeepsTags(p, S) ==
    LET gone == S \cap Held(p)
    IN  [p EXCEPT !.transactions = [t \in Held(p) \ gone |-> @[t]],
                  !.by_fee = @ \ {<<FeeRate(t), t>> : t \in gone},
                  !.key_images = @ \ ImagesOf(gone),
                  !.current_size = @ - SizeOf(gone)]

\* Broken: the size of a tx is given back whether or not the pool holds it.
RemoveUncounted(p, S) ==
    LET gone == S \cap Held(p)
    IN  [p EXCEPT !.transactions = [t \in Held(p) \ gone |-> @[t]],
                  !.by_fee = @ \ {<<FeeRate(t), t>> : t \in gone},
                  !.key_images = @ \ ImagesOf(gone),
                  !.linking_tags = @ \ TagsOf(gone),
                  !.current_size = @ - SizeOf(S)]

\* remove, called for each element of S.
Remove(p, S) ==
    LET gone == S \cap Held(p)
    IN  [p EXCEPT !.transactions = [t \in Held(p) \ gone |-> @[t]],
                  !.by_fee = @ \ {<<FeeRate(t), t>> : t \in gone},
                  !.key_images = @ \ ImagesOf(gone),
                  !.linking_tags = @ \ TagsOf(gone),
                  !.current_size = @ - SizeOf(gone)]

-----------------------------------------------------------------------------
(* admit_after_checks.                                                     *)

\* The fullness of the pool multiplies the fee it asks for.
FeeMultiplier(p) ==
    LET fullness_pct == (p.current_size * 100) \div MaxSize
    IN  CASE fullness_pct < 25 -> 1
          [] fullness_pct \in 25 .. 49 -> 2
          [] fullness_pct \in 50 .. 74 -> 4
          [] OTHER -> 8

PaysEnough(p, t) == Fee(t) >= Size(t) * MinFeePerByte * FeeMultiplier(p)

\* A replacement pays a quarter more per byte.
Outbids(t, u) == FeeRate(t) * 100 >= FeeRate(u) * 125 /\ FeeRate(t) > FeeRate(u)

\* Every tx that holds a key image of t must be outbid, and is then to be replaced.
ToReplace(p, t) == {u \in Held(p) : KeyImages(u) \cap KeyImages(t) # {}}
MayReplace(p, t) ==
    \A k \in KeyImages(t) \cap p.key_images :
        \E u \in Held(p) : k \in KeyImages(u) /\ Outbids(t, u)

\* Linking tags are not replaceable, but for those that leave with a replaced tx.
TagsFree(p, t) == LinkingTags(t) \cap p.linking_tags \subseteq TagsOf(ToReplace(p, t))

\* The order of by_fee, and the n first of a set in that order.
Before(u, t) ==
    FeeRate(u) < FeeRate(t) \/ (FeeRate(u) = FeeRate(t) /\ TxHash(u) < TxHash(t))
Cheapest(S, n) == {t \in S : Cardinality({u \in S : Before(u, t)}) < n}

FitsWithout(p, t, gone) == p.current_size - SizeOf(gone) + Size(t) <= MaxSize

\* Broken: the plan counts on evicting transactions that pay as much as t or more.
EvictionPlannedAnyRate(p, t) ==
    LET others == Held(p) \ ToReplace(p, t)
    IN  \E n \in 0 .. MaxEvictionAttempts :
            FitsWithout(p, t, ToReplace(p, t) \cup Cheapest(others, n))

\* Broken: the plan forgets the attempt limit of the eviction loop.
EvictionPlannedNoLimit(p, t) ==
    LET cheaper == {u \in Held(p) \ ToReplace(p, t) : FeeRate(u) < FeeRate(t)}
    IN  FitsWithout(p, t, ToReplace(p, t) \cup cheaper)

\* The dry run before anything is touched: at most MaxEvictionAttempts evictions of
\* transactions that pay less than t make room for it.
EvictionPlanned(p, t) ==
    LET cheaper == {u \in Held(p) \ ToReplace(p, t) : FeeRate(u) < FeeRate(t)}
    IN  \E n \in 0 .. MaxEvictionAttempts :
            FitsWithout(p, t, ToReplace(p, t) \cup Cheapest(cheaper, n))

Admissible(p, t) ==
    /\ Size(t) <= MaxTxSize
    /\ PaysEnough(p, t)
    /\ MayReplace(p, t)
    /\ TagsFree(p, t)
    /\ EvictionPlanned(p, t)

Insert(p, t) ==
    [p EXCEPT !.transactions = [u \in Held(p) \cup {t} |->
                                    IF u = t THEN p.chain_height ELSE @[u]],
              !.by_fee = @ \cup {<<FeeRate(t), t>>},
              !.key_images = @ \cup KeyImages(t),
              !.linking_tags = @ \cup LinkingTags(t),
              !.current_size = @ + Size(t)]

\* The replacements, then the eviction loop: it takes the cheapest until t fits, does
\* not look at their rate, and gives up, with what it removed gone, at the attempt
\* limit.
Evictions(p, t) ==
    LET rest   == Held(p) \ ToReplace(p, t)
        enough == {n \in 0 .. Cardinality(rest) :
                     FitsWithout(p, t, ToReplace(p, t) \cup Cheapest(rest, n))}
    IN  IF enough = {} THEN Cardinality(rest) ELSE Min(enough)
Evicted(p, t) == Cheapest(Held(p) \ ToReplace(p, t), Min({Evictions(p, t), MaxEvictionAttempts}))

Answer(ok, p) == [ok |-> ok, pool |-> p]
admit_after_checks(p, t) ==
    LET room == Remove(p, ToReplace(p, t) \cup Evicted(p, t))
    IN  IF ~Admissible(p, t) THEN Answer(FALSE, p)
        ELSE IF Evictions(p, t) > MaxEvictionAttempts THEN Answer(FALSE, room)
        ELSE Answer(TRUE, Insert(room, t))

\* add: a tx that is already held is accepted without a change.
add(p, t) ==
    IF t \notin Sound THEN Answer(FALSE, p)
    ELSE IF t \in Held(p) THEN Answer(TRUE, p)
    ELSE admit_after_checks(p, t)

-----------------------------------------------------------------------------
(* What the node does to the pool after a block, and now and then.         *)

\* The confirmed transactions, then those that share a key image with one.
remove_confirmed(p, txs) ==
    LET q == Remove(p, txs)
    IN  Remove(q, {u \in Held(q) : KeyImages(u) \cap ImagesOf(txs) # {}})

\* set_height with expire_old_transactions.
set_height(p, h) ==
    Remove([p EXCEPT !.chain_height = h],
           {t \in Held(p) : h - p.transactions[t] > TxExpiryBlocks})
=============================================================================
