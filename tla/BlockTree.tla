----------------------------- MODULE BlockTree -----------------------------
(***************************************************************************)
(* The blocks a node may ever be offered, as a constant tree, and what the *)
(* chain that ends in a block amounts to: the spent key images, the owner  *)
(* of every stealth address, the cumulative work, supply and burn.  This   *)
(* is the reference the state of module Chain is compared with.            *)
(*                                                                         *)
(* A block is an abstract value; a transaction has exactly one output, so  *)
(* the output key (tx_hash, index) of the code is the transaction itself.  *)
(* A coinbase is a transaction without key images.                         *)
(***************************************************************************)
EXTENDS Integers, FiniteSets, Functions

CONSTANTS
    Block, Genesis, NoBlock,
    MaxHeight,              \* the height of the highest block of the tree
    Parent(_),                  \* header.prev_hash
    Height(_),                  \* header.height
    Anc(_, _),                  \* Anc(b, h): the ancestor of b (or b) at height h
    Hash(_),                    \* the rank of the block hash in byte order
    Difficulty(_), CumWork(_),  \* work of a block, and of the chain it ends
    Reward(_), CumSupply(_),    \* calculate_block_reward(height), and its sum
    Burn(_), CumBurn(_),        \* block_fee_burn(block), and its sum
    Tx, NoTx, Txs(_),           \* the transactions of a block
    KeyImages(_),               \* the key images the inputs of a tx spend
    Address, Addr(_),           \* the stealth address of the output of a tx
    Ring(_),                    \* the stealth addresses of the ring members of a tx
    WellFormed,                 \* blocks that pass every context-free header and body check
    ShieldedOk                  \* blocks whose shielded (Spark) part verifies

Heights == 0 .. MaxHeight

\* The least and the greatest of a non-empty set of heights.
Lowest(S) == CHOOSE h \in S : \A k \in S : h <= k
Highest(S) == CHOOSE h \in S : \A k \in S : k <= h

ASSUME TreeAssumption ==
    /\ Genesis \in Block /\ NoBlock \notin Block /\ NoTx \notin Tx
    /\ MaxHeight \in Nat
    /\ \A b \in Block :
        /\ Height(b) \in Heights /\ Parent(b) \in Block
        /\ (Height(b) = 0) <=> (b = Genesis)
        /\ b # Genesis => Height(Parent(b)) = Height(b) - 1
    /\ WellFormed \subseteq Block /\ ShieldedOk \subseteq Block

ASSUME AncestorAssumption ==
    \A b \in Block :
        /\ \A h \in Heights : Anc(b, h) \in Block
        /\ Anc(b, Height(b)) = b
        /\ Anc(b, 0) = Genesis
        /\ \A h \in 0 .. Height(b) :
            /\ Height(Anc(b, h)) = h
            /\ h > 0 => Parent(Anc(b, h)) = Anc(b, h - 1)
            /\ \A k \in 0 .. h : Anc(Anc(b, h), k) = Anc(b, k)

ASSUME WorkAssumption ==
    /\ \A h \in Heights : Reward(h) \in Nat
    /\ CumWork(Genesis) = 1 /\ CumSupply(Genesis) = Reward(0) /\ CumBurn(Genesis) = 0
    /\ \A b \in Block :
        /\ Difficulty(b) \in Nat \ {0} /\ Burn(b) \in Nat /\ Hash(b) \in Nat
        /\ CumWork(b) \in Nat /\ CumSupply(b) \in Nat /\ CumBurn(b) \in Nat
        /\ b # Genesis => /\ CumWork(b) = CumWork(Parent(b)) + Difficulty(b)
                          /\ CumSupply(b) = CumSupply(Parent(b)) + Reward(Height(b))
                          /\ CumBurn(b) = CumBurn(Parent(b)) + Burn(b)
        /\ CumWork(b) = 1 + SumFunction([h \in 1 .. Height(b) |-> Difficulty(Anc(b, h))])
        /\ \A a \in Block : Hash(a) = Hash(b) => a = b

ASSUME TxAssumption ==
    /\ \A b \in Block : Txs(b) \subseteq Tx
    /\ \A t \in Tx : Addr(t) \in Address /\ Ring(t) \subseteq Address
    /\ \A b \in Block : \A t, u \in Txs(b) : Addr(t) = Addr(u) => t = u
    /\ \A a, b \in Block : \A t \in Txs(a) \cap Txs(b) : KeyImages(t) = {} => a = b
    /\ \A t \in Txs(Genesis) : KeyImages(t) = {}

-----------------------------------------------------------------------------
KeyImage == UNION {KeyImages(t) : t \in Tx}

Branch(b) == {Anc(b, h) : h \in 0 .. Height(b)}

BlockKeyImages(b) == UNION {KeyImages(t) : t \in Txs(b)}
Images(blocks) == UNION {BlockKeyImages(a) : a \in blocks}

\* The key images the chain that ends in b has spent.
SpentOn(b) == Images(Branch(b))

\* check_block_duplicate_key_images: no key image twice within one block.
NoDuplicateKeyImages(b) ==
    \A t, u \in Txs(b) : t # u => KeyImages(t) \cap KeyImages(u) = {}

\* b spends nothing twice, neither within itself nor against its ancestors.
SpendsOnce(b) ==
    /\ NoDuplicateKeyImages(b)
    /\ b # Genesis => BlockKeyImages(b) \cap SpentOn(Parent(b)) = {}

Pays(b, s) == \E t \in Txs(b) : Addr(t) = s

\* The transaction of b whose output is at address s.
PaidBy(b, s) == CHOOSE t \in Txs(b) : Addr(t) = s

\* The heights of the chain that ends in b with an output at s.
PayHeights(b, s) == {h \in 0 .. Height(b) : Pays(Anc(b, h), s)}

\* Oldest wins: the first output of the chain at s owns the index entry.
OldestHeight(b, s) == Lowest(PayHeights(b, s))

OwnerOn(b) ==
    [s \in Address |-> IF PayHeights(b, s) = {}
                         THEN NoTx
                         ELSE PaidBy(Anc(b, OldestHeight(b, s)), s)]

\* An output_index row: the output and the height it was created at.
Row(t, h) == [tx |-> t, height |-> h]
NoRow == Row(NoTx, 0)
Rows == [tx : Tx \cup {NoTx}, height : Heights]

RowsOn(b) ==
    [s \in Address |-> IF PayHeights(b, s) = {}
                         THEN NoRow
                         ELSE Row(OwnerOn(b)[s], OldestHeight(b, s))]

OutputsOn(b) == UNION {Txs(a) : a \in Branch(b)}
=============================================================================
