----------------------------- MODULE MCMempool -----------------------------
(***************************************************************************)
(* A small tree and a handful of transactions for module MempoolNode:      *)
(*                                                                         *)
(*   g - a1            a1 mines t1                                         *)
(*   | \ b1            b1 mines t2, which spends what t1 spends, and t3    *)
(*    \ c1             heavy, but a ring member of its t4 is not on it     *)
(*                                                                         *)
(* t2 outbids t1 and shares a linking tag with it, and another with t3,    *)
(* with which it has no key image in common.  The ring of t4 names the     *)
(* coinbase of b1, and t4 fills the whole pool.                            *)
(***************************************************************************)
EXTENDS MempoolProperties

B(parent, height, hash, difficulty, txs) ==
    [parent |-> parent, height |-> height, hash |-> hash, difficulty |-> difficulty, txs |-> txs]

Tree == [
    g  |-> B("g",  0, 0, 1, {"kg"}),
    a1 |-> B("g",  1, 2, 2, {"ka1", "t1"}),
    b1 |-> B("g",  1, 4, 3, {"kb1", "t2", "t3"}),
    c1 |-> B("g",  1, 6, 9, {"kc1", "t4"})]

MCBlock == DOMAIN Tree
MCMaxHeight == 1
MCParent(b) == Tree[b].parent
MCHeight(b) == Tree[b].height
MCHash(b) == Tree[b].hash
MCDifficulty(b) == Tree[b].difficulty
MCBurn(b) == 0
MCReward(h) == 1
MCTxs(b) == Tree[b].txs

AncOf[b \in MCBlock] ==
    [h \in 0 .. MCMaxHeight |-> IF h >= MCHeight(b) THEN b ELSE AncOf[MCParent(b)][h]]
MCAnc(b, h) == AncOf[b][h]
SumTo(b, value(_)) == SumFunction([h \in 1 .. MCHeight(b) |-> value(AncOf[b][h])])
WorkOf == [b \in MCBlock |-> 1 + SumTo(b, MCDifficulty)]
MCCumWork(b) == WorkOf[b]
MCCumSupply(b) == 1 + MCHeight(b)
MCCumBurn(b) == 0

\* One row per pending transaction: key images, ring, linking tags, size, fee.
P(images, ring, tags, size, fee) ==
    [images |-> images, ring |-> ring, tags |-> tags, size |-> size, fee |-> fee]
Pending == [
    t1 |-> P({"k1"}, {"kg"},  {"s1"},       2, 20),
    t2 |-> P({"k1"}, {"kg"},  {"s1", "s3"}, 2, 26),
    t3 |-> P({"k3"}, {},      {"s3"},       2, 12),
    t4 |-> P({"k4"}, {"kb1"}, {},           4, 48)]

MCSound == DOMAIN Pending
MCTx == MCSound \cup UNION {MCTxs(b) : b \in MCBlock}
MCKeyImages(t) == IF t \in MCSound THEN Pending[t].images ELSE {}
MCRing(t) == IF t \in MCSound THEN Pending[t].ring ELSE {}
MCLinkingTags(t) == IF t \in MCSound THEN Pending[t].tags ELSE {}
MCSize(t) == IF t \in MCSound THEN Pending[t].size ELSE 1
MCFee(t) == IF t \in MCSound THEN Pending[t].fee ELSE 0
MCAddr(t) == t
MCAddress == MCTx
HashOrder == <<"t1", "t2", "t3", "t4", "kg", "ka1", "kb1", "kc1">>
MCTxHash(t) == CHOOSE i \in DOMAIN HashOrder : HashOrder[i] = t
=============================================================================
