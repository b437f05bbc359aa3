------------------------------ MODULE MCChain ------------------------------
(***************************************************************************)
(* A small block tree for module Chain:                                    *)
(*                                                                         *)
(*   g - a1 - a2 - a3 - a4 - a5      main branch, difficulty 2 each        *)
(*         |              \ d5       never valid: see t5                   *)
(*         |\ b2 - b3 - b4           b2 ties with a2 and has a smaller hash*)
(*          \ c2 - c3 - c4           c2 is heavy                           *)
(*                                                                         *)
(* t1 is mined in a2 and, again, in b3; t2 of b4 spends the key image of   *)
(* t1; the ring of t3 (in c2 and a4) names the coinbase of a1, the one of  *)
(* t4 (in b3) and of t5 (in d5) that of b2; the coinbases of a1 and a3     *)
(* share an address; the shielded part of c3 does not verify.              *)
(***************************************************************************)
EXTENDS LedgerInvariant

\* One row per block: parent, height, hash rank, difficulty, burn, transactions.
B(parent, height, hash, difficulty, burn, txs) ==
    [parent |-> parent, height |-> height, hash |-> hash,
     difficulty |-> difficulty, burn |-> burn, txs |-> txs]

Tree == [
    g  |-> B("g",  0,  0,  1, 0, {"kg"}),
    a1 |-> B("g",  1,  1,  2, 0, {"ka1"}),
    a2 |-> B("a1", 2,  3,  2, 1, {"ka2", "t1"}),
    a3 |-> B("a2", 3,  4,  2, 0, {"ka3"}),
    a4 |-> B("a3", 4,  5,  2, 2, {"ka4", "t3"}),
    a5 |-> B("a4", 5,  6,  2, 0, {"ka5"}),
    b2 |-> B("a1", 2,  2,  2, 0, {"kb2"}),
    b3 |-> B("b2", 3,  7,  3, 3, {"kb3", "t1", "t4"}),
    b4 |-> B("b3", 4,  8,  2, 1, {"kb4", "t2"}),
    c2 |-> B("a1", 2,  9,  5, 2, {"kc2", "t3"}),
    c3 |-> B("c2", 3, 10,  1, 0, {"kc3"}),
    c4 |-> B("c3", 4, 11,  1, 0, {"kc4"}),
    d5 |-> B("a4", 5, 12,  4, 0, {"kd5", "t5"})]

MCBlock == DOMAIN Tree
MCMaxHeight == 5
MCParent(b) == Tree[b].parent
MCHeight(b) == Tree[b].height
MCHash(b) == Tree[b].hash
MCDifficulty(b) == Tree[b].difficulty
MCBurn(b) == Tree[b].burn
MCReward(h) == 10 - h
MCTxs(b) == Tree[b].txs

AncOf[b \in MCBlock] ==
    [h \in 0 .. MCMaxHeight |-> IF h >= MCHeight(b) THEN b ELSE AncOf[MCParent(b)][h]]
MCAnc(b, h) == AncOf[b][h]

SumTo(b, value(_)) == SumFunction([h \in 1 .. MCHeight(b) |-> value(AncOf[b][h])])
WorkOf == [b \in MCBlock |-> 1 + SumTo(b, MCDifficulty)]
SupplyOf == [b \in MCBlock |-> MCReward(0) + SumTo(b, LAMBDA a : MCReward(MCHeight(a)))]
BurnOf == [b \in MCBlock |-> SumTo(b, MCBurn)]
MCCumWork(b) == WorkOf[b]
MCCumSupply(b) == SupplyOf[b]
MCCumBurn(b) == BurnOf[b]

MCTx == UNION {MCTxs(b) : b \in MCBlock}
MCKeyImages(t) == CASE t \in {"t1", "t2"} -> {"k1"}
                    [] t = "t3" -> {"k3"}
                    [] t = "t4" -> {"k4"}
                    [] t = "t5" -> {"k5"}
                    [] OTHER -> {}
MCAddr(t) == IF t = "ka3" THEN "ka1" ELSE t
MCAddress == {MCAddr(t) : t \in MCTx}
MCRing(t) == CASE t = "t3" -> {"ka1"} [] t \in {"t4", "t5"} -> {"kb2"} [] OTHER -> {}

MCShieldedOk == MCBlock \ {"c3"}

\* The blocks offered, where not all are: fewer in the runs with crashes or with
\* failing writes, or a single chain.
MCCrash == MCBlock \ {"c3", "c4"}
MCFew == {"a1", "a2", "a3", "b2", "b3", "b4"}
MCLine == {"a1", "a2", "a3", "a4", "a5"}

\* The constants of each instance satisfy the hypotheses of one of the theorems.
ASSUME InstanceHypotheses == WindowCovers \/ NoDepthRules
=============================================================================
