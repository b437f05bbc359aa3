---------------------------- MODULE ChainLemmas -----------------------------
(***************************************************************************)
(* The lemmas behind the theorems about module Chain: what its operators   *)
(* return; the invariant ChainInv, kept by every step of add_block (storing *)
(* a block, extending the tip, a reorg from its first step to its end,     *)
(* committed or undone), by a crash and by the restart; what one block adds *)
(* to the replay of a chain; and what a reorg commits.                     *)
(***************************************************************************)
EXTENDS LedgerInvariant, TLAPS

\* Leaves are first-order and left to Zenon, unless they cite the SMT solver.
USE ZenonT(40)

-----------------------------------------------------------------------------
(* Sets of heights.                                                        *)

\* What the proofs use of well-founded orders and of finite sets.  HeightFactsHold, in
\* ChainTheorems, proves it from the library; the lemmas that rest on it take it as a
\* hypothesis.
HeightFacts ==
    /\ \A S \in SUBSET Heights : S # {} =>
        /\ \E h \in S : \A k \in S : h <= k
        /\ \E h \in S : \A k \in S : k <= h
    /\ \A S \in SUBSET Heights : Cardinality(S) \in Nat
    /\ \A b \in Block : \A S \in SUBSET Branch(b) : Cardinality(S) \in Nat
    /\ \A n \in Nat : Cardinality(0 .. n) = n + 1
    /\ \A b \in Block : \A f \in Nat : f <= Height(b) =>
        Cardinality({Anc(b, h) : h \in f + 1 .. Height(b)}) = Height(b) - f

\* Lowest and Highest of a non-empty set of heights are members of it.
LEMMA LowestType ==
    ASSUME HeightFacts, NEW S \in SUBSET Heights, S # {}
    PROVE  Lowest(S) \in S
BY DEF HeightFacts, Lowest

\* The same for Highest, which ReorgRows and ReorgTxs use to pick the last writer.
LEMMA HighestType ==
    ASSUME HeightFacts, NEW S \in SUBSET Heights, S # {}
    PROVE  Highest(S) \in S
BY DEF HeightFacts, Highest

\* As many blocks lie above height f of a chain as there are heights above f.
LEMMA BlocksAbove ==
    ASSUME HeightFacts, NEW b \in Block, NEW f \in Nat, f <= Height(b)
    PROVE  Cardinality({Anc(b, h) : h \in f + 1 .. Height(b)}) = Height(b) - f
BY DEF HeightFacts

-----------------------------------------------------------------------------
(* Ancestors.                                                              *)

\* The height of a block is one of the heights of the tree.
LEMMA HeightType == \A b \in Block : Height(b) \in Nat /\ Height(b) \in Heights
BY TreeAssumption, SMTT(30) DEF Heights

\* A block is its own ancestor at its own height.
LEMMA AncSelf == \A b \in Block : Anc(b, Height(b)) = b
BY AncestorAssumption

\* The ancestor of a block at height h is a block of height h.
LEMMA AncType ==
    ASSUME NEW b \in Block, NEW h \in 0 .. Height(b)
    PROVE  h \in Heights /\ Anc(b, h) \in Block /\ Height(Anc(b, h)) = h
<1>1. h \in Heights
  BY TreeAssumption, SMTT(30) DEF Heights
<1> QED
  BY <1>1, AncestorAssumption

\* An ancestor of an ancestor is an ancestor: walks along prev_hash compose.
LEMMA AncAnc ==
    ASSUME NEW b \in Block, NEW h \in 0 .. Height(b), NEW k \in 0 .. h
    PROVE  Anc(Anc(b, h), k) = Anc(b, k)
BY AncestorAssumption

\* One step along prev_hash goes from the ancestor at h to the one at h - 1.
LEMMA AncParent ==
    ASSUME NEW b \in Block, NEW h \in 1 .. Height(b)
    PROVE  Parent(Anc(b, h)) = Anc(b, h - 1)
<1>1. h \in 0 .. Height(b) /\ h > 0
  BY HeightType, SMTT(30)
<1> QED
  BY <1>1, AncestorAssumption

\* The blocks a reorg and its undo step between: the one at the cursor and the one
\* above it, on the chain of b.
LEMMA CursorStep ==
    ASSUME NEW b \in Block, NEW i \in Nat, i < Height(b)
    PROVE  /\ i \in Heights /\ i + 1 \in Heights /\ i + 1 \in Nat /\ i + 1 <= Height(b)
           /\ Anc(b, i) \in Block /\ Height(Anc(b, i)) = i
           /\ Anc(b, i + 1) \in Block /\ Height(Anc(b, i + 1)) = i + 1
           /\ Anc(b, i + 1) # Genesis
           /\ Parent(Anc(b, i + 1)) = Anc(b, i)
           /\ Anc(Anc(b, i + 1), i + 1) = Anc(b, i + 1)
           /\ \A k \in 0 .. i : /\ Anc(Anc(b, i + 1), k) = Anc(b, k)
                                /\ Anc(Anc(b, i), k) = Anc(b, k)
           /\ (Anc(b, i + 1) = b) <=> (i + 1 = Height(b))
<1>1. Height(b) \in Nat
  BY HeightType
<1>2. /\ i + 1 \in 1 .. Height(b) /\ i + 1 \in 0 .. Height(b) /\ i \in 0 .. Height(b)
      /\ i + 1 \in Nat /\ i + 1 <= Height(b) /\ (i + 1) - 1 = i /\ i + 1 # 0
      /\ \A k \in 0 .. i : k \in 0 .. i + 1
  BY <1>1, SMTT(30)
<1>3. /\ i \in Heights /\ Anc(b, i) \in Block /\ Height(Anc(b, i)) = i
  BY <1>2, AncType
<1>4. /\ i + 1 \in Heights /\ Anc(b, i + 1) \in Block /\ Height(Anc(b, i + 1)) = i + 1
  BY <1>2, AncType
<1>5. Parent(Anc(b, i + 1)) = Anc(b, (i + 1) - 1)
  BY <1>2, AncParent
<1>6. Anc(b, i + 1) # Genesis
  BY <1>2, <1>4, TreeAssumption
<1>7. \A k \in 0 .. i + 1 : Anc(Anc(b, i + 1), k) = Anc(b, k)
  BY <1>2, AncAnc
<1>8. \A k \in 0 .. i : Anc(Anc(b, i), k) = Anc(b, k)
  BY <1>2, AncAnc
<1>9. Anc(Anc(b, i + 1), i + 1) = Anc(b, i + 1)
  BY <1>4, AncSelf
<1>10. (Anc(b, i + 1) = b) <=> (i + 1 = Height(b))
  BY <1>4, AncSelf
<1> QED
  BY <1>2, <1>3, <1>4, <1>5, <1>6, <1>7, <1>8, <1>9, <1>10

\* Two steps of a reorg differ in the position of the cursor on one chain.
LEMMA CursorIndex ==
    ASSUME NEW b \in Block, NEW h \in 1 .. Height(b)
    PROVE  /\ h \in 0 .. Height(b) /\ h \in Heights /\ h - 1 \in Heights
           /\ Anc(b, h) \in Block /\ Height(Anc(b, h)) = h
           /\ Anc(b, h - 1) \in Block /\ Height(Anc(b, h - 1)) = h - 1
           /\ Anc(Anc(b, h), h) = Anc(b, h)
           /\ \A k \in 0 .. h - 1 : Anc(Anc(b, h), k) = Anc(b, k) /\ Anc(Anc(b, h - 1), k) = Anc(b, k)
<1>1. h - 1 \in Nat /\ h - 1 < Height(b) /\ (h - 1) + 1 = h /\ h \in 0 .. Height(b)
  BY HeightType, SMTT(30)
<1> QED
  BY <1>1, CursorStep, SMTT(30)

\* Dropping the row of the block at the cursor from an index of the chain up to the
\* cursor leaves an index of the chain one block below.
LEMMA DropIndex ==
    ASSUME NEW b \in Block, NEW h \in 1 .. Height(b),
           NEW index \in [Heights -> Block \cup {NoBlock}],
           \A k \in Heights : index[k] # NoBlock => k <= h /\ index[k] = Anc(Anc(b, h), k)
    PROVE  \A k \in Heights : [index EXCEPT ![h] = NoBlock][k] # NoBlock =>
             k <= h - 1 /\ [index EXCEPT ![h] = NoBlock][k] = Anc(Anc(b, h - 1), k)
<1>1. ASSUME NEW k \in Heights, [index EXCEPT ![h] = NoBlock][k] # NoBlock
      PROVE  k <= h - 1 /\ [index EXCEPT ![h] = NoBlock][k] = Anc(Anc(b, h - 1), k)
  <2>1. h \in Heights
    BY CursorIndex
  <2>2. k # h /\ [index EXCEPT ![h] = NoBlock][k] = index[k]
    BY <1>1, <2>1
  <2>3. k <= h /\ index[k] = Anc(Anc(b, h), k)
    BY <1>1, <2>2
  <2>4. k \in 0 .. h - 1 /\ k <= h - 1
    BY <2>2, <2>3, HeightType, TreeAssumption, SMTT(30) DEF Heights
  <2>5. Anc(Anc(b, h), k) = Anc(b, k) /\ Anc(Anc(b, h - 1), k) = Anc(b, k)
    BY <2>4, CursorIndex
  <2> QED
    BY <2>2, <2>3, <2>4, <2>5
<1> QED
  BY <1>1

\* A block is one height above its parent and has the same ancestors below.
LEMMA ParentAncestors ==
    ASSUME NEW b \in Block, b # Genesis
    PROVE  /\ Parent(b) \in Block
           /\ Height(b) > 0
           /\ Height(Parent(b)) = Height(b) - 1
           /\ Parent(b) = Anc(b, Height(b) - 1)
           /\ \A h \in 0 .. Height(b) - 1 : Anc(Parent(b), h) = Anc(b, h)
<1>1. Parent(b) \in Block /\ Height(b) \in Nat /\ Height(b) # 0 /\ Height(Parent(b)) = Height(b) - 1
  BY TreeAssumption, SMTT(30) DEF Heights
<1>3. Height(b) - 1 \in 0 .. Height(b) /\ Height(b) \in 1 .. Height(b)
  BY <1>1, SMTT(30)
<1>2. Parent(Anc(b, Height(b))) = Anc(b, Height(b) - 1) /\ Anc(b, Height(b)) = b
  BY <1>1, <1>3, AncParent, AncSelf
<1>4. \A h \in 0 .. Height(b) - 1 : Anc(Anc(b, Height(b) - 1), h) = Anc(b, h)
  BY <1>3, AncAnc
<1> QED
  BY <1>1, <1>2, <1>4, SMTT(30)

\* A child shares every ancestor with its parent, which is one height below it.
LEMMA ChildOf ==
    ASSUME NEW b \in Block, b # Genesis, NEW p, Parent(b) = p
    PROVE  /\ Height(b) \in Nat /\ Height(b) \in Heights
           /\ Height(p) = Height(b) - 1
           /\ \A h \in 0 .. Height(b) - 1 : Anc(p, h) = Anc(b, h)
           /\ Anc(b, Height(b)) = b
BY ParentAncestors, HeightType, AncSelf

\* Two chains that meet at height f are the same up to f.
LEMMA SharedPrefix ==
    ASSUME NEW a \in Block, NEW b \in Block, NEW f \in Nat,
           f <= Height(a), f <= Height(b), Anc(a, f) = Anc(b, f)
    PROVE  \A h \in 0 .. f : Anc(a, h) = Anc(b, h)
<1>1. f \in 0 .. Height(a) /\ f \in 0 .. Height(b)
  BY HeightType, SMTT(30)
<1>2. ASSUME NEW h \in 0 .. f PROVE Anc(a, h) = Anc(b, h)
  <2>1. Anc(Anc(a, f), h) = Anc(a, h)
    BY <1>1, AncAnc
  <2>2. Anc(Anc(b, f), h) = Anc(b, h)
    BY <1>1, AncAnc
  <2> QED
    BY <2>1, <2>2
<1> QED
  BY <1>2

-----------------------------------------------------------------------------
(* Branches and the key images spent along them.                           *)

\* The chain of b holds exactly one block per height up to that of b.
LEMMA BranchBlocks ==
    ASSUME NEW b \in Block
    PROVE  /\ Branch(b) \subseteq Block
           /\ b \in Branch(b)
           /\ \A a \in Branch(b) : Height(a) <= Height(b) /\ a = Anc(b, Height(a))
           /\ \A h \in 0 .. Height(b) : Anc(b, h) \in Branch(b)
<1>1. Height(b) \in 0 .. Height(b)
  BY HeightType, SMTT(30)
<1>2. \A h \in 0 .. Height(b) : Anc(b, h) \in Block /\ Height(Anc(b, h)) = h
  BY AncType
<1>3. Anc(b, Height(b)) = b
  BY AncSelf
<1> QED
  BY <1>1, <1>2, <1>3, HeightType, SMTT(30) DEF Branch

\* The chain of a block is the chain of its parent and the block itself.
LEMMA BranchParent ==
    ASSUME NEW b \in Block, b # Genesis
    PROVE  Branch(b) = Branch(Parent(b)) \cup {b}
<1>1. \A h \in 0 .. Height(b) - 1 : Anc(Parent(b), h) = Anc(b, h)
  BY ParentAncestors
<1>2. Height(Parent(b)) = Height(b) - 1 /\ Height(b) \in Nat /\ Height(b) > 0 /\ Anc(b, Height(b)) = b
  BY ParentAncestors, HeightType, AncSelf
<1>3. 0 .. Height(b) = 0 .. Height(b) - 1 \cup {Height(b)}
  BY <1>2, SMTT(30)
<1> QED
  BY <1>1, <1>2, <1>3, SMTT(30) DEF Branch

\* The chain of the genesis block is that block alone.
LEMMA BranchGenesis == Branch(Genesis) = {Genesis}
<1>1. Genesis \in Block /\ Height(Genesis) = 0
  BY TreeAssumption
<1>2. Anc(Genesis, 0) = Genesis
  BY <1>1, AncSelf
<1> QED
  BY <1>1, <1>2, SMTT(30) DEF Branch

\* Connecting a block adds its key images to those its parent's chain has spent.
LEMMA SpentParent ==
    ASSUME NEW b \in Block, b # Genesis
    PROVE  SpentOn(b) = SpentOn(Parent(b)) \cup BlockKeyImages(b)
BY BranchParent, SMTT(30) DEF SpentOn, Images

\* The genesis block has no inputs (init_genesis), so it spends no key image.
LEMMA GenesisSpendsNothing == BlockKeyImages(Genesis) = {}
BY TxAssumption, TreeAssumption, SMTT(30) DEF BlockKeyImages

\* The key images of a block are key images.
LEMMA ImagesType == \A b \in Block : BlockKeyImages(b) \subseteq KeyImage
BY TxAssumption DEF BlockKeyImages, KeyImage

\* On a chain that spends once, two blocks share no key image.
LEMMA DisjointOnChain ==
    ASSUME NEW b \in Block, \A a \in Branch(b) : SpendsOnce(a),
           NEW a \in Branch(b), NEW c \in Branch(b), a # c
    PROVE  BlockKeyImages(a) \cap BlockKeyImages(c) = {}
<1>1. ASSUME NEW x \in Branch(b), NEW y \in Branch(b), Height(x) < Height(y)
      PROVE  BlockKeyImages(x) \cap BlockKeyImages(y) = {}
  <2>1. /\ x \in Block /\ y \in Block /\ Height(x) \in Nat /\ Height(y) \in Nat
        /\ Height(y) <= Height(b) /\ Height(b) \in Nat
        /\ x = Anc(b, Height(x)) /\ y = Anc(b, Height(y))
    BY BranchBlocks, HeightType
  <2>2. y # Genesis
    BY <1>1, <2>1, TreeAssumption, SMTT(30)
  <2>3. Height(Parent(y)) = Height(y) - 1 /\ Parent(y) \in Block
    BY <2>1, <2>2, ParentAncestors
  <2>4. Anc(Parent(y), Height(x)) = Anc(y, Height(x))
    BY <1>1, <2>1, <2>2, ParentAncestors, SMTT(30)
  <2>5. Anc(Anc(b, Height(y)), Height(x)) = Anc(b, Height(x))
    <3>1. Height(y) \in 0 .. Height(b) /\ Height(x) \in 0 .. Height(y)
      BY <1>1, <2>1, SMTT(30)
    <3> QED
      BY <2>1, <3>1, AncAnc
  <2>6. x = Anc(Parent(y), Height(x)) /\ Height(x) \in 0 .. Height(Parent(y))
    BY <1>1, <2>1, <2>3, <2>4, <2>5, SMTT(30)
  <2>7. x \in Branch(Parent(y))
    BY <2>6 DEF Branch
  <2>8. BlockKeyImages(y) \cap SpentOn(Parent(y)) = {}
    BY <2>2 DEF SpendsOnce
  <2> QED
    BY <2>7, <2>8 DEF SpentOn, Images
<1>2. Height(a) \in Nat /\ Height(c) \in Nat /\ Height(a) # Height(c)
  BY BranchBlocks, HeightType
<1>3. CASE Height(a) < Height(c)
  BY <1>1, <1>3
<1>4. CASE Height(c) < Height(a)
  BY <1>1, <1>4
<1> QED
  BY <1>2, <1>3, <1>4, SMTT(30)

\* The amounts of a block are numbers.
LEMMA WorkType ==
    ASSUME NEW b \in Block
    PROVE  /\ Reward(Height(b)) \in Int /\ Burn(b) \in Int
           /\ Difficulty(b) \in Int /\ CumWork(b) \in Int
<1>1. Reward(Height(b)) \in Nat
  BY HeightType, WorkAssumption
<1>2. Burn(b) \in Nat /\ Difficulty(b) \in Nat /\ CumWork(b) \in Nat
  BY WorkAssumption
<1> QED
  BY <1>1, <1>2, SMTT(30)

-----------------------------------------------------------------------------
(* Outputs: owners of addresses and rows of the output index.              *)

\* The transaction of b that pays an address is a transaction of b.
LEMMA PaidByType ==
    ASSUME NEW b \in Block, NEW s, Pays(b, s)
    PROVE  PaidBy(b, s) \in Txs(b) /\ PaidBy(b, s) \in Tx
BY TxAssumption DEF Pays, PaidBy

\* The rows of the output index are well typed.
LEMMA RowType ==
    /\ NoRow \in Rows
    /\ \A t \in Tx, h \in Heights : Row(t, h) \in Rows
BY TreeAssumption DEF Row, NoRow, Rows, Heights

\* The transaction a row names.
LEMMA RowFields == NoRow.tx = NoTx /\ \A t, h : Row(t, h).tx = t
BY SMTT(30) DEF Row, NoRow

\* The first height at which a chain pays an address is one of those that pay it.
LEMMA OldestHeightType ==
    ASSUME HeightFacts, NEW b \in Block, NEW s, PayHeights(b, s) # {}
    PROVE  OldestHeight(b, s) \in PayHeights(b, s)
<1>1. PayHeights(b, s) \in SUBSET Heights
  BY AncType DEF PayHeights
<1> QED
  BY <1>1, LowestType DEF OldestHeight

\* The owners and the rows a replay of the chain yields are well typed.
LEMMA OwnerType ==
    ASSUME HeightFacts, NEW b \in Block
    PROVE  OwnerOn(b) \in [Address -> Tx \cup {NoTx}] /\ RowsOn(b) \in [Address -> Rows]
<1>1. ASSUME NEW s \in Address, PayHeights(b, s) # {}
      PROVE  PaidBy(Anc(b, OldestHeight(b, s)), s) \in Tx /\ OldestHeight(b, s) \in Heights
  <2>1. OldestHeight(b, s) \in PayHeights(b, s)
    BY <1>1, OldestHeightType
  <2>2. /\ OldestHeight(b, s) \in Heights
        /\ Anc(b, OldestHeight(b, s)) \in Block
        /\ Pays(Anc(b, OldestHeight(b, s)), s)
    BY <2>1, AncType DEF PayHeights
  <2> QED
    BY <2>2, PaidByType
<1>2. OwnerOn(b) \in [Address -> Tx \cup {NoTx}]
  BY <1>1 DEF OwnerOn
<1>3. ASSUME NEW s \in Address
      PROVE  (IF PayHeights(b, s) = {} THEN NoRow ELSE Row(OwnerOn(b)[s], OldestHeight(b, s))) \in Rows
  <2>1. CASE PayHeights(b, s) = {}
    BY <2>1, RowType
  <2>2. CASE PayHeights(b, s) # {}
    <3>1. OwnerOn(b)[s] \in Tx
      BY <1>1, <2>2 DEF OwnerOn
    <3> QED
      BY <1>1, <2>2, <3>1, RowType
  <2> QED
    BY <2>1, <2>2
<1> QED
  BY <1>2, <1>3 DEF RowsOn

-----------------------------------------------------------------------------
(* The values the operators of the model return.                           *)

\* The empty job, and the job of a block that extends the tip, are well typed.
LEMMA NoJobType ==
    /\ NoJob \in JobType /\ NoStats \in StatsType
    /\ \A b \in Block : [NoJob EXCEPT !.block = b] \in JobType
<1>1. NoStats \in StatsType /\ Tip(NoBlock, 0) \in TipType /\ 0 \in Heights
  BY TreeAssumption, SMTT(30) DEF Tip, TipType, NoStats, Stats, StatsType, Heights
<1> QED
  BY <1>1, SMTT(30) DEF NoJob, JobType

\* The fields of the records of the state.
LEMMA Fields ==
    ASSUME TypeOK
    PROVE  /\ tip.hash \in Block \cup {NoBlock} /\ tip.height \in Heights
           /\ T \in Block /\ db_state.height \in Heights
           /\ db_state.total_difficulty \in Int /\ db_state.total_supply \in Int
           /\ db_state.total_burned \in Int /\ db_state.last_checkpoint \in Heights
           /\ stats.total_difficulty \in Int /\ stats.total_supply \in Int
           /\ stats.total_burned \in Int /\ stats.total_blocks \in Int
           /\ job.block \in Block \cup {NoBlock} /\ job.work \in Int
           /\ job.fork \in Heights /\ job.at \in Heights
           /\ job.pre_tip \in TipType /\ job.pre_stats \in StatsType
           /\ job.disconnected \subseteq Block
<1>1. tip \in TipType /\ db_state \in StateType /\ stats \in StatsType /\ job \in JobType
  BY DEF TypeOK
<1>2. tip.hash \in Block \cup {NoBlock} /\ tip.height \in Heights
  BY <1>1 DEF TipType
<1>3. /\ T \in Block /\ db_state.height \in Heights
      /\ db_state.total_difficulty \in Int /\ db_state.total_supply \in Int
      /\ db_state.total_burned \in Int /\ db_state.last_checkpoint \in Heights
  BY <1>1 DEF StateType, T
<1>4. /\ stats.total_difficulty \in Int /\ stats.total_supply \in Int
      /\ stats.total_burned \in Int /\ stats.total_blocks \in Int
  BY <1>1 DEF StatsType
<1>5. /\ job.block \in Block \cup {NoBlock} /\ job.work \in Int
      /\ job.fork \in Heights /\ job.at \in Heights
      /\ job.pre_tip \in TipType /\ job.pre_stats \in StatsType
      /\ job.disconnected \subseteq Block
  BY <1>1 DEF JobType
<1> QED
  BY <1>2, <1>3, <1>4, <1>5

-----------------------------------------------------------------------------
(* Where a reorg stands.                                                   *)

\* What the invariant says while a reorg runs, gathered for the steps of the loops.
LEMMA ReorgFacts ==
    ASSUME ChainInv, Reorging
    PROVE  /\ T \in Block /\ tip = Tip(T, Height(T)) /\ tip.hash = T /\ db_state.height = Height(T)
           /\ job.pre_tip = tip
           /\ job.block \in Block
           /\ Height(T) \in Nat /\ Height(job.block) \in Nat /\ job.fork \in Nat /\ job.at \in Nat
           /\ job.at \in Heights
           /\ job.fork < Height(job.block) /\ job.fork <= Height(T) /\ job.fork <= job.at
           /\ \A h \in 0 .. job.fork : Anc(job.block, h) = Anc(T, h)
           /\ \A o \in job.disconnected : o \in Branch(T) /\ Height(o) > job.fork /\ Height(o) \in Heights
<1>1. /\ T \in Block /\ job.block \in Block /\ job.fork \in Heights /\ job.at \in Heights
  BY Fields DEF ChainInv, JobOK
<1>2. /\ tip = Tip(T, Height(T)) /\ tip.hash = T /\ db_state.height = Height(T) /\ job.pre_tip = tip
  BY SMTT(30) DEF ChainInv, TipOK, DiskOK, JobOK, Reorging, Tip
<1>3. /\ Height(T) \in Nat /\ Height(job.block) \in Nat /\ job.fork \in Nat /\ job.at \in Nat
  BY <1>1, HeightType, TreeAssumption, SMTT(30) DEF Heights
<1>4. /\ job.fork < Height(job.block) /\ job.fork <= Height(T) /\ job.fork <= job.at
      /\ Anc(job.block, job.fork) = Anc(T, job.fork)
      /\ job.disconnected \subseteq {Anc(T, h) : h \in job.fork + 1 .. Height(T)}
  BY DEF ChainInv, JobOK
<1>5. \A h \in 0 .. job.fork : Anc(job.block, h) = Anc(T, h)
  BY <1>1, <1>3, <1>4, SharedPrefix, SMTT(30)
<1>6. ASSUME NEW o \in job.disconnected
      PROVE  o \in Branch(T) /\ Height(o) > job.fork /\ Height(o) \in Heights
  <2>1. PICK h \in job.fork + 1 .. Height(T) : o = Anc(T, h)
    BY <1>4
  <2>2. h \in 0 .. Height(T) /\ h > job.fork
    BY <1>3, SMTT(30)
  <2> QED
    BY <1>1, <2>1, <2>2, AncType DEF Branch
<1> QED
  BY <1>1, <1>2, <1>3, <1>4, <1>5, <1>6

\* Where a reorg stands: every image of the chain below its cursor is spent.
LEMMA CursorSpent ==
    ASSUME ChainInv, phase \in {"connect", "undo"}
    PROVE  /\ SpentOn(Anc(job.block, job.at)) \subseteq key_images
           /\ \A a \in Branch(Anc(job.block, job.at)) : SpendsOnce(a)
<1> DEFINE c == Anc(job.block, job.at)
<1>1. Reorging
  BY DEF Reorging
<1>2. /\ job.block \in Block /\ T \in Block /\ job.at \in Nat /\ job.fork \in Nat
      /\ Height(job.block) \in Nat /\ Height(T) \in Nat /\ job.fork <= Height(T)
      /\ job.at < Height(job.block)
      /\ \A h \in 0 .. job.fork : Anc(job.block, h) = Anc(T, h)
      /\ \A o \in job.disconnected : Height(o) > job.fork
  BY <1>1, ReorgFacts DEF ChainInv, JobOK
<1>3. /\ job.at \in 0 .. Height(job.block) /\ c \in Block /\ Height(c) = job.at
      /\ \A h \in 0 .. job.at : Anc(c, h) = Anc(job.block, h)
  <2>1. job.at \in 0 .. Height(job.block)
    BY <1>2, SMTT(30)
  <2> QED
    BY <1>2, <2>1, AncType, AncAnc
<1>4. ASSUME NEW a \in Branch(c)
      PROVE  BlockKeyImages(a) \subseteq key_images /\ SpendsOnce(a)
  <2>1. PICK h \in 0 .. job.at : a = Anc(job.block, h)
    BY <1>3 DEF Branch
  <2>2. CASE h <= job.fork
    <3>1. h \in 0 .. job.fork /\ h \in 0 .. Height(T)
      BY <1>2, <2>2, SMTT(30)
    <3>2. a = Anc(T, h) /\ Height(a) = h
      BY <1>2, <2>1, <3>1, AncType
    <3>3. a \in Branch(T) /\ a \notin Undone
      BY <1>2, <2>2, <3>1, <3>2, SMTT(30) DEF Branch, Undone
    <3>4. Images(Branch(T) \ Undone) \subseteq key_images
      BY DEF ChainInv, SpentOK
    <3>5. SpendsOnce(a)
      BY <3>3 DEF ChainInv, NoDoubleSpend, T
    <3> QED
      BY <3>3, <3>4, <3>5 DEF Images
  <2>3. CASE h > job.fork
    <3>1. h \in job.fork + 1 .. job.at
      BY <1>2, <2>3, SMTT(30)
    <3> QED
      BY <2>1, <3>1 DEF ChainInv, SpentOK
  <2> QED
    BY <1>2, <2>2, <2>3, SMTT(30)
<1> QED
  BY <1>4 DEF SpentOn, Images

\* The next block of the new branch, if it is valid, spends nothing twice.
LEMMA NextForkFacts ==
    ASSUME ChainInv, phase = "connect"
    PROVE  /\ Reorging
           /\ NextForkBlock \in Block /\ NextForkBlock # Genesis
           /\ Height(NextForkBlock) = job.at + 1
           /\ Parent(NextForkBlock) = Anc(job.block, job.at)
           /\ job.at + 1 \in Heights /\ job.at + 1 \in Nat /\ job.at + 1 <= Height(job.block)
           /\ \A k \in 0 .. job.at : /\ Anc(NextForkBlock, k) = Anc(job.block, k)
                                     /\ Anc(Anc(job.block, job.at), k) = Anc(job.block, k)
           /\ Height(Anc(job.block, job.at)) = job.at
           /\ Anc(NextForkBlock, job.at + 1) = NextForkBlock
           /\ NextForkBlock = job.block <=> job.at + 1 = Height(job.block)
           /\ ContextValid(NextForkBlock) => SpendsOnce(NextForkBlock)
<1> DEFINE b == job.block
           i == job.at
           n == Anc(b, i + 1)
<1>1. Reorging
  BY DEF Reorging
<1>2. b \in Block /\ i \in Nat /\ Height(b) \in Nat /\ i < Height(b)
  BY <1>1, ReorgFacts DEF ChainInv, JobOK
<1>3. /\ i + 1 \in Heights /\ i + 1 \in Nat /\ i + 1 <= Height(b)
      /\ n \in Block /\ Height(n) = i + 1 /\ n # Genesis
      /\ Height(Anc(b, i)) = i /\ Parent(n) = Anc(b, i) /\ Anc(n, i + 1) = n
      /\ \A k \in 0 .. i : Anc(n, k) = Anc(b, k) /\ Anc(Anc(b, i), k) = Anc(b, k)
      /\ n = b <=> i + 1 = Height(b)
  BY <1>2, CursorStep, SMTT(30)
<1>4. ContextValid(n) => SpendsOnce(n)
  <2>1. NoDuplicateKeyImages(n)
    <3>1. i + 1 \in job.fork + 1 .. Height(b)
      BY <1>1, <1>2, <1>3, ReorgFacts, SMTT(30)
    <3> QED
      BY <1>1, <3>1 DEF ChainInv, JobOK
  <2>2. SpentOn(Anc(b, i)) \subseteq key_images
    BY CursorSpent
  <2> QED
    BY <1>3, <2>1, <2>2 DEF ContextValid, SpendsOnce
<1> QED
  BY <1>1, <1>3, <1>4 DEF NextForkBlock

-----------------------------------------------------------------------------
(* The first state.                                                        *)

\* A node that has just created its genesis block (init_genesis) is in the invariant.
LEMMA InitInv ==
    ASSUME HeightFacts, Init
    PROVE  ChainInv
<1>1. Genesis \in Block /\ Height(Genesis) = 0 /\ NoBlock \notin Block /\ 0 \in Heights
  BY TreeAssumption DEF Heights
<1>2. Anc(Genesis, 0) = Genesis
  BY <1>1, AncSelf
<1>3. SpendsOnce(Genesis) /\ NoDuplicateKeyImages(Genesis) /\ SpentOn(Genesis) = {}
  <2>1. BlockKeyImages(Genesis) = {}
    BY GenesisSpendsNothing
  <2>2. NoDuplicateKeyImages(Genesis)
    BY TxAssumption DEF NoDuplicateKeyImages
  <2>3. SpentOn(Genesis) = {}
    BY <2>1, BranchGenesis DEF SpentOn, Images
  <2> QED
    BY <2>2, <2>3 DEF SpendsOnce
<1>4. TypeOK
  <2>1. GenesisStats \in StatsType
    BY <1>1, WorkAssumption, SMTT(30) DEF GenesisStats, Stats, StatsType
  <2>2. db_outputs \in [Address -> Rows] /\ stealth_index \in [Address -> Tx \cup {NoTx}]
    BY <1>1, OwnerType DEF Init
  <2>3. outputs \subseteq Tx /\ key_images \subseteq KeyImage
    BY <1>1, TxAssumption DEF Init
  <2>4. job \in JobType
    BY NoJobType DEF Init
  <2>5. db_txs \in [Tx -> Heights \cup {NoHeight}]
    BY <1>1 DEF Init
  <2>6. db_state \in StateType
    BY <1>1, <2>1 DEF Init, State, StatsType, StateType
  <2>7. tip \in TipType
    BY <1>1 DEF Init, Tip, TipType
  <2>8. crashes \in 0 .. MaxCrashes
    BY ChainAssumption, SMTT(30) DEF Init
  <2> QED
    BY <1>1, <2>1, <2>2, <2>3, <2>4, <2>5, <2>6, <2>7, <2>8 DEF Init, TypeOK
<1>5. T = Genesis /\ tip = Tip(T, db_state.height) /\ db_state.height = 0 /\ tip.hash = Genesis
  BY DEF Init, State, T, Tip
<1>6. DiskOK
  BY <1>1, <1>2, <1>5, TreeAssumption, SMTT(90) DEF Init, DiskOK, Heights
<1>7. TipOK
  BY <1>5 DEF TipOK, Init
<1>8. JobOK
  BY DEF Init, JobOK, Reorging
<1>9. IndexOK
  BY <1>1, <1>2, <1>5, SMTT(30) DEF Init, IndexOK, Applied
<1>10. KnownOK
  BY <1>3 DEF Init, KnownOK
<1>11. SpentOK
  BY <1>3, <1>5 DEF Init, SpentOK
<1>12. NoDoubleSpend
  BY <1>3, <1>5, BranchGenesis DEF NoDoubleSpend, T
<1> QED
  BY <1>4, <1>6, <1>7, <1>8, <1>9, <1>10, <1>11, <1>12 DEF ChainInv

-----------------------------------------------------------------------------
(* What a restart reads.                                                   *)

\* What get_by_height returns below the tip of a loadable disk: the block of the
\* chain at that height, or nothing.
LEMMA StoredBlocks ==
    ASSUME ChainInv, Loadable
    PROVE  /\ T \in Block /\ Height(T) \in Nat /\ db_state.height = Height(T) /\ Height(T) \in Heights
           /\ \A h \in 0 .. Height(T) : DiskBlock(h) # NoBlock =>
                /\ DiskBlock(h) = Anc(T, h) /\ DiskBlock(h) \in db_blocks
                /\ DiskBlock(h) \in Block /\ Height(DiskBlock(h)) = h
           /\ DiskBlock(0) # NoBlock
           /\ DiskBlock(Height(T)) # NoBlock
<1>1. T \in Block /\ db_state.height = Height(T) /\ Height(T) \in Nat /\ Height(T) \in Heights
  BY Fields, HeightType DEF ChainInv, Loadable, T
<1>2. db_blocks \subseteq Block /\ NoBlock \notin Block
  BY TreeAssumption DEF ChainInv, TypeOK
<1>3. ASSUME NEW h \in 0 .. Height(T), DiskBlock(h) # NoBlock
      PROVE  /\ DiskBlock(h) = Anc(T, h) /\ DiskBlock(h) \in db_blocks
             /\ DiskBlock(h) \in Block /\ Height(DiskBlock(h)) = h
  <2>1. DiskBlock(h) = db_heights[h] /\ DiskBlock(h) \in db_blocks
    BY <1>3 DEF DiskBlock
  <2>2. db_heights[h] = Anc(T, h)
    BY DEF ChainInv, DiskOK
  <2>3. Height(Anc(T, h)) = h
    BY <1>1, AncType
  <2> QED
    BY <1>2, <2>1, <2>2, <2>3
<1>4. DiskBlock(0) # NoBlock
  BY <1>2 DEF Loadable, DiskBlock, ChainInv, DiskOK
<1>5. DiskBlock(Height(T)) # NoBlock
  <2>1. Height(T) \in 0 .. Height(T)
    BY <1>1, SMTT(30)
  <2>2. db_heights[Height(T)] = T
    BY <1>1, <2>1, AncSelf DEF ChainInv, DiskOK
  <2> QED
    BY <1>2, <2>2 DEF Loadable, DiskBlock, T
<1> QED
  BY <1>1, <1>3, <1>4, <1>5

\* The block the replay compares the parent of the block at h with is stored, and no
\* block between the two is.
LEMMA LastBelowFacts ==
    ASSUME HeightFacts, ChainInv, Loadable, NEW h \in 1 .. Height(T)
    PROVE  /\ LastBelow(h) \in 0 .. h - 1
           /\ DiskBlock(LastBelow(h)) # NoBlock
           /\ \A j \in LastBelow(h) + 1 .. h - 1 : DiskBlock(j) = NoBlock
<1> DEFINE S == {k \in 0 .. h - 1 : DiskBlock(k) # NoBlock}
<1>1. Height(T) \in Nat /\ T \in Block /\ DiskBlock(0) # NoBlock
  BY StoredBlocks
<1>2. S \in SUBSET Heights
  <2>1. \A k \in 0 .. h - 1 : k \in 0 .. Height(T)
    BY <1>1, SMTT(30)
  <2> QED
    BY <1>1, <2>1, AncType
<1>3. 0 \in S
  BY <1>1, SMTT(30)
<1> HIDE DEF S
<1>4. PICK k \in S : \A j \in S : j <= k
  BY <1>2, <1>3 DEF HeightFacts
<1>5. /\ k \in 0 .. h - 1 /\ DiskBlock(k) # NoBlock
      /\ \A j \in k + 1 .. h - 1 : DiskBlock(j) = NoBlock
  <2>1. k \in 0 .. h - 1 /\ DiskBlock(k) # NoBlock
    BY DEF S
  <2>2. ASSUME NEW j \in k + 1 .. h - 1, DiskBlock(j) # NoBlock PROVE FALSE
    <3>1. j \in 0 .. h - 1 /\ ~(j <= k)
      BY <2>1, SMTT(30)
    <3> QED
      BY <1>4, <2>2, <3>1 DEF S
  <2> QED
    BY <2>1, <2>2
<1> QED
  BY <1>5 DEF LastBelow

\* A stored block without a broken link below it has its whole chain stored.
LEMMA StoredChain ==
    ASSUME HeightFacts, ChainInv, Loadable, NEW n \in 0 .. Height(T), DiskBlock(n) # NoBlock,
           \A h \in BrokenLinks : h > n
    PROVE  \A j \in 0 .. n : DiskBlock(j) # NoBlock
<1> DEFINE M == {j \in 0 .. n : DiskBlock(j) = NoBlock}
<1> SUFFICES ASSUME M # {} PROVE FALSE
  OBVIOUS
<1>1. /\ T \in Block /\ Height(T) \in Nat /\ db_state.height = Height(T)
      /\ \A h \in 0 .. Height(T) : DiskBlock(h) # NoBlock =>
           DiskBlock(h) = Anc(T, h) /\ Height(DiskBlock(h)) = h
  BY StoredBlocks
<1>2. M \in SUBSET Heights
  <2>1. \A k \in 0 .. n : k \in 0 .. Height(T)
    BY <1>1, SMTT(30)
  <2> QED
    BY <1>1, <2>1, AncType
<1> HIDE DEF M
<1>3. PICK m \in M : \A j \in M : j <= m
  BY <1>2 DEF HeightFacts
<1>4. m \in 0 .. n /\ DiskBlock(m) = NoBlock /\ m # n
  BY DEF M
<1>5. /\ m \in Nat /\ m + 1 \in 0 .. n /\ m + 1 \in 1 .. Height(T) /\ m < Height(T)
      /\ m + 1 \in 0 .. Height(T) /\ (m + 1) - 1 = m /\ ~(m + 1 <= m) /\ ~(m + 1 > n)
  BY <1>1, <1>4, SMTT(30)
<1>6. DiskBlock(m + 1) # NoBlock
  BY <1>3, <1>5 DEF M
<1>7. Parent(DiskBlock(m + 1)) = DiskBlock(LastBelow(m + 1))
  BY <1>1, <1>5, <1>6 DEF BrokenLinks
<1>8. Parent(DiskBlock(m + 1)) = Anc(T, m) /\ Height(Anc(T, m)) = m
  BY <1>1, <1>5, <1>6, CursorStep, SMTT(30)
<1>9. LastBelow(m + 1) \in 0 .. m /\ DiskBlock(LastBelow(m + 1)) # NoBlock
  BY <1>5, LastBelowFacts
<1>10. LastBelow(m + 1) \in 0 .. Height(T)
  BY <1>1, <1>5, <1>9, SMTT(30)
<1>11. Height(DiskBlock(LastBelow(m + 1))) = LastBelow(m + 1)
  BY <1>1, <1>9, <1>10
<1>12. LastBelow(m + 1) = m
  BY <1>7, <1>8, <1>11
<1> QED
  BY <1>4, <1>9, <1>12

-----------------------------------------------------------------------------
(* The theorems.                                                           *)

\* Every action of the node preserves the invariant.
LEMMA NextInv ==
    ASSUME HeightFacts, ChainInv, [Next]_vars
    PROVE  ChainInv'
\* persist_output_index leaves a well-typed output index on disk.
<1>PersistType. ASSUME NEW rows \in [Address -> Rows], NEW b \in Block
                PROVE  PersistOutputs(rows, b) \in [Address -> Rows]
  <2> USE <1>PersistType
  <2>1. ASSUME NEW s \in Address, Pays(b, s) PROVE Row(PaidBy(b, s), Height(b)) \in Rows
    BY <2>1, PaidByType, HeightType, RowType
  <2> QED
    BY <2>1 DEF PersistOutputs

\* Adding or taking back the reward and the burn of a block keeps stats well typed.
<1>MintedType. ASSUME NEW s \in StatsType, NEW b \in Block
               PROVE  Minted(s, b) \in StatsType /\ Unminted(s, b) \in StatsType
  <2> USE <1>MintedType
  <2>1. Reward(Height(b)) \in Int /\ Burn(b) \in Int
    BY WorkType
  <2>2. /\ s.total_difficulty \in Int /\ s.total_supply \in Int
        /\ s.total_burned \in Int /\ s.total_blocks \in Int
    BY DEF StatsType
  <2>3. /\ s.total_supply + Reward(Height(b)) \in Int /\ s.total_burned + Burn(b) \in Int
        /\ s.total_supply - Reward(Height(b)) \in Int /\ s.total_burned - Burn(b) \in Int
    BY <2>1, <2>2, SMTT(30)
  <2> QED
    BY <2>3 DEF Minted, Unminted, StatsType

\* apply_batch of a connected block keeps the UTXO set well typed.
<1>ConnectType. ASSUME TypeOK, NEW b \in Block, UtxoConnect(b)
                PROVE  /\ outputs' \subseteq Tx
                       /\ stealth_index' \in [Address -> Tx \cup {NoTx}]
                       /\ key_images' \subseteq KeyImage
  <2> USE <1>ConnectType
  <2>1. ASSUME NEW s \in Address, Pays(b, s) PROVE PaidBy(b, s) \in Tx
    BY <2>1, PaidByType
  <2>2. outputs \subseteq Tx /\ stealth_index \in [Address -> Tx \cup {NoTx}] /\ key_images \subseteq KeyImage
    BY DEF TypeOK
  <2> QED
    BY <2>1, <2>2, ImagesType, TxAssumption DEF UtxoConnect

\* apply_batch of a disconnected block keeps the UTXO set and the disk rows well typed.
<1>DisconnectType. ASSUME TypeOK, NEW b \in Block, UtxoDisconnect(b)
                   PROVE  /\ outputs' \subseteq Tx
                          /\ stealth_index' \in [Address -> Tx \cup {NoTx}]
                          /\ key_images' \subseteq KeyImage
                          /\ db_outputs' \in [Address -> Rows]
  <2> USE <1>DisconnectType
  <2>1. /\ outputs \subseteq Tx /\ stealth_index \in [Address -> Tx \cup {NoTx}]
        /\ key_images \subseteq KeyImage /\ db_outputs \in [Address -> Rows]
    BY DEF TypeOK
  <2> QED
    BY <2>1, RowType DEF UtxoDisconnect

\* The sum of a walk over a fork, complete or cut short, is an integer.
<1>ForkWorksType. ASSUME NEW b \in Block
                  PROVE  ForkWorks(b) \subseteq Int
  <2> USE <1>ForkWorksType
  <2>1. \A a \in Block : CumWork(a) \in Int
    BY WorkType
  <2>2. \A k \in Heights : Anc(b, k) \in Block
    BY AncestorAssumption
  <2> QED
    BY <2>1, <2>2, SMTT(30) DEF ForkWorks

\* Writing the next block of the new branch into the memory index leaves an index of
\* the chain of that block.
<1>ConnectIndex. ASSUME phase = "connect",
                        height_to_hash' = [height_to_hash EXCEPT ![job.at + 1] = NextForkBlock]
                 PROVE  \A k \in Heights : height_to_hash'[k] # NoBlock =>
                          k <= Height(NextForkBlock) /\ height_to_hash'[k] = Anc(NextForkBlock, k)
  <2> USE <1>ConnectIndex
  <2> DEFINE n == NextForkBlock
             c == Anc(job.block, job.at)
  <2>1. /\ Height(n) = job.at + 1 /\ job.at + 1 \in Heights /\ job.at + 1 \in Nat /\ job.at \in Nat
        /\ Anc(n, job.at + 1) = n /\ Height(c) = job.at
        /\ \A k \in 0 .. job.at : Anc(n, k) = Anc(c, k)
    BY NextForkFacts, ReorgFacts
  <2>2. height_to_hash \in [Heights -> Block \cup {NoBlock}]
    BY DEF ChainInv, TypeOK
  <2>3. \A k \in Heights : height_to_hash[k] # NoBlock => k <= Height(c) /\ height_to_hash[k] = Anc(c, k)
    BY DEF ChainInv, IndexOK, Applied
  <2> HIDE DEF n, c
  <2>4. ASSUME NEW k \in Heights, height_to_hash'[k] # NoBlock
        PROVE  k <= Height(n) /\ height_to_hash'[k] = Anc(n, k)
    <3>1. CASE k = job.at + 1
      BY <2>1, <2>2, <3>1, SMTT(30) DEF n
    <3>2. CASE k # job.at + 1
      <4>1. height_to_hash'[k] = height_to_hash[k]
        BY <2>2, <3>2
      <4>2. k <= job.at /\ height_to_hash[k] = Anc(c, k)
        BY <2>1, <2>3, <2>4, <4>1
      <4>3. k \in 0 .. job.at /\ k <= Height(n)
        BY <2>1, <4>2, SMTT(30) DEF Heights
      <4> QED
        BY <2>1, <4>1, <4>2, <4>3
    <3> QED
      BY <3>1, <3>2
  <2> QED
    BY <2>4 DEF n

\* The statistics of the adopted chain are numbers.
<1>AdoptStatsType. ASSUME Reorging
                   PROVE  [Minted(stats, job.block) EXCEPT
                             !.total_difficulty = job.work,
                             !.total_blocks = @ - Cardinality(job.disconnected \cap cache)
                                                + (Height(job.block) - job.fork)] \in StatsType
  <2> USE <1>AdoptStatsType
  <2> DEFINE m == Minted(stats, job.block)
             c == Cardinality(job.disconnected \cap cache)
  <2>1. /\ job.block \in Block /\ T \in Block /\ Height(job.block) \in Nat /\ job.fork \in Nat
        /\ job.disconnected \subseteq Branch(T)
    BY ReorgFacts
  <2>2. c \in Nat
    BY <2>1 DEF HeightFacts
  <2>3. m \in StatsType
    BY <2>1, <1>MintedType DEF ChainInv, TypeOK
  <2>4. job.work \in Int
    BY Fields DEF ChainInv
  <2> HIDE DEF m, c
  <2>5. m.total_blocks \in Int
    BY <2>3 DEF StatsType
  <2>6. m.total_blocks - c + (Height(job.block) - job.fork) \in Int
    BY <2>1, <2>2, <2>5, SMTT(30)
  <2> QED
    BY <2>3, <2>4, <2>6 DEF StatsType, m, c

\* The rows and heights apply_reorg_atomic writes are those of blocks of the new
\* branch, or the ones it leaves in place.
<1>ReorgRowsType. ASSUME TypeOK, NEW b \in Block, NEW f \in Nat, NEW gone
                  PROVE  ReorgRows(b, f, gone) \in [Address -> Rows]
  <2> USE <1>ReorgRowsType
  <2> DEFINE adders(s) == {h \in f + 1 .. Height(b) : Pays(Anc(b, h), s)}
             last(s) == Highest(adders(s))
  <2>1. \A h \in f + 1 .. Height(b) : h \in 0 .. Height(b)
    BY HeightType, SMTT(30)
  <2>2. ASSUME NEW s \in Address, adders(s) # {}
        PROVE  Row(PaidBy(Anc(b, last(s)), s), last(s)) \in Rows
    <3>1. adders(s) \in SUBSET Heights
      BY <2>1, AncType
    <3>2. last(s) \in adders(s)
      BY <2>2, <3>1, HighestType
    <3> HIDE DEF last
    <3>3. last(s) \in 0 .. Height(b) /\ Pays(Anc(b, last(s)), s)
      BY <2>1, <3>2
    <3>4. last(s) \in Heights /\ Anc(b, last(s)) \in Block
      BY <3>3, AncType
    <3> QED
      BY <3>3, <3>4, PaidByType, RowType
  <2>3. db_outputs \in [Address -> Rows] /\ NoRow \in Rows
    BY RowType DEF TypeOK
  <2> QED
    BY <2>2, <2>3 DEF ReorgRows

\* The tx index apply_reorg_atomic leaves on disk is well typed.
<1>ReorgTxsType. ASSUME TypeOK, NEW b \in Block, NEW f \in Nat, NEW gone
                 PROVE  ReorgTxs(b, f, gone) \in [Tx -> Heights \cup {NoHeight}]
  <2> USE <1>ReorgTxsType
  <2> DEFINE added(t) == {h \in f + 1 .. Height(b) : t \in Txs(Anc(b, h))}
  <2>1. \A h \in f + 1 .. Height(b) : h \in 0 .. Height(b)
    BY HeightType, SMTT(30)
  <2>2. ASSUME NEW t \in Tx, added(t) # {}
        PROVE  Highest(added(t)) \in Heights
    <3>1. added(t) \in SUBSET Heights
      BY <2>1, AncType
    <3> QED
      BY <2>2, <3>1, HighestType
  <2>3. db_txs \in [Tx -> Heights \cup {NoHeight}]
    BY DEF TypeOK
  <2> QED
    BY <2>2, <2>3 DEF ReorgTxs

\* Every block a reorg has undone lies above the fork point.
<1>UndoneAboveFork. ASSUME Reorging
                    PROVE  {o \in Undone : Height(o) > job.fork} = Undone
  BY <1>UndoneAboveFork, ReorgFacts DEF Undone

\* The total recomputed at load is the work of the chain of the tip, or the stored one.
<1>RecomputedType. ASSUME Loadable
                   PROVE  RecomputedWork \in Int
  <2> USE <1>RecomputedType
  <2>1. /\ T \in Block /\ db_state.height = Height(T) /\ Height(T) \in Nat
        /\ \A h \in 0 .. Height(T) : DiskBlock(h) # NoBlock => DiskBlock(h) = Anc(T, h)
    BY StoredBlocks
  <2>2. CASE \A h \in 1 .. db_state.height : DiskBlock(h) # NoBlock
    <3>1. \A h \in 1 .. Height(T) : DiskBlock(h) = Anc(T, h)
      BY <2>1, <2>2, SMTT(30)
    <3>2. [h \in 1 .. db_state.height |-> Difficulty(DiskBlock(h))]
            = [h \in 1 .. Height(T) |-> Difficulty(Anc(T, h))]
      BY <2>1, <3>1
    <3>3. CumWork(T) = 1 + SumFunction([h \in 1 .. Height(T) |-> Difficulty(Anc(T, h))])
      BY <2>1, WorkAssumption
    <3>4. RecomputedWork = CumWork(T)
      BY <2>2, <3>2, <3>3 DEF RecomputedWork
    <3> QED
      BY <2>1, <3>4, WorkType
  <2>3. CASE ~ \A h \in 1 .. db_state.height : DiskBlock(h) # NoBlock
    BY <2>3, Fields DEF RecomputedWork, ChainInv
  <2> QED
    BY <2>2, <2>3

\* What rebuild_utxo_set leaves: an index of stored blocks of the chain, the key
\* images of every block it replayed, and values of the right types.
<1>ReplayFacts. ASSUME Loadable, NEW last \in 0 .. Height(T), Replay(last)
                PROVE  /\ cache' \subseteq db_blocks
                       /\ height_to_hash' \in [Heights -> Block \cup {NoBlock}]
                       /\ \A h \in Heights : height_to_hash'[h] # NoBlock =>
                            h \in 0 .. last /\ DiskBlock(h) # NoBlock /\ height_to_hash'[h] = Anc(T, h)
                       /\ stats' \in StatsType
                       /\ outputs' \subseteq Tx /\ key_images' \subseteq KeyImage
                       /\ stealth_index' \in [Address -> Tx \cup {NoTx}]
                       /\ db_outputs' \in [Address -> Rows]
                       /\ \A h \in 0 .. last : DiskBlock(h) # NoBlock => BlockKeyImages(Anc(T, h)) \subseteq key_images'
  <2> USE <1>ReplayFacts
  <2> DEFINE replayed == {h \in 0 .. last : DiskBlock(h) # NoBlock}
             cached   == {h \in replayed : h >= SatSub(db_state.height, KeepBlocks)}
             payers(s) == {h \in replayed : Pays(DiskBlock(h), s)}
             first(s)  == Lowest(payers(s))
             rows      == [s \in Address |-> IF payers(s) = {} THEN NoRow
                                              ELSE Row(PaidBy(DiskBlock(first(s)), s), first(s))]
  <2>1. /\ cache' = {DiskBlock(h) : h \in cached}
        /\ height_to_hash' = [h \in Heights |-> IF h \in cached THEN DiskBlock(h) ELSE NoBlock]
        /\ stats' = Stats(RecomputedWork, db_state.total_supply, db_state.total_burned,
                          Cardinality(replayed))
        /\ outputs' = UNION {Txs(DiskBlock(h)) : h \in replayed}
        /\ key_images' = UNION {BlockKeyImages(DiskBlock(h)) : h \in replayed}
        /\ stealth_index' = [s \in Address |-> rows[s].tx]
        /\ db_outputs' = IF db_state.height > 0 /\ \A s \in Address : db_outputs[s] = NoRow
                           THEN rows ELSE db_outputs
    BY DEF Replay
  <2>2. T \in Block /\ Height(T) \in Nat
    BY StoredBlocks
  <2>3. \A h \in 0 .. last : h \in 0 .. Height(T) /\ h \in Heights
    <3>1. \A h \in 0 .. last : h \in 0 .. Height(T)
      BY <2>2, SMTT(30)
    <3> QED
      BY <2>2, <3>1, AncType
  <2>4. \A h \in replayed : /\ h \in 0 .. last /\ h \in Heights /\ DiskBlock(h) # NoBlock
                             /\ DiskBlock(h) = Anc(T, h) /\ DiskBlock(h) \in db_blocks
                             /\ DiskBlock(h) \in Block
    BY <2>3, StoredBlocks
  <2>5. cached \subseteq replayed
    OBVIOUS
  <2>6. Cardinality(replayed) \in Nat
    <3>1. replayed \in SUBSET Heights
      BY <2>3
    <3> HIDE DEF replayed
    <3> QED
      BY <3>1 DEF HeightFacts
  <2>7. rows \in [Address -> Rows]
    <3>1. ASSUME NEW s \in Address, payers(s) # {}
          PROVE  Row(PaidBy(DiskBlock(first(s)), s), first(s)) \in Rows
      <4>1. payers(s) \in SUBSET Heights
        BY <2>4
      <4>2. first(s) \in payers(s)
        BY <3>1, <4>1, LowestType
      <4> HIDE DEF first
      <4>3. first(s) \in Heights /\ DiskBlock(first(s)) \in Block /\ Pays(DiskBlock(first(s)), s)
        BY <2>4, <4>2
      <4> QED
        BY <4>3, PaidByType, RowType
    <3> HIDE DEF first, payers
    <3> QED
      BY <3>1, RowType
  <2> HIDE DEF replayed, cached, rows
  <2>8. stats' \in StatsType
    <3>1. /\ RecomputedWork \in Int /\ db_state.total_supply \in Int
          /\ db_state.total_burned \in Int /\ Cardinality(replayed) \in Int
      BY <2>6, <1>RecomputedType, Fields, SMTT(30) DEF ChainInv
    <3> QED
      BY <2>1, <3>1 DEF Stats, StatsType
  <2>9. outputs' \subseteq Tx /\ key_images' \subseteq KeyImage
    BY <2>1, <2>4, ImagesType, TxAssumption
  <2>10. stealth_index' \in [Address -> Tx \cup {NoTx}]
    BY <2>1, <2>7 DEF Rows
  <2>11. db_outputs' \in [Address -> Rows]
    BY <2>1, <2>7 DEF ChainInv, TypeOK
  <2>12. cache' \subseteq db_blocks
    BY <2>1, <2>4, <2>5
  <2>13. /\ height_to_hash' \in [Heights -> Block \cup {NoBlock}]
         /\ \A h \in Heights : height_to_hash'[h] # NoBlock =>
              h \in 0 .. last /\ DiskBlock(h) # NoBlock /\ height_to_hash'[h] = Anc(T, h)
    BY <2>1, <2>4, <2>5
  <2>14. \A h \in 0 .. last : DiskBlock(h) # NoBlock => BlockKeyImages(Anc(T, h)) \subseteq key_images'
    <3>1. \A h \in 0 .. last : DiskBlock(h) # NoBlock => h \in replayed
      BY DEF replayed
    <3> QED
      BY <2>1, <2>4, <3>1
  <2> QED
    BY <2>8, <2>9, <2>10, <2>11, <2>12, <2>13, <2>14

\* A handler that stores a block and returns to idle disturbs nothing.
<1>Store. ASSUME phase = "idle", NEW b \in Block, NoDuplicateKeyImages(b),
                 cache' = cache \cup {b},
                 db_blocks' = db_blocks \cup {b} \/ db_blocks' = db_blocks,
                 UNCHANGED <<height_to_hash, tip, stats, utxos, db_heights, db_state, db_outputs, db_txs>>,
                 UNCHANGED <<phase, job, crashes>>
          PROVE  ChainInv'
  <2> USE <1>Store
  <2>1. TypeOK'
    BY DEF ChainInv, TypeOK, utxos
  <2>2. DiskOK'
    BY DEF ChainInv, DiskOK, T
  <2>3. TipOK' /\ JobOK'
    BY DEF ChainInv, TipOK, JobOK, Reorging, T
  <2>4. IndexOK'
    BY DEF ChainInv, IndexOK, Applied
  <2>5. KnownOK'
    BY DEF ChainInv, KnownOK
  <2>6. SpentOK'
    BY DEF ChainInv, SpentOK, utxos
  <2>7. NoDoubleSpend'
    BY DEF ChainInv, NoDoubleSpend
  <2> QED
    BY <2>1, <2>2, <2>3, <2>4, <2>5, <2>6, <2>7 DEF ChainInv

\* A fork block that is kept and not adopted preserves the invariant.
<1>StoreFork. ASSUME NEW b \in Block, StoreFork(b)
              PROVE  ChainInv'
  BY <1>StoreFork, <1>Store DEF StoreFork, Offered, Store

\* A failing db.blocks.insert, which leaves the block in the cache, preserves it.
<1>StoreFails. ASSUME NEW b \in Block, StoreFails(b)
               PROVE  ChainInv'
  BY <1>StoreFails, <1>Store DEF StoreFails, Offered, disk

\* Storing a child of the tip preserves the invariant: the block was validated
\* against the UTXO set of the tip, so it spends nothing its chain has spent.
<1>StoreMain. ASSUME NEW b \in Block, StoreMain(b)
              PROVE  ChainInv'
  <2> USE <1>StoreMain
  <2>1. CASE b \notin ShieldedOk
    BY <2>1, <1>Store DEF StoreMain, Offered, Store
  <2>2. CASE b \in ShieldedOk
    <3>1. /\ phase = "idle" /\ phase' = "extend" /\ job' = [NoJob EXCEPT !.block = b]
          /\ cache' = cache \cup {b} /\ db_blocks' = db_blocks \cup {b}
          /\ UNCHANGED <<height_to_hash, tip, stats, utxos, db_heights, db_state, db_outputs, db_txs, crashes>>
          /\ Parent(b) = tip.hash /\ NoDuplicateKeyImages(b)
          /\ BlockKeyImages(b) \cap key_images = {}
          /\ b \notin db_blocks
      BY <2>2 DEF StoreMain, Offered, Store, ContextValid, Known
    <3>2. T' = T /\ tip.hash = T /\ tip = Tip(T, db_state.height) /\ SpentOn(T) \subseteq key_images
      BY <3>1, SMTT(30) DEF ChainInv, TipOK, SpentOK, T, Tip
    <3>3. TypeOK'
      <4>1. job' \in JobType
        BY <3>1, NoJobType
      <4> QED
        BY <3>1, <4>1 DEF ChainInv, TypeOK, utxos
    <3>4. DiskOK'
      BY <3>1, <3>2 DEF ChainInv, DiskOK
    <3>5. TipOK'
      BY <3>1, <3>2 DEF TipOK
    <3>6. JobOK'
      <4>1. job'.block = b /\ b # Genesis
        BY <3>1 DEF NoJob, ChainInv, DiskOK
      <4>2. SpendsOnce(b)
        BY <3>1, <3>2 DEF SpendsOnce
      <4> QED
        BY <3>1, <3>2, <4>1, <4>2 DEF JobOK, Reorging
    <3>7. IndexOK'
      BY <3>1 DEF ChainInv, IndexOK, Applied
    <3>8. KnownOK'
      BY <3>1 DEF ChainInv, KnownOK
    <3>9. SpentOK'
      BY <3>1 DEF ChainInv, SpentOK, utxos
    <3>10. NoDoubleSpend'
      BY <3>1 DEF ChainInv, NoDoubleSpend
    <3> QED
      BY <3>3, <3>4, <3>5, <3>6, <3>7, <3>8, <3>9, <3>10 DEF ChainInv
  <2> QED
    BY <2>1, <2>2

\* The in-memory extension of the tip, eviction of old blocks included, preserves
\* the invariant.
<1>ExtendTip. ASSUME ExtendTip
              PROVE  ChainInv'
  <2> USE <1>ExtendTip
  <2> DEFINE b == job.block
             index == [height_to_hash EXCEPT ![Height(b)] = b]
             gone == Evicted(cache, index, Height(b))
  <2>1. /\ b \in Block /\ b # Genesis /\ Parent(b) = T /\ SpendsOnce(b) /\ phase = "extend"
        /\ T \in Block /\ Height(b) \in Nat /\ Height(b) \in Heights /\ Height(T) = Height(b) - 1
        /\ tip.hash = T /\ SpentOn(T) \subseteq key_images
        /\ \A h \in 0 .. Height(b) - 1 : Anc(T, h) = Anc(b, h)
        /\ Anc(b, Height(b)) = b
    <3>1. /\ b \in Block /\ b # Genesis /\ Parent(b) = T /\ SpendsOnce(b) /\ phase = "extend"
          /\ T \in Block
      BY Fields DEF ExtendTip, ChainInv, JobOK
    <3>2. tip.hash = T /\ SpentOn(T) \subseteq key_images
      BY <3>1, SMTT(30) DEF ChainInv, TipOK, SpentOK, Tip
    <3> QED
      BY <3>1, <3>2, ChildOf, SMTT(30)
  <2>2. /\ tip' = Tip(b, Height(b))
        /\ stats' = [Minted(stats, b) EXCEPT !.total_difficulty = @ + Difficulty(b),
                                             !.total_blocks = @ + 1]
        /\ UtxoConnect(b)
        /\ cache' = cache \ {index[h] : h \in gone}
        /\ height_to_hash' = [h \in Heights |-> IF h \in gone THEN NoBlock ELSE index[h]]
        /\ phase' = "commit"
        /\ UNCHANGED <<disk, job, crashes>>
    BY DEF ExtendTip
  <2>3. index \in [Heights -> Block \cup {NoBlock}]
    BY <2>1 DEF ChainInv, TypeOK
  <2> HIDE DEF b, gone
  <2>4. TypeOK'
    <3>1. stats' \in StatsType
      <4>1. Minted(stats, b) \in StatsType
        BY <2>1, <1>MintedType DEF ChainInv, TypeOK
      <4>2. Difficulty(b) \in Int
        BY <2>1, WorkType
      <4>3. /\ Minted(stats, b).total_difficulty + Difficulty(b) \in Int
            /\ Minted(stats, b).total_blocks + 1 \in Int
        BY <4>1, <4>2, SMTT(30) DEF StatsType
      <4> QED
        BY <2>2, <4>1, <4>3 DEF StatsType
    <3>2. tip' \in TipType
      BY <2>1, <2>2 DEF Tip, TipType
    <3>3. height_to_hash' \in [Heights -> Block \cup {NoBlock}]
      BY <2>2, <2>3
    <3>4. /\ outputs' \subseteq Tx /\ key_images' \subseteq KeyImage
          /\ stealth_index' \in [Address -> Tx \cup {NoTx}]
      BY <2>1, <2>2, <1>ConnectType DEF ChainInv
    <3> QED
      BY <2>2, <3>1, <3>2, <3>3, <3>4 DEF ChainInv, TypeOK, disk
  <2>5. T' = T /\ job' = job /\ db_state' = db_state
    BY <2>2 DEF T, disk
  <2>6. DiskOK'
    BY <2>1, <2>2, <2>5 DEF ChainInv, DiskOK, disk
  <2>7. TipOK'
    BY <2>2, <2>5 DEF TipOK, b
  <2>8. JobOK'
    BY <2>1, <2>2, <2>5 DEF JobOK, Reorging, b
  <2>9. IndexOK'
    <3>1. Applied' = b
      BY <2>2 DEF Applied, Tip
    <3>2. ASSUME NEW h \in Heights, height_to_hash'[h] # NoBlock
          PROVE  h <= Height(b) /\ height_to_hash'[h] = Anc(b, h)
      <4>1. height_to_hash'[h] = index[h]
        BY <2>2, <3>2
      <4>2. CASE h = Height(b)
        BY <2>1, <4>1, <4>2, SMTT(30) DEF ChainInv, TypeOK
      <4>3. CASE h # Height(b)
        <5>1. height_to_hash'[h] = height_to_hash[h]
          BY <2>1, <4>1, <4>3 DEF ChainInv, TypeOK
        <5>2. Applied = T
          BY <2>1 DEF Applied
        <5>3. h <= Height(T) /\ height_to_hash[h] = Anc(T, h)
          BY <2>1, <3>2, <5>1, <5>2 DEF ChainInv, IndexOK
        <5>4. h \in 0 .. Height(b) - 1
          BY <2>1, <5>3, SMTT(30) DEF Heights
        <5> QED
          BY <2>1, <5>1, <5>3, <5>4, SMTT(30)
      <4> QED
        BY <4>2, <4>3
    <3> QED
      BY <3>1, <3>2 DEF IndexOK
  <2>10. KnownOK'
    BY <2>2 DEF ChainInv, KnownOK, disk
  <2>11. SpentOK'
    <3>1. SpentOn(b) \subseteq key_images'
      BY <2>1, <2>2, SpentParent DEF UtxoConnect
    <3> QED
      BY <2>2, <3>1 DEF SpentOK, Tip
  <2>12. NoDoubleSpend'
    <3>1. \A a \in Branch(b) : SpendsOnce(a)
      BY <2>1, BranchParent, SMTT(30) DEF ChainInv, NoDoubleSpend
    <3> QED
      BY <2>2, <2>5, <3>1 DEF ChainInv, NoDoubleSpend, Tip
  <2> QED
    BY <2>4, <2>6, <2>7, <2>8, <2>9, <2>10, <2>11, <2>12 DEF ChainInv

\* commit_block_atomic preserves the invariant: the disk moves to the tip of memory.
<1>CommitBlock. ASSUME CommitBlock
                PROVE  ChainInv'
  <2> USE <1>CommitBlock
  <2> DEFINE b == job.block
  <2>1. /\ b \in Block /\ b # Genesis /\ Parent(b) = T /\ SpendsOnce(b) /\ phase = "commit"
        /\ T \in Block /\ Height(b) \in Nat /\ Height(b) \in Heights /\ Height(T) = Height(b) - 1
        /\ tip.hash = b /\ tip = Tip(b, Height(b)) /\ SpentOn(b) \subseteq key_images
        /\ \A h \in 0 .. Height(b) - 1 : Anc(T, h) = Anc(b, h)
        /\ Anc(b, Height(b)) = b
        /\ db_state.height = Height(T)
    <3>1. /\ b \in Block /\ b # Genesis /\ Parent(b) = T /\ SpendsOnce(b) /\ phase = "commit"
          /\ T \in Block
      BY Fields DEF CommitBlock, ChainInv, JobOK
    <3>2. /\ tip.hash = b /\ tip = Tip(b, Height(b)) /\ SpentOn(b) \subseteq key_images
          /\ db_state.height = Height(T)
      BY <3>1, SMTT(30) DEF ChainInv, TipOK, SpentOK, DiskOK, Tip
    <3> QED
      BY <3>1, <3>2, ChildOf, SMTT(30)
  <2>2. /\ db_heights' = [db_heights EXCEPT ![Height(b)] = b]
        /\ db_outputs' = PersistOutputs(db_outputs, b)
        /\ db_txs' = [t \in Tx |-> IF t \in Txs(b) THEN Height(b) ELSE db_txs[t]]
        /\ db_state' = State(b, Height(b), stats, Checkpoint(Height(b)))
        /\ phase' = "idle" /\ job' = NoJob
        /\ UNCHANGED <<memory, utxos, db_blocks, crashes>>
    BY DEF CommitBlock
  <2> HIDE DEF b
  <2>3. TypeOK'
    <3>1. db_outputs' \in [Address -> Rows]
      BY <2>1, <2>2, <1>PersistType DEF ChainInv, TypeOK
    <3>2. db_state' \in StateType
      <4>1. Height(b) \in Heights /\ Checkpoint(Height(b)) \in Heights
        BY <2>1, Fields DEF ChainInv, Checkpoint
      <4>2. /\ stats.total_difficulty \in Int /\ stats.total_supply \in Int
            /\ stats.total_burned \in Int
        BY Fields DEF ChainInv
      <4> QED
        BY <2>1, <2>2, <4>1, <4>2 DEF State, StateType
    <3>3. db_txs' \in [Tx -> Heights \cup {NoHeight}]
      BY <2>1, <2>2 DEF ChainInv, TypeOK
    <3>4. db_heights' \in [Heights -> Block \cup {NoBlock}]
      BY <2>1, <2>2 DEF ChainInv, TypeOK
    <3> QED
      BY <2>2, <3>1, <3>2, <3>3, <3>4, NoJobType DEF ChainInv, TypeOK, memory, utxos
  <2>4. T' = b /\ db_state'.height = Height(b)
    BY <2>2 DEF T, State
  <2>5. DiskOK'
    <3>1. \A h \in Heights : h # Height(b) => db_heights'[h] = db_heights[h]
      BY <2>1, <2>2 DEF ChainInv, TypeOK
    <3>2. db_heights'[Height(b)] = b
      BY <2>1, <2>2 DEF ChainInv, TypeOK
    <3>3. ASSUME NEW h \in 0 .. Height(b) PROVE db_heights'[h] = Anc(b, h)
      <4>1. CASE h = Height(b)
        BY <2>1, <3>2, <4>1
      <4>2. CASE h # Height(b)
        <5>1. h \in 0 .. Height(T) /\ h \in Heights /\ h \in 0 .. Height(b) - 1
          BY <2>1, <4>2, AncType, SMTT(30)
        <5> QED
          BY <2>1, <3>1, <4>2, <5>1 DEF ChainInv, DiskOK
      <4> QED
        BY <4>1, <4>2
    <3>4. ASSUME NEW h \in Heights, h > Height(b) PROVE db_heights'[h] = NoBlock
      BY <2>1, <3>1, <3>4, SMTT(30) DEF ChainInv, DiskOK, Heights
    <3>5. ASSUME NEW h \in Heights, db_heights'[h] # NoBlock PROVE Height(db_heights'[h]) = h
      BY <2>1, <3>1, <3>2, <3>5 DEF ChainInv, DiskOK
    <3> QED
      BY <2>1, <2>2, <2>4, <3>3, <3>4, <3>5 DEF ChainInv, DiskOK
  <2>6. TipOK'
    BY <2>1, <2>2, <2>4 DEF TipOK, memory
  <2>7. JobOK'
    BY <2>2 DEF JobOK, Reorging
  <2>8. IndexOK'
    BY <2>1, <2>2 DEF ChainInv, IndexOK, Applied, memory
  <2>9. KnownOK'
    BY <2>2 DEF ChainInv, KnownOK, memory
  <2>10. SpentOK'
    BY <2>1, <2>2 DEF SpentOK, memory, utxos
  <2>11. NoDoubleSpend'
    BY <2>1, <2>2, <2>4 DEF ChainInv, NoDoubleSpend, memory, T
  <2> QED
    BY <2>3, <2>5, <2>6, <2>7, <2>8, <2>9, <2>10, <2>11 DEF ChainInv

\* The start of a reorg preserves the invariant: the fork point found by
\* find_fork_point is a common ancestor of the new block and the tip.
<1>BeginReorg. ASSUME NEW b \in Block, BeginReorg(b)
               PROVE  ChainInv'
  <2> USE <1>BeginReorg
  <2>1. PICK work \in ForkWorks(b), f \in Heights :
          /\ IsForkPoint(b, f)
          /\ job' = [block |-> b, work |-> work, fork |-> f, at |-> tip.height, pre_tip |-> tip,
                     pre_stats |-> stats, disconnected |-> {}]
          /\ phase' = IF tip.height > f THEN "disconnect" ELSE "connect"
    BY DEF BeginReorg, Reorganises
  <2>2. /\ phase = "idle"
        /\ cache' = cache \cup {b} /\ db_blocks' = db_blocks \cup {b}
        /\ UNCHANGED <<height_to_hash, tip, stats, utxos, db_heights, db_state, db_outputs, db_txs, crashes>>
        /\ NoDuplicateKeyImages(b)
    BY DEF BeginReorg, Offered, Store
  <2>3. /\ T \in Block /\ T' = T /\ tip.hash = T /\ tip.height = Height(T) /\ tip = Tip(T, Height(T))
        /\ db_state.height = Height(T) /\ SpentOn(T) \subseteq key_images
        /\ Height(T) \in Nat /\ Height(b) \in Nat /\ f \in Nat
    <3>1. T \in Block /\ T' = T /\ f \in Nat
      BY <2>2, Fields, TreeAssumption, SMTT(30) DEF ChainInv, T, Heights
    <3>2. tip = Tip(T, db_state.height) /\ db_state.height = Height(T) /\ SpentOn(tip.hash) \subseteq key_images
      BY <2>2 DEF ChainInv, TipOK, DiskOK, SpentOK
    <3>3. tip.hash = T /\ tip.height = Height(T)
      BY <3>2 DEF Tip
    <3> QED
      BY <3>1, <3>2, <3>3, HeightType
  <2>4. f < Height(b) /\ MainHash(f) = Anc(b, f) /\ Anc(b, f) \in Block
    <3>1. f < Height(b) /\ MainHash(f) = Anc(b, f)
      BY <2>1 DEF IsForkPoint
    <3> QED
      BY <2>3, <3>1, AncType, SMTT(30)
  <2>5. f <= Height(T) /\ Anc(b, f) = Anc(T, f)
    <3>1. CASE height_to_hash[f] # NoBlock
      BY <2>2, <2>3, <2>4, <3>1 DEF MainHash, ChainInv, IndexOK, Applied
    <3>2. CASE height_to_hash[f] = NoBlock
      <4>1. db_heights[f] = Anc(b, f) /\ db_heights[f] # NoBlock
        BY <2>4, <3>2, TreeAssumption DEF MainHash
      <4>2. f <= Height(T)
        BY <2>3, <4>1, SMTT(30) DEF ChainInv, DiskOK
      <4> QED
        BY <2>3, <4>1, <4>2, SMTT(30) DEF ChainInv, DiskOK
    <3> QED
      BY <3>1, <3>2
  <2>6. TypeOK'
    <3>1. work \in Int
      BY <1>ForkWorksType
    <3>2. /\ tip \in TipType /\ stats \in StatsType
          /\ tip.height \in Heights
      BY Fields DEF ChainInv, TypeOK
    <3>3. job' \in JobType
      BY <2>1, <3>1, <3>2 DEF JobType
    <3>4. phase' \in {"disconnect", "connect"}
      BY <2>1
    <3> QED
      BY <2>2, <3>3, <3>4 DEF ChainInv, TypeOK, utxos
  <2>7. phase' \in {"disconnect", "connect"} /\ (phase' = "disconnect" => f < Height(T))
        /\ (phase' = "connect" => f = Height(T))
    BY <2>1, <2>3, <2>5, SMTT(30)
  <2>8. DiskOK'
    BY <2>2, <2>3, <2>7 DEF ChainInv, DiskOK
  <2>9. TipOK'
    BY <2>2, <2>3, <2>7 DEF TipOK, T
  <2>10. JobOK'
    <3>1. \A h \in f + 1 .. Height(b) : NoDuplicateKeyImages(Anc(b, h))
      <4>1. ASSUME NEW h \in f + 1 .. Height(b) PROVE NoDuplicateKeyImages(Anc(b, h))
        <5>1. CASE h = Height(b)
          BY <2>2, <5>1, AncSelf
        <5>2. CASE h # Height(b)
          <6>1. h \in f .. Height(b) - 1
            BY <2>3, <5>2, SMTT(30)
          <6> QED
            BY <2>1, <6>1 DEF IsForkPoint, Known, ChainInv, KnownOK
        <5> QED
          BY <5>1, <5>2
      <4> QED
        BY <4>1
    <3> QED
      BY <2>1, <2>3, <2>4, <2>5, <2>7, <3>1, SMTT(30) DEF JobOK, Reorging
  <2>11. IndexOK'
    <3>1. Applied' = T
      <4>1. CASE phase' = "disconnect"
        BY <2>1, <2>3, <4>1, AncSelf DEF Applied
      <4>2. CASE phase' = "connect"
        BY <2>1, <2>3, <2>5, <2>7, <4>2, AncSelf DEF Applied
      <4> QED
        BY <2>7, <4>1, <4>2
    <3> QED
      BY <2>2, <2>3, <3>1 DEF ChainInv, IndexOK, Applied
  <2>12. KnownOK'
    BY <2>2 DEF ChainInv, KnownOK
  <2>13. SpentOK'
    <3>1. Images(Branch(T)) \subseteq key_images'
      BY <2>2, <2>3 DEF SpentOn, utxos
    <3>2. Undone' = {} /\ Branch(T) \ {} = Branch(T)
      BY <2>1 DEF Undone
    <3>3. phase' = "connect" => job'.fork + 1 .. job'.at = {}
      BY <2>1, <2>3, <2>7, SMTT(30)
    <3> QED
      BY <2>3, <2>7, <3>1, <3>2, <3>3 DEF SpentOK
  <2>14. NoDoubleSpend'
    BY <2>2 DEF ChainInv, NoDoubleSpend
  <2> QED
    BY <2>6, <2>8, <2>9, <2>10, <2>11, <2>12, <2>13, <2>14 DEF ChainInv

\* One iteration of the disconnect loop, with the block cached or skipped, preserves
\* the invariant.
<1>Disconnect. ASSUME Disconnect
               PROVE  ChainInv'
  <2> USE <1>Disconnect
  <2> DEFINE h == job.at
             o == height_to_hash[h]
  <2>1. /\ IF o \in cache
              THEN UtxoDisconnect(o) /\ stats' = Unminted(stats, o)
              ELSE UNCHANGED <<utxos, stats, db_outputs>>
        /\ height_to_hash' = [height_to_hash EXCEPT ![h] = NoBlock]
        /\ job' = [job EXCEPT !.at = h - 1, !.disconnected = @ \cup ({o} \ {NoBlock})]
        /\ phase' = IF h - 1 > job.fork THEN "disconnect" ELSE "connect"
        /\ UNCHANGED <<cache, tip, db_blocks, db_heights, db_state, db_txs, crashes>>
        /\ phase = "disconnect" /\ Reorging
    BY DEF Disconnect, Reorging
  <2>2. /\ T \in Block /\ tip = Tip(T, Height(T)) /\ db_state.height = Height(T) /\ job.pre_tip = tip
        /\ tip.hash = T
        /\ job.block \in Block /\ Height(T) \in Nat /\ job.fork \in Nat /\ h \in Nat /\ h \in Heights
        /\ \A k \in 0 .. job.fork : Anc(job.block, k) = Anc(T, k)
        /\ job.fork < h /\ h <= Height(T)
    BY <2>1, ReorgFacts DEF ChainInv, JobOK
  <2>3. h \in 1 .. Height(T) /\ 0 \in 0 .. h - 1
    BY <2>2, SMTT(30)
  <2>4. /\ h - 1 \in Heights /\ Height(Anc(T, h)) = h /\ Height(Anc(T, h - 1)) = h - 1
        /\ Anc(Anc(T, h), h) = Anc(T, h) /\ Anc(T, h) \in Block /\ h \in 0 .. Height(T)
    BY <2>2, <2>3, CursorIndex
  <2>5. Applied = Anc(T, h)
    BY <2>1, <2>2 DEF Applied
  <2>6. o = NoBlock \/ (o = Anc(T, h) /\ o \in Block)
    BY <2>1, <2>2, <2>4, <2>5 DEF ChainInv, IndexOK
  <2> HIDE DEF o, h
  <2>7. o \in cache => o = Anc(T, h) /\ o \in Block
    BY <2>6, TreeAssumption DEF ChainInv, TypeOK
  <2>8. /\ job'.at = h - 1 /\ job'.fork = job.fork /\ job'.block = job.block
        /\ job'.pre_tip = job.pre_tip
        /\ job'.disconnected = job.disconnected \cup ({o} \ {NoBlock})
        /\ job' \in JobType
    BY <2>1, <2>4, <2>6 DEF ChainInv, TypeOK, JobType
  <2>9. TypeOK'
    <3>1. /\ stats' \in StatsType /\ outputs' \subseteq Tx /\ key_images' \subseteq KeyImage
          /\ stealth_index' \in [Address -> Tx \cup {NoTx}] /\ db_outputs' \in [Address -> Rows]
      <4>1. CASE o \in cache
        <5>1. o \in Block /\ UtxoDisconnect(o) /\ stats' = Unminted(stats, o) /\ TypeOK
          BY <2>1, <2>7, <4>1 DEF ChainInv
        <5>2. stats \in StatsType
          BY <5>1 DEF TypeOK
        <5> QED
          BY <5>1, <5>2, <1>DisconnectType, <1>MintedType
      <4>2. CASE o \notin cache
        BY <2>1, <4>2 DEF ChainInv, TypeOK, utxos
      <4> QED
        BY <4>1, <4>2
    <3>2. height_to_hash' \in [Heights -> Block \cup {NoBlock}]
      BY <2>1 DEF ChainInv, TypeOK
    <3> QED
      BY <2>1, <2>8, <3>1, <3>2 DEF ChainInv, TypeOK
  <2>10. T' = T
    BY <2>1 DEF T
  <2>11. phase' \in {"disconnect", "connect"}
         /\ (phase' = "disconnect" => h - 1 > job.fork)
         /\ (phase' = "connect" => h - 1 = job.fork)
    BY <2>1, <2>2, SMTT(30)
  <2>12. DiskOK'
    BY <2>1, <2>10, <2>11 DEF ChainInv, DiskOK
  <2>13. TipOK'
    BY <2>1, <2>2, <2>10, <2>11 DEF TipOK
  <2>14. JobOK'
    <3>1. job'.disconnected \subseteq {Anc(T, k) : k \in job.fork + 1 .. Height(T)}
      <4>1. h \in job.fork + 1 .. Height(T)
        BY <2>2, SMTT(30)
      <4> QED
        BY <2>1, <2>6, <2>8, <4>1 DEF ChainInv, JobOK
    <3>2. /\ job.block \in Block
          /\ job.pre_tip = Tip(T, Height(T))
          /\ job.fork < Height(job.block)
          /\ job.fork <= Height(T)
          /\ Anc(job.block, job.fork) = Anc(T, job.fork)
          /\ \A k \in job.fork + 1 .. Height(job.block) : NoDuplicateKeyImages(Anc(job.block, k))
      BY <2>1 DEF ChainInv, JobOK
    <3>3. job.fork <= h - 1 /\ h - 1 <= Height(T)
      BY <2>2, SMTT(30)
    <3> QED
      BY <2>8, <2>10, <2>11, <3>1, <3>2, <3>3 DEF JobOK, Reorging
  <2>15. IndexOK'
    <3>1. Applied' = Anc(T, h - 1)
      <4>1. CASE phase' = "disconnect"
        BY <2>2, <2>8, <4>1 DEF Applied
      <4>2. CASE phase' = "connect"
        BY <2>2, <2>8, <2>11, <4>2, SMTT(30) DEF Applied
      <4> QED
        BY <2>11, <4>1, <4>2
    <3>2. ASSUME NEW k \in Heights, height_to_hash'[k] # NoBlock
          PROVE  k <= h - 1 /\ height_to_hash'[k] = Anc(Anc(T, h - 1), k)
      <4>1. k # h /\ height_to_hash'[k] = height_to_hash[k]
        BY <2>1, <3>2 DEF ChainInv, TypeOK
      <4>2. k <= h /\ height_to_hash[k] = Anc(Anc(T, h), k)
        BY <2>1, <2>4, <2>5, <3>2, <4>1 DEF ChainInv, IndexOK
      <4>3. k \in 0 .. h - 1
        BY <2>2, <4>1, <4>2, SMTT(30) DEF Heights
      <4> QED
        BY <2>2, <2>3, <4>1, <4>2, <4>3, CursorIndex, SMTT(30)
    <3> QED
      BY <2>4, <3>1, <3>2 DEF IndexOK
  <2>16. KnownOK'
    BY <2>1 DEF ChainInv, KnownOK
  <2>17. SpentOK'
    <3>1. Images(Branch(T) \ Undone') \subseteq key_images'
      <4>1. Images(Branch(T) \ Undone) \subseteq key_images
        BY <2>1 DEF ChainInv, SpentOK
      <4>2. CASE o \in cache
        <5>1. Undone' = Undone \cup {o} /\ key_images' = key_images \ BlockKeyImages(o)
          BY <2>1, <2>7, <2>8, <4>2, TreeAssumption DEF Undone, UtxoDisconnect
        <5>2. o \in Branch(T) /\ \A a \in Branch(T) : SpendsOnce(a)
          BY <2>4, <2>7, <4>2 DEF Branch, ChainInv, NoDoubleSpend, T
        <5>3. ASSUME NEW a \in Branch(T), a # o PROVE BlockKeyImages(a) \cap BlockKeyImages(o) = {}
          BY <2>2, <5>2, <5>3, DisjointOnChain
        <5> QED
          BY <4>1, <5>1, <5>3 DEF Images
      <4>3. CASE o \notin cache
        <5>1. Undone' = Undone /\ key_images' = key_images
          BY <2>1, <2>8, <4>3 DEF Undone, utxos
        <5> QED
          BY <4>1, <5>1
      <4> QED
        BY <4>2, <4>3
    <3>2. phase' = "connect" => job'.fork + 1 .. job'.at = {}
      BY <2>2, <2>8, <2>11, SMTT(30)
    <3> QED
      BY <2>10, <2>11, <3>1, <3>2 DEF SpentOK
  <2>18. NoDoubleSpend'
    BY <2>1 DEF ChainInv, NoDoubleSpend
  <2> QED
    BY <2>9, <2>12, <2>13, <2>14, <2>15, <2>16, <2>17, <2>18 DEF ChainInv

\* Connecting a validated fork block below the new tip preserves the invariant.
<1>ConnectFork. ASSUME ConnectFork
                PROVE  ChainInv'
  <2> USE <1>ConnectFork
  <2> DEFINE n == NextForkBlock
  <2>1. /\ phase = "connect" /\ n # job.block /\ ContextValid(n)
        /\ UtxoConnect(n)
        /\ height_to_hash' = [height_to_hash EXCEPT ![job.at + 1] = n]
        /\ stats' = Minted(stats, n)
        /\ job' = [job EXCEPT !.at = @ + 1]
        /\ UNCHANGED <<cache, tip, disk, phase, crashes>>
    BY DEF ConnectFork, ValidInReorg
  <2>2. /\ n \in Block /\ Height(n) = job.at + 1 /\ SpendsOnce(n)
        /\ job.at + 1 \in Heights /\ job.at + 1 \in Nat /\ job.at + 1 < Height(job.block)
        /\ Reorging /\ n = Anc(job.block, job.at + 1) /\ Anc(n, job.at + 1) = n
    BY <2>1, NextForkFacts, ReorgFacts, SMTT(30) DEF NextForkBlock
  <2> HIDE DEF n
  <2>3. /\ job'.at = job.at + 1 /\ job'.fork = job.fork /\ job'.block = job.block
        /\ job'.pre_tip = job.pre_tip /\ job'.disconnected = job.disconnected
        /\ job' \in JobType
    <3>1. job \in JobType
      BY DEF ChainInv, TypeOK
    <3> QED
      BY <2>1, <2>2, <3>1 DEF JobType
  <2>4. phase' = "connect" /\ phase' = phase /\ T' = T /\ Undone' = Undone /\ db_state' = db_state /\ tip' = tip
    BY <2>1, <2>3 DEF T, Undone, disk
  <2>5. TypeOK'
    <3>1. TypeOK
      BY DEF ChainInv
    <3>2. stats' \in StatsType
      BY <2>1, <2>2, <3>1, <1>MintedType DEF TypeOK
    <3>3. height_to_hash' \in [Heights -> Block \cup {NoBlock}]
      BY <2>1, <2>2, <3>1 DEF TypeOK
    <3>4. /\ outputs' \subseteq Tx /\ key_images' \subseteq KeyImage
          /\ stealth_index' \in [Address -> Tx \cup {NoTx}]
      BY <2>1, <2>2, <3>1, <1>ConnectType
    <3> QED
      BY <2>1, <2>3, <3>1, <3>2, <3>3, <3>4 DEF TypeOK, disk
  <2>6. DiskOK'
    BY <2>1, <2>4 DEF ChainInv, DiskOK, disk
  <2>7. TipOK'
    BY <2>1, <2>4 DEF ChainInv, TipOK
  <2>8. JobOK'
    <3>1. JobOK /\ job.fork <= job.at + 1
      BY <2>2, ReorgFacts, SMTT(30) DEF ChainInv
    <3> QED
      BY <2>1, <2>2, <2>3, <2>4, <3>1 DEF JobOK, Reorging
  <2>9. IndexOK'
    <3>1. Applied' = n
      BY <2>2, <2>3, <2>4 DEF Applied
    <3> QED
      BY <2>1, <3>1, <1>ConnectIndex DEF IndexOK, n
  <2>10. KnownOK'
    BY <2>1 DEF ChainInv, KnownOK, disk
  <2>11. SpentOK'
    <3>1. key_images' = key_images \cup BlockKeyImages(n) /\ BlockKeyImages(n) \cap key_images = {}
      BY <2>1 DEF UtxoConnect, ContextValid
    <3>2. Images(Branch(T) \ Undone) \subseteq key_images
      BY <2>1 DEF ChainInv, SpentOK
    <3>3. ASSUME NEW h \in job.fork + 1 .. job.at + 1
          PROVE  /\ BlockKeyImages(Anc(job.block, h)) \subseteq key_images'
                 /\ BlockKeyImages(Anc(job.block, h)) \cap Images(Branch(T) \ Undone) = {}
                 /\ SpendsOnce(Anc(job.block, h))
      <4>1. CASE h = job.at + 1
        BY <2>2, <3>1, <3>2, <4>1
      <4>2. CASE h # job.at + 1
        <5>1. h \in job.fork + 1 .. job.at
          BY <2>2, <4>2, ReorgFacts, SMTT(30)
        <5> QED
          BY <2>1, <3>1, <5>1 DEF ChainInv, SpentOK
      <4> QED
        BY <4>1, <4>2
    <3> QED
      BY <2>3, <2>4, <3>1, <3>2, <3>3 DEF SpentOK
  <2>12. NoDoubleSpend'
    BY <2>1 DEF ChainInv, NoDoubleSpend, disk
  <2> QED
    BY <2>5, <2>6, <2>7, <2>8, <2>9, <2>10, <2>11, <2>12 DEF ChainInv

\* AdoptTip makes the last block of the new branch the tip, in memory.
<1>AdoptTip. ASSUME AdoptTip
             PROVE  ChainInv'
  <2> USE <1>AdoptTip
  <2> DEFINE b == job.block
  <2>1. /\ phase = "connect" /\ NextForkBlock = b /\ ContextValid(b)
        /\ UtxoConnect(b)
        /\ tip' = Tip(b, Height(b))
        /\ height_to_hash' = [height_to_hash EXCEPT ![Height(b)] = b]
        /\ phase' = "commit_reorg"
        /\ UNCHANGED <<cache, disk, job, crashes>>
    BY DEF AdoptTip, ValidInReorg
  <2>2. /\ b \in Block /\ b # Genesis /\ SpendsOnce(b) /\ Reorging
        /\ Height(b) = job.at + 1 /\ Height(b) \in Heights
        /\ Parent(b) = Anc(b, job.at)
    BY <2>1, NextForkFacts
  <2>3. SpentOn(Parent(b)) \subseteq key_images /\ \A a \in Branch(Parent(b)) : SpendsOnce(a)
    BY <2>1, <2>2, CursorSpent
  <2>4. T' = T /\ db_state' = db_state /\ job' = job
    BY <2>1 DEF T, disk
  <2>5. TypeOK'
    <3>1. TypeOK
      BY DEF ChainInv
    <3>2. stats' \in StatsType
      BY <2>2, <1>AdoptStatsType DEF AdoptTip
    <3>3. tip' \in TipType
      BY <2>1, <2>2 DEF Tip, TipType
    <3>4. height_to_hash' \in [Heights -> Block \cup {NoBlock}]
      BY <2>1, <2>2, <3>1 DEF TypeOK
    <3>5. /\ outputs' \subseteq Tx /\ key_images' \subseteq KeyImage
          /\ stealth_index' \in [Address -> Tx \cup {NoTx}]
      BY <2>1, <2>2, <3>1, <1>ConnectType
    <3> QED
      BY <2>1, <3>1, <3>2, <3>3, <3>4, <3>5 DEF TypeOK, disk
  <2>6. DiskOK'
    BY <2>1, <2>4 DEF ChainInv, DiskOK, disk
  <2>7. TipOK'
    BY <2>1, <2>4 DEF TipOK
  <2>8. JobOK'
    BY <2>1, <2>4 DEF ChainInv, JobOK, Reorging
  <2>9. IndexOK'
    <3>1. Applied' = b
      BY <2>1 DEF Applied, Tip
    <3>2. height_to_hash' = [height_to_hash EXCEPT ![job.at + 1] = NextForkBlock]
      BY <2>1, <2>2
    <3>3. \A k \in Heights : height_to_hash'[k] # NoBlock =>
            k <= Height(NextForkBlock) /\ height_to_hash'[k] = Anc(NextForkBlock, k)
      BY <2>1, <3>2, <1>ConnectIndex
    <3> QED
      BY <2>1, <3>1, <3>3 DEF IndexOK
  <2>10. KnownOK'
    BY <2>1 DEF ChainInv, KnownOK, disk
  <2>11. SpentOK'
    <3>1. SpentOn(b) \subseteq key_images'
      BY <2>1, <2>2, <2>3, SpentParent DEF UtxoConnect
    <3> QED
      BY <2>1, <3>1 DEF SpentOK, Tip
  <2>12. NoDoubleSpend'
    <3>1. \A a \in Branch(b) : SpendsOnce(a)
      BY <2>2, <2>3, BranchParent
    <3> QED
      BY <2>1, <2>4, <3>1 DEF ChainInv, NoDoubleSpend, Tip
  <2> QED
    BY <2>5, <2>6, <2>7, <2>8, <2>9, <2>10, <2>11, <2>12 DEF ChainInv

\* CommitReorg writes the new branch over the old one in one batch.
<1>CommitReorg. ASSUME CommitReorg
                PROVE  ChainInv'
  <2> USE <1>CommitReorg
  <2> DEFINE b == job.block
             f == job.fork
             gone == job.disconnected \cap cache
  <2>1. /\ phase = "commit_reorg"
        /\ db_outputs' = ReorgRows(b, f, gone)
        /\ db_txs' = ReorgTxs(b, f, gone)
        /\ db_heights' = ReorgHeights(b, f, job.pre_tip.height)
        /\ db_state' = State(b, Height(b), stats, db_state.last_checkpoint)
        /\ phase' = "idle" /\ job' = NoJob
        /\ UNCHANGED <<memory, utxos, db_blocks, crashes>>
    BY DEF CommitReorg
  <2>2. /\ b \in Block /\ T \in Block /\ f \in Nat /\ f <= Height(T) /\ f < Height(b)
        /\ Anc(b, f) = Anc(T, f) /\ job.pre_tip.height = Height(T)
        /\ Height(b) \in Nat /\ Height(b) \in Heights /\ Height(T) \in Nat
    <3>1. /\ b \in Block /\ f <= Height(T) /\ f < Height(b) /\ Anc(b, f) = Anc(T, f)
          /\ job.pre_tip.height = Height(T)
      <4>1. /\ b \in Block /\ f <= Height(T) /\ f < Height(b) /\ Anc(b, f) = Anc(T, f)
            /\ job.pre_tip = Tip(T, Height(T))
        BY <2>1 DEF ChainInv, JobOK
      <4> QED
        BY <4>1, SMTT(30) DEF Tip
    <3>2. T \in Block /\ f \in Nat
      BY Fields, TreeAssumption, SMTT(30) DEF ChainInv, Heights
    <3> QED
      BY <3>1, <3>2, HeightType
  <2>3. /\ tip = Tip(b, Height(b)) /\ tip.hash = b /\ SpentOn(b) \subseteq key_images
        /\ db_state.height = Height(T)
    <3>1. tip = Tip(b, Height(b)) /\ db_state.height = Height(T) /\ SpentOn(tip.hash) \subseteq key_images
      BY <2>1 DEF ChainInv, TipOK, DiskOK, SpentOK
    <3>2. tip.hash = b
      BY <3>1, SMTT(30) DEF Tip
    <3> QED
      BY <3>1, <3>2
  <2>4. /\ tip' = tip /\ cache' = cache /\ height_to_hash' = height_to_hash /\ stats' = stats
        /\ key_images' = key_images /\ db_blocks' = db_blocks
        /\ T' = b /\ db_state'.height = Height(b)
    BY <2>1 DEF memory, utxos, T, State
  <2> HIDE DEF b, f, gone
  <2>5. TypeOK'
    <3>1. TypeOK
      BY DEF ChainInv
    <3>2. db_outputs' \in [Address -> Rows]
      BY <2>1, <2>2, <3>1, <1>ReorgRowsType
    <3>3. db_txs' \in [Tx -> Heights \cup {NoHeight}]
      BY <2>1, <2>2, <3>1, <1>ReorgTxsType
    <3>4. db_heights' \in [Heights -> Block \cup {NoBlock}]
      <4>1. \A h \in f + 1 .. Height(b) : Anc(b, h) \in Block
        BY <2>2, AncType, SMTT(30)
      <4> QED
        BY <2>1, <3>1, <4>1 DEF TypeOK, ReorgHeights
    <3>5. db_state' \in StateType
      BY <2>1, <2>2, <3>1, Fields DEF State, StateType
    <3>6. job' \in JobType
      BY <2>1, NoJobType
    <3> QED
      BY <2>1, <3>1, <3>2, <3>3, <3>4, <3>5, <3>6 DEF TypeOK, memory, utxos
  <2>6. DiskOK'
    <3>1. \A h \in Heights : db_heights'[h] = IF h \in f + 1 .. Height(b) THEN Anc(b, h)
                                             ELSE IF h \in Height(b) + 1 .. Height(T) THEN NoBlock
                                             ELSE db_heights[h]
      BY <2>1, <2>2 DEF ReorgHeights
    <3>2. ASSUME NEW h \in 0 .. Height(b) PROVE db_heights'[h] = Anc(b, h)
      <4>1. h \in Heights
        BY <2>2, AncType
      <4>2. CASE h > f
        BY <2>2, <3>1, <4>1, <4>2, SMTT(30)
      <4>3. CASE h <= f
        <5>1. h \in 0 .. f /\ h \in 0 .. Height(T)
          BY <2>2, <4>3, SMTT(30)
        <5>2. db_heights[h] = Anc(T, h)
          BY <5>1 DEF ChainInv, DiskOK
        <5>3. Anc(T, h) = Anc(b, h)
          BY <2>2, <5>1, SharedPrefix, SMTT(30)
        <5>4. db_heights'[h] = db_heights[h]
          BY <2>2, <3>1, <4>1, <5>1, SMTT(30)
        <5> QED
          BY <5>2, <5>3, <5>4
      <4> QED
        BY <2>2, <4>2, <4>3, SMTT(30)
    <3>3. ASSUME NEW h \in Heights, h > Height(b) PROVE db_heights'[h] = NoBlock
      <4>1. CASE h <= Height(T)
        BY <2>2, <3>1, <3>3, <4>1, SMTT(30) DEF Heights
      <4>2. CASE h > Height(T)
        <5>1. db_heights[h] = NoBlock
          BY <2>3, <4>2 DEF ChainInv, DiskOK
        <5> QED
          BY <2>2, <3>1, <3>3, <4>2, <5>1, SMTT(30) DEF Heights
      <4> QED
        BY <2>2, <4>1, <4>2, TreeAssumption, SMTT(30) DEF Heights
    <3>4. ASSUME NEW h \in Heights, db_heights'[h] # NoBlock PROVE Height(db_heights'[h]) = h
      <4>1. h \in 0 .. Height(b)
        BY <2>2, <3>3, <3>4, SMTT(30) DEF Heights
      <4> QED
        BY <2>2, <3>2, <4>1, AncType
    <3>5. Genesis \in db_blocks'
      BY <2>4 DEF ChainInv, DiskOK
    <3> QED
      BY <2>4, <3>2, <3>3, <3>4, <3>5 DEF DiskOK
  <2>7. TipOK'
    BY <2>1, <2>3, <2>4 DEF TipOK
  <2>8. JobOK'
    BY <2>1 DEF JobOK, Reorging
  <2>9. IndexOK'
    BY <2>1, <2>4 DEF ChainInv, IndexOK, Applied
  <2>10. KnownOK'
    BY <2>4 DEF ChainInv, KnownOK
  <2>11. SpentOK'
    BY <2>1, <2>3, <2>4 DEF SpentOK
  <2>12. NoDoubleSpend'
    <3>1. \A a \in Branch(b) : SpendsOnce(a)
      BY <2>1, <2>3 DEF ChainInv, NoDoubleSpend
    <3> QED
      BY <2>3, <2>4, <3>1 DEF NoDoubleSpend, T
  <2> QED
    BY <2>5, <2>6, <2>7, <2>8, <2>9, <2>10, <2>11, <2>12 DEF ChainInv

\* The first invalid block of the new branch starts the undo.
<1>BeginUndo. ASSUME phase = "connect", BeginUndo
              PROVE  ChainInv'
  <2> USE <1>BeginUndo
  <2>1. /\ phase' = IF job.at > job.fork THEN "undo" ELSE "reapply"
        /\ UNCHANGED <<cache, height_to_hash, tip, stats, outputs, stealth_index, key_images,
                       db_blocks, db_heights, db_state, db_outputs, db_txs, job, crashes>>
    BY DEF BeginUndo, memory, utxos, disk
  <2>2. Reorging /\ T' = T /\ Undone' = Undone
    BY <2>1 DEF Reorging, T, Undone
  <2>3. /\ job.at \in Nat /\ job.fork \in Nat /\ job.fork <= job.at /\ job.fork <= Height(T)
        /\ Anc(job.block, job.fork) = Anc(T, job.fork) /\ job.pre_tip.hash = T
    <3>1. job.fork \in 0 .. job.fork
      BY <2>2, ReorgFacts, SMTT(30)
    <3> QED
      BY <2>2, <3>1, ReorgFacts
  <2>4. /\ phase' \in {"undo", "reapply"}
        /\ phase' = "undo" => job.fork < job.at
        /\ phase' = "reapply" => job.at = job.fork
    BY <2>1, <2>3, SMTT(30)
  <2>5. TypeOK'
    BY <2>1, <2>4 DEF ChainInv, TypeOK
  <2>6. DiskOK'
    BY <2>1, <2>2, <2>4 DEF ChainInv, DiskOK
  <2>7. TipOK'
    BY <2>1, <2>2, <2>4 DEF ChainInv, TipOK
  <2>8. JobOK'
    BY <2>1, <2>2, <2>3, <2>4 DEF ChainInv, JobOK, Reorging
  <2>9. IndexOK'
    <3>1. Applied' = Applied
      BY <2>1, <2>3, <2>4 DEF Applied
    <3> QED
      BY <2>1, <3>1 DEF ChainInv, IndexOK
  <2>10. KnownOK'
    BY <2>1 DEF ChainInv, KnownOK
  <2>11. SpentOK'
    <3>1. /\ Images(Branch(T) \ Undone) \subseteq key_images
          /\ \A h \in job.fork + 1 .. job.at :
               LET n == Anc(job.block, h)
               IN  /\ BlockKeyImages(n) \subseteq key_images
                   /\ BlockKeyImages(n) \cap Images(Branch(T) \ Undone) = {}
                   /\ SpendsOnce(n)
      BY DEF ChainInv, SpentOK
    <3>2. CASE phase' = "undo"
      BY <2>1, <2>2, <3>1, <3>2 DEF SpentOK
    <3>3. CASE phase' = "reapply"
      <4>1. {o \in Undone : Height(o) > job.at} = Undone
        BY <2>2, <2>4, <3>3, <1>UndoneAboveFork
      <4> QED
        BY <2>1, <2>2, <3>1, <3>3, <4>1 DEF SpentOK
    <3> QED
      BY <2>4, <3>2, <3>3
  <2>12. NoDoubleSpend'
    BY <2>1, <2>4 DEF ChainInv, NoDoubleSpend
  <2> QED
    BY <2>5, <2>6, <2>7, <2>8, <2>9, <2>10, <2>11, <2>12 DEF ChainInv

\* Undo takes back the block of the new branch at the cursor.
<1>Undo. ASSUME Undo
         PROVE  ChainInv'
  <2> USE <1>Undo
  <2> DEFINE h == job.at
             b == job.block
             n == Anc(b, h)
  <2>1. /\ phase = "undo"
        /\ UtxoDisconnect(n)
        /\ stats' = Unminted(stats, n)
        /\ height_to_hash' = [height_to_hash EXCEPT ![h] = NoBlock]
        /\ job' = [job EXCEPT !.at = h - 1]
        /\ phase' = IF h - 1 > job.fork THEN "undo" ELSE "reapply"
        /\ UNCHANGED <<cache, tip, db_blocks, db_heights, db_state, db_txs, crashes>>
    BY DEF Undo
  <2>2. /\ Reorging /\ T \in Block /\ b \in Block /\ job.pre_tip = tip /\ tip.hash = T
        /\ h \in Nat /\ job.fork \in Nat /\ Height(b) \in Nat /\ Height(T) \in Nat
        /\ job.fork < h /\ h < Height(b) /\ job.fork <= Height(T)
        /\ \A k \in 0 .. job.fork : Anc(b, k) = Anc(T, k)
    <3>1. Reorging
      BY <2>1 DEF Reorging
    <3>2. job.fork < h /\ h < Height(b)
      BY <2>1 DEF ChainInv, JobOK
    <3> QED
      BY <3>1, <3>2, ReorgFacts
  <2>3. h \in 1 .. Height(b)
    BY <2>2, SMTT(30)
  <2>4. /\ h \in 0 .. Height(b) /\ h \in Heights /\ h - 1 \in Heights
        /\ n \in Block /\ Height(n) = h /\ Height(Anc(b, h - 1)) = h - 1 /\ Anc(n, h) = n
    BY <2>2, <2>3, CursorIndex
  <2>5. T' = T /\ tip' = tip /\ db_state' = db_state
    BY <2>1 DEF T
  <2>6. /\ job'.at = h - 1 /\ job'.fork = job.fork /\ job'.block = b
        /\ job'.pre_tip = job.pre_tip /\ job'.disconnected = job.disconnected
        /\ job' \in JobType
    <3>1. job \in JobType
      BY DEF ChainInv, TypeOK
    <3> QED
      BY <2>1, <2>4, <3>1 DEF JobType
  <2>7. /\ phase' \in {"undo", "reapply"}
        /\ phase' = "undo" => job.fork < h - 1
        /\ phase' = "reapply" => h - 1 = job.fork
        /\ job.fork <= h - 1 /\ h - 1 < Height(b)
    BY <2>1, <2>2, SMTT(30)
  <2>8. Undone' = Undone
    BY <2>1, <2>6 DEF Undone
  <2> HIDE DEF h, b, n
  <2>9. TypeOK'
    <3>1. TypeOK
      BY DEF ChainInv
    <3>2. stats' \in StatsType
      BY <2>1, <2>4, <3>1, <1>MintedType DEF TypeOK
    <3>3. height_to_hash' \in [Heights -> Block \cup {NoBlock}]
      BY <2>1, <2>4, <3>1 DEF TypeOK
    <3>4. /\ outputs' \subseteq Tx /\ key_images' \subseteq KeyImage
          /\ stealth_index' \in [Address -> Tx \cup {NoTx}] /\ db_outputs' \in [Address -> Rows]
      BY <2>1, <2>4, <3>1, <1>DisconnectType
    <3> QED
      BY <2>1, <2>6, <2>7, <3>1, <3>2, <3>3, <3>4 DEF TypeOK
  <2>10. DiskOK'
    BY <2>1, <2>5, <2>7 DEF ChainInv, DiskOK
  <2>11. TipOK'
    BY <2>1, <2>5, <2>7 DEF ChainInv, TipOK
  <2>12. JobOK'
    <3>1. /\ JobOK /\ phase = "undo" /\ b = job.block
          /\ phase' = "reapply" => h - 1 <= Height(T)
      BY <2>1, <2>2, <2>7 DEF ChainInv, b
    <3> QED
      BY <2>5, <2>6, <2>7, <3>1 DEF JobOK, Reorging
  <2>13. IndexOK'
    <3>1. Applied' = Anc(b, h - 1)
      <4>1. CASE phase' = "undo"
        BY <2>6, <4>1 DEF Applied
      <4>2. CASE phase' = "reapply"
        <5>1. Applied' = Anc(T, job.fork) /\ job.fork \in 0 .. job.fork
          BY <2>2, <2>6, <2>7, <4>2, SMTT(30) DEF Applied
        <5> QED
          BY <2>2, <2>7, <4>2, <5>1
      <4> QED
        BY <2>7, <4>1, <4>2
    <3>2. \A k \in Heights : height_to_hash[k] # NoBlock => k <= h /\ height_to_hash[k] = Anc(Anc(b, h), k)
      BY <2>1, <2>4 DEF ChainInv, IndexOK, Applied, n, b, h
    <3>3. height_to_hash \in [Heights -> Block \cup {NoBlock}]
      BY DEF ChainInv, TypeOK
    <3>4. \A k \in Heights : [height_to_hash EXCEPT ![h] = NoBlock][k] # NoBlock =>
            /\ k <= h - 1
            /\ [height_to_hash EXCEPT ![h] = NoBlock][k] = Anc(Anc(b, h - 1), k)
      BY <2>2, <2>3, <3>2, <3>3, DropIndex
    <3> QED
      BY <2>1, <2>4, <3>1, <3>4 DEF IndexOK
  <2>14. KnownOK'
    BY <2>1 DEF ChainInv, KnownOK
  <2>15. SpentOK'
    <3> DEFINE S == Images(Branch(T) \ Undone)
    <3>1. /\ S \subseteq key_images
          /\ \A k \in job.fork + 1 .. h : /\ BlockKeyImages(Anc(b, k)) \subseteq key_images
                                         /\ BlockKeyImages(Anc(b, k)) \cap S = {}
                                         /\ SpendsOnce(Anc(b, k))
      BY <2>1 DEF ChainInv, SpentOK, h, b
    <3>2. key_images' = key_images \ BlockKeyImages(n)
      BY <2>1 DEF UtxoDisconnect
    <3> HIDE DEF S
    <3>3. S \subseteq key_images'
      <4>1. h \in job.fork + 1 .. h
        BY <2>2, SMTT(30)
      <4> QED
        BY <3>1, <3>2, <4>1 DEF n
    <3>4. ASSUME NEW k \in job.fork + 1 .. h - 1
          PROVE  /\ BlockKeyImages(Anc(b, k)) \subseteq key_images'
                 /\ BlockKeyImages(Anc(b, k)) \cap S = {}
                 /\ SpendsOnce(Anc(b, k))
      <4>1. k \in job.fork + 1 .. h /\ k \in 0 .. h /\ k \in 0 .. h - 1 /\ k # h /\ k \in 0 .. Height(b)
        BY <2>2, SMTT(30)
      <4>2. Anc(n, k) = Anc(b, k) /\ Height(Anc(b, k)) = k
        BY <2>2, <2>3, <2>4, <4>1, CursorIndex, AncType DEF n
      <4>3. Anc(b, k) \in Branch(n) /\ n \in Branch(n) /\ Anc(b, k) # n
        BY <2>4, <4>1, <4>2, BranchBlocks
      <4>4. \A a \in Branch(n) : SpendsOnce(a)
        BY <2>1, CursorSpent DEF n, b, h
      <4>5. BlockKeyImages(Anc(b, k)) \cap BlockKeyImages(n) = {}
        BY <2>4, <4>3, <4>4, DisjointOnChain
      <4> QED
        BY <3>1, <3>2, <4>1, <4>5
    <3>5. CASE phase' = "undo"
      BY <2>5, <2>6, <2>8, <3>3, <3>4, <3>5 DEF SpentOK, S
    <3>6. CASE phase' = "reapply"
      <4>1. {o \in Undone : Height(o) > h - 1} = Undone
        BY <2>2, <2>7, <3>6, <1>UndoneAboveFork
      <4> QED
        BY <2>5, <2>6, <2>8, <3>3, <3>6, <4>1 DEF SpentOK, S
    <3> QED
      BY <2>7, <3>5, <3>6
  <2>16. NoDoubleSpend'
    BY <2>1, <2>5, <2>7 DEF ChainInv, NoDoubleSpend
  <2> QED
    BY <2>9, <2>10, <2>11, <2>12, <2>13, <2>14, <2>15, <2>16 DEF ChainInv

\* Reapply connects the lowest disconnected block that is not back yet.
<1>Reapply. ASSUME Reapply
            PROVE  ChainInv'
  <2> USE <1>Reapply
  <2>1. PICK o \in Remaining :
          /\ \A p \in Remaining : Height(o) <= Height(p)
          /\ height_to_hash' = [height_to_hash EXCEPT ![Height(o)] = o]
          /\ IF o \in cache
               THEN UtxoConnect(o) /\ db_outputs' = RestoredRows(o)
               ELSE UNCHANGED <<utxos, db_outputs>>
          /\ job' = [job EXCEPT !.at = Height(o)]
    BY DEF Reapply
  <2>2. /\ phase = "reapply" /\ Reorging
        /\ UNCHANGED <<cache, tip, stats, db_blocks, db_heights, db_state, db_txs, phase, crashes>>
    BY DEF Reapply, Reorging
  <2>3. /\ T \in Block /\ job.pre_tip = tip /\ tip.hash = T /\ Height(T) \in Nat
        /\ job.at \in Nat /\ job.fork \in Nat /\ job.fork <= job.at /\ job.at <= Height(T)
    BY <2>2, ReorgFacts DEF ChainInv, JobOK
  <2>4. o \in job.disconnected /\ Height(o) > job.at
    BY DEF Remaining
  <2>5. /\ o \in Branch(T) /\ o \in Block /\ Height(o) \in Nat /\ Height(o) \in Heights
        /\ Height(o) <= Height(T) /\ o = Anc(T, Height(o)) /\ Anc(o, Height(o)) = o
    <3>1. o \in Branch(T)
      BY <2>2, <2>4, ReorgFacts
    <3>2. o \in Block /\ Height(o) <= Height(T) /\ o = Anc(T, Height(o))
      BY <2>3, <3>1, BranchBlocks
    <3> QED
      BY <3>1, <3>2, HeightType, AncSelf
  <2>6. /\ job'.at = Height(o) /\ job'.fork = job.fork /\ job'.block = job.block
        /\ job'.pre_tip = job.pre_tip /\ job'.disconnected = job.disconnected
        /\ job' \in JobType
    <3>1. job \in JobType
      BY DEF ChainInv, TypeOK
    <3> QED
      BY <2>1, <2>5, <3>1 DEF JobType
  <2>7. T' = T /\ Undone' = Undone
    BY <2>2, <2>6 DEF T, Undone
  <2>8. TypeOK'
    <3>1. TypeOK
      BY DEF ChainInv
    <3>2. height_to_hash' \in [Heights -> Block \cup {NoBlock}]
      BY <2>1, <2>5, <3>1 DEF TypeOK
    <3>3. /\ outputs' \subseteq Tx /\ key_images' \subseteq KeyImage
          /\ stealth_index' \in [Address -> Tx \cup {NoTx}] /\ db_outputs' \in [Address -> Rows]
      <4>1. CASE o \in cache
        <5>1. db_outputs \in [Address -> Rows] /\ UtxoConnect(o) /\ db_outputs' = RestoredRows(o)
          BY <2>1, <3>1, <4>1 DEF TypeOK
        <5>2. db_outputs' \in [Address -> Rows]
          BY <2>5, <5>1, <1>PersistType DEF RestoredRows
        <5> QED
          BY <2>5, <3>1, <5>1, <5>2, <1>ConnectType
      <4>2. CASE o \notin cache
        BY <2>1, <3>1, <4>2 DEF TypeOK, utxos
      <4> QED
        BY <4>1, <4>2
    <3> QED
      BY <2>2, <2>6, <3>1, <3>2, <3>3 DEF TypeOK
  <2>9. DiskOK'
    BY <2>2, <2>7 DEF ChainInv, DiskOK
  <2>10. TipOK'
    BY <2>2, <2>7 DEF ChainInv, TipOK
  <2>11. JobOK'
    <3>1. JobOK /\ job.fork <= Height(o)
      BY <2>3, <2>4, <2>5, SMTT(30) DEF ChainInv
    <3> QED
      BY <2>2, <2>5, <2>6, <2>7, <3>1 DEF JobOK, Reorging
  <2>12. IndexOK'
    <3>1. Applied = Anc(T, job.at) /\ Applied' = o
      BY <2>2, <2>3, <2>5, <2>6 DEF Applied
    <3>2. ASSUME NEW k \in Heights, height_to_hash'[k] # NoBlock
          PROVE  k <= Height(o) /\ height_to_hash'[k] = Anc(o, k)
      <4>1. height_to_hash \in [Heights -> Block \cup {NoBlock}]
        BY DEF ChainInv, TypeOK
      <4>2. CASE k = Height(o)
        BY <2>1, <2>5, <4>1, <4>2
      <4>3. CASE k # Height(o)
        <5>1. height_to_hash'[k] = height_to_hash[k]
          BY <2>1, <4>1, <4>3
        <5>2. k <= Height(Anc(T, job.at)) /\ height_to_hash[k] = Anc(Anc(T, job.at), k)
          BY <2>2, <3>1, <3>2, <5>1 DEF ChainInv, IndexOK
        <5>3. job.at \in 0 .. Height(T) /\ Height(o) \in 0 .. Height(T)
          BY <2>3, <2>5, SMTT(30)
        <5>4. Height(Anc(T, job.at)) = job.at
          BY <2>3, <5>3, AncType
        <5>5. k \in 0 .. job.at /\ k \in 0 .. Height(o) /\ k <= Height(o)
          BY <2>3, <2>4, <2>5, <5>2, <5>4, SMTT(30) DEF Heights
        <5>6. Anc(Anc(T, job.at), k) = Anc(T, k) /\ Anc(Anc(T, Height(o)), k) = Anc(T, k)
          BY <2>3, <5>3, <5>5, AncAnc
        <5> QED
          BY <2>5, <5>1, <5>2, <5>5, <5>6
      <4> QED
        BY <4>2, <4>3
    <3> QED
      BY <3>1, <3>2 DEF IndexOK
  <2>13. KnownOK'
    BY <2>2 DEF ChainInv, KnownOK
  <2>14. SpentOK'
    <3>1. Images(Branch(T) \ {p \in Undone : Height(p) > job.at}) \subseteq key_images
      BY <2>2 DEF ChainInv, SpentOK
    <3>2. key_images \subseteq key_images' /\ (o \in cache => BlockKeyImages(o) \subseteq key_images')
      BY <2>1 DEF UtxoConnect, utxos
    <3>3. ASSUME NEW a \in Branch(T) \ {p \in Undone : Height(p) > Height(o)}
          PROVE  BlockKeyImages(a) \subseteq key_images'
      <4>1. CASE a \in Undone /\ Height(a) > job.at
        <5>1. a \in Remaining /\ a \in cache
          BY <4>1 DEF Undone, Remaining
        <5>2. Height(o) <= Height(a) /\ ~(Height(a) > Height(o))
          BY <2>1, <3>3, <4>1, <5>1
        <5>3. a = Anc(T, Height(a)) /\ Height(a) \in Nat
          BY <2>3, BranchBlocks, HeightType
        <5>4. a = o
          BY <2>5, <5>2, <5>3, SMTT(30)
        <5> QED
          BY <3>2, <5>1, <5>4
      <4>2. CASE ~(a \in Undone /\ Height(a) > job.at)
        BY <3>1, <3>2, <4>2 DEF Images
      <4> QED
        BY <4>1, <4>2
    <3>4. Images(Branch(T) \ {p \in Undone : Height(p) > Height(o)}) \subseteq key_images'
      BY <3>3 DEF Images
    <3> QED
      BY <2>2, <2>6, <2>7, <3>4 DEF SpentOK
  <2>15. NoDoubleSpend'
    BY <2>2 DEF ChainInv, NoDoubleSpend
  <2> QED
    BY <2>8, <2>9, <2>10, <2>11, <2>12, <2>13, <2>14, <2>15 DEF ChainInv

\* RestoreTip ends the undo once every disconnected block is back.
<1>RestoreTip. ASSUME RestoreTip
               PROVE  ChainInv'
  <2> USE <1>RestoreTip
  <2>1. /\ phase = "reapply" /\ Remaining = {} /\ Reorging
        /\ tip' = job.pre_tip /\ stats' = job.pre_stats /\ phase' = "idle" /\ job' = NoJob
        /\ UNCHANGED <<cache, height_to_hash, outputs, stealth_index, key_images,
                       db_blocks, db_heights, db_state, db_outputs, db_txs, crashes>>
    BY DEF RestoreTip, Reorging, utxos, disk
  <2>2. /\ T \in Block /\ T' = T /\ tip' = tip /\ tip = Tip(T, Height(T)) /\ tip.hash = T
        /\ db_state.height = Height(T) /\ job.pre_tip = tip
        /\ job.at \in Nat /\ Height(T) \in Nat /\ job.at <= Height(T)
    BY <2>1, ReorgFacts DEF ChainInv, JobOK, T
  <2>3. TypeOK'
    <3>1. TypeOK /\ job.pre_tip \in TipType /\ job.pre_stats \in StatsType
      BY Fields DEF ChainInv
    <3> QED
      BY <2>1, <3>1, NoJobType DEF TypeOK
  <2>4. DiskOK'
    BY <2>1, <2>2 DEF ChainInv, DiskOK
  <2>5. TipOK'
    BY <2>1, <2>2 DEF TipOK
  <2>6. JobOK'
    BY <2>1 DEF JobOK, Reorging
  <2>7. IndexOK'
    <3>1. Applied = Anc(T, job.at) /\ Applied' = T
      BY <2>1, <2>2 DEF Applied
    <3>2. job.at \in 0 .. Height(T)
      BY <2>2, SMTT(30)
    <3>3. ASSUME NEW k \in Heights, height_to_hash[k] # NoBlock
          PROVE  k <= Height(T) /\ height_to_hash[k] = Anc(T, k)
      <4>1. k <= Height(Anc(T, job.at)) /\ height_to_hash[k] = Anc(Anc(T, job.at), k)
        BY <2>1, <3>1, <3>3 DEF ChainInv, IndexOK
      <4>2. Height(Anc(T, job.at)) = job.at
        BY <2>2, <3>2, AncType
      <4>3. k \in 0 .. job.at /\ k <= Height(T)
        BY <2>2, <4>1, <4>2, SMTT(30) DEF Heights
      <4> QED
        BY <2>2, <3>2, <4>1, <4>3, AncAnc
    <3> QED
      BY <2>1, <3>1, <3>3 DEF IndexOK
  <2>8. KnownOK'
    BY <2>1 DEF ChainInv, KnownOK
  <2>9. SpentOK'
    <3>1. {o \in Undone : Height(o) > job.at} = {}
      BY <2>1 DEF Undone, Remaining
    <3>2. Images(Branch(T) \ {}) \subseteq key_images
      BY <2>1, <3>1 DEF ChainInv, SpentOK
    <3>3. SpentOn(T) \subseteq key_images'
      BY <2>1, <3>2 DEF SpentOn, Images
    <3> QED
      BY <2>1, <2>2, <3>3 DEF SpentOK
  <2>10. NoDoubleSpend'
    BY <2>1, <2>2 DEF ChainInv, NoDoubleSpend, T
  <2> QED
    BY <2>3, <2>4, <2>5, <2>6, <2>7, <2>8, <2>9, <2>10 DEF ChainInv

\* Whatever the handler was doing, losing the memory and keeping the disk is safe.
<1>Down. ASSUME NoMemory, phase' = "down", UNCHANGED disk, crashes' \in 0 .. MaxCrashes
         PROVE  ChainInv'
  <2> USE <1>Down
  <2>1. /\ cache' = {} /\ height_to_hash' = [h \in Heights |-> NoBlock] /\ tip' = Tip(NoBlock, 0)
        /\ stats' = NoStats /\ outputs' = {} /\ stealth_index' = [s \in Address |-> NoTx]
        /\ key_images' = {} /\ job' = NoJob
        /\ UNCHANGED <<db_blocks, db_heights, db_state, db_outputs, db_txs>> /\ T' = T
    BY DEF NoMemory, disk, T
  <2>2. TypeOK'
    <3>1. tip' \in TipType /\ 0 \in Heights
      BY <2>1, TreeAssumption DEF Tip, TipType, Heights
    <3> QED
      BY <2>1, <3>1, NoJobType DEF ChainInv, TypeOK
  <2>3. DiskOK'
    BY <2>1 DEF ChainInv, DiskOK
  <2>4. TipOK' /\ JobOK' /\ IndexOK' /\ SpentOK'
    BY DEF TipOK, JobOK, Reorging, IndexOK, SpentOK
  <2>5. KnownOK'
    BY <2>1 DEF ChainInv, KnownOK
  <2>6. NoDoubleSpend'
    BY <2>1 DEF ChainInv, NoDoubleSpend
  <2> QED
    BY <2>2, <2>3, <2>4, <2>5, <2>6 DEF ChainInv

\* A crash at any point of any handler.
<1>Crash. ASSUME Crash
          PROVE  ChainInv'
  <2> USE <1>Crash
  <2>1. crashes' \in 0 .. MaxCrashes
    BY ChainAssumption, SMTT(30) DEF Crash, ChainInv, TypeOK
  <2> QED
    BY <2>1, <1>Down DEF Crash

\* A node that fails boot_integrity_check exits.
<1>BootRefused. ASSUME BootRefused
                PROVE  ChainInv'
  <2> USE <1>BootRefused
  <2>1. crashes' \in 0 .. MaxCrashes
    BY DEF BootRefused, ChainInv, TypeOK
  <2> QED
    BY <2>1, <1>Down DEF BootRefused

\* A tip that the index names at its height is the tip of a complete load: the node
\* that passes boot_integrity_check runs on the height its tip has.
<1>Boot. ASSUME Boot
         PROVE  ChainInv'
  <2> USE <1>Boot
  <2>1. /\ phase = "boot" /\ phase' = "idle" /\ MainHash(tip.height) = tip.hash
        /\ UNCHANGED <<cache, height_to_hash, tip, stats, outputs, stealth_index, key_images,
                       db_blocks, db_heights, db_state, db_outputs, db_txs, job, crashes>>
    BY DEF Boot, BootIntact, memory, utxos, disk
  <2>2. /\ T \in Block /\ T # NoBlock /\ T' = T /\ tip = Tip(T, db_state.height)
        /\ tip.hash = T /\ tip.height = db_state.height
        /\ db_state.height \in Heights /\ db_state.height \in Nat /\ Height(T) \in Nat
    <3>1. T \in Block /\ db_state.height \in Heights
      BY Fields DEF ChainInv
    <3>2. tip = Tip(T, db_state.height) /\ T' = T
      BY <2>1 DEF ChainInv, TipOK, T
    <3> QED
      BY <3>1, <3>2, HeightType, TreeAssumption, SMTT(30) DEF Tip, Heights
  <2>3. db_state.height = Height(T)
    <3> DEFINE h == db_state.height
    <3>1. CASE height_to_hash[h] # NoBlock
      <4>1. h <= Height(T) /\ Anc(T, h) = T
        BY <2>1, <2>2, <3>1 DEF MainHash, ChainInv, IndexOK, Applied
      <4>2. h \in 0 .. Height(T)
        BY <2>2, <4>1, SMTT(30)
      <4> QED
        BY <2>2, <4>1, <4>2, AncType
    <3>2. CASE height_to_hash[h] = NoBlock
      BY <2>1, <2>2, <3>2 DEF MainHash, ChainInv, DiskOK
    <3> QED
      BY <3>1, <3>2
  <2>4. TypeOK'
    BY <2>1 DEF ChainInv, TypeOK
  <2>5. DiskOK'
    BY <2>1, <2>2, <2>3 DEF ChainInv, DiskOK
  <2>6. TipOK'
    BY <2>1, <2>2 DEF TipOK
  <2>7. JobOK'
    BY <2>1 DEF JobOK, Reorging
  <2>8. IndexOK'
    BY <2>1 DEF ChainInv, IndexOK, Applied
  <2>9. KnownOK'
    BY <2>1 DEF ChainInv, KnownOK
  <2>10. SpentOK'
    BY <2>1 DEF ChainInv, SpentOK
  <2>11. NoDoubleSpend'
    BY <2>1 DEF ChainInv, NoDoubleSpend
  <2> QED
    BY <2>4, <2>5, <2>6, <2>7, <2>8, <2>9, <2>10, <2>11 DEF ChainInv

\* A load that replays the chain of the stored block at n leaves the node, before its
\* boot check, with that block as its tip and every key image of its chain spent.
<1>Replayed. ASSUME Loadable, phase = "down", phase' = "boot", UNCHANGED <<db_blocks, db_txs, job, crashes>>,
                    NEW n \in 0 .. Height(T), NEW last \in 0 .. Height(T), Replay(last), n <= last,
                    DiskBlock(n) # NoBlock, \A h \in BrokenLinks : h > n,
                    \A j \in n + 1 .. last : DiskBlock(j) = NoBlock,
                    tip' = Tip(Anc(T, n), last),
                    T' = Anc(T, n), db_state'.height = last, db_state' \in StateType,
                    db_heights' \in [Heights -> Block \cup {NoBlock}],
                    DiskOK'
             PROVE  ChainInv'
  <2> USE <1>Replayed
  <2>1. T \in Block /\ Height(T) \in Nat
    BY StoredBlocks
  <2>2. /\ Anc(T, n) \in Block /\ Height(Anc(T, n)) = n
        /\ \A k \in 0 .. n : Anc(Anc(T, n), k) = Anc(T, k)
        /\ last \in Heights
    BY <2>1, AncType, AncAnc
  <2>3. /\ cache' \subseteq db_blocks
        /\ height_to_hash' \in [Heights -> Block \cup {NoBlock}]
        /\ \A h \in Heights : height_to_hash'[h] # NoBlock =>
             h \in 0 .. last /\ DiskBlock(h) # NoBlock /\ height_to_hash'[h] = Anc(T, h)
        /\ stats' \in StatsType
        /\ outputs' \subseteq Tx /\ key_images' \subseteq KeyImage
        /\ stealth_index' \in [Address -> Tx \cup {NoTx}]
        /\ db_outputs' \in [Address -> Rows]
        /\ \A h \in 0 .. last : DiskBlock(h) # NoBlock => BlockKeyImages(Anc(T, h)) \subseteq key_images'
    BY <1>ReplayFacts
  <2>4. \A j \in 0 .. n : DiskBlock(j) # NoBlock
    BY StoredChain
  <2>5. tip'.hash = Anc(T, n) /\ tip'.height = last /\ tip' \in TipType
    BY <2>2 DEF Tip, TipType
  <2>6. TypeOK'
    BY <2>3, <2>5 DEF ChainInv, TypeOK
  <2>7. TipOK'
    BY DEF TipOK
  <2>8. JobOK'
    BY DEF JobOK, Reorging
  <2>9. IndexOK'
    <3>1. Applied' = Anc(T, n)
      BY <2>5 DEF Applied
    <3>2. ASSUME NEW h \in Heights, height_to_hash'[h] # NoBlock
          PROVE  h <= n /\ height_to_hash'[h] = Anc(Anc(T, n), h)
      <4>1. h \in 0 .. last /\ DiskBlock(h) # NoBlock /\ height_to_hash'[h] = Anc(T, h)
        BY <2>3, <3>2
      <4>2. h \notin n + 1 .. last
        BY <4>1
      <4>3. h <= n /\ h \in 0 .. n
        BY <4>1, <4>2, SMTT(30)
      <4> QED
        BY <2>2, <4>1, <4>3
    <3> QED
      BY <2>2, <3>1, <3>2 DEF IndexOK
  <2>10. KnownOK'
    BY <2>3 DEF ChainInv, KnownOK
  <2>11. SpentOK'
    <3>1. ASSUME NEW a \in Branch(Anc(T, n)) PROVE BlockKeyImages(a) \subseteq key_images'
      <4>1. PICK k \in 0 .. n : a = Anc(T, k)
        BY <2>2 DEF Branch
      <4>2. k \in 0 .. last
        BY SMTT(30)
      <4> QED
        BY <2>3, <2>4, <4>1, <4>2
    <3>2. SpentOn(Anc(T, n)) \subseteq key_images'
      BY <3>1 DEF SpentOn, Images
    <3> QED
      BY <2>5, <3>2 DEF SpentOK
  <2>12. NoDoubleSpend'
    <3>1. Branch(Anc(T, n)) \subseteq Branch(T)
      <4>1. \A k \in 0 .. n : k \in 0 .. Height(T)
        BY <2>1, SMTT(30)
      <4> QED
        BY <2>2, <4>1 DEF Branch
    <3>2. \A a \in Branch(Anc(T, n)) : SpendsOnce(a)
      BY <3>1 DEF ChainInv, NoDoubleSpend, T
    <3> QED
      BY <2>5, <3>2 DEF NoDoubleSpend, T
  <2> QED
    BY <2>6, <2>7, <2>8, <2>9, <2>10, <2>11, <2>12 DEF ChainInv

\* A load without a broken link.
<1>Load. ASSUME phase = "down", phase' = "boot", UNCHANGED <<job, crashes>>, Load
         PROVE  ChainInv'
  <2> USE <1>Load
  <2>1. /\ Loadable /\ BrokenLinks = {} /\ Replay(db_state.height)
        /\ tip' = Tip(T, db_state.height)
        /\ UNCHANGED <<db_blocks, db_heights, db_state, db_txs>>
    BY DEF Load, T
  <2>2. /\ T \in Block /\ Height(T) \in Nat /\ db_state.height = Height(T)
        /\ DiskBlock(Height(T)) # NoBlock
    BY <2>1, StoredBlocks
  <2>3. T' = T /\ Anc(T, Height(T)) = T /\ Height(T) \in 0 .. Height(T)
        /\ Height(T) + 1 .. Height(T) = {}
    BY <2>1, <2>2, AncSelf, SMTT(30) DEF T
  <2>4. DiskOK'
    BY <2>1, <2>3 DEF ChainInv, DiskOK
  <2>5. db_state' \in StateType /\ db_heights' \in [Heights -> Block \cup {NoBlock}]
    BY <2>1 DEF ChainInv, TypeOK
  <2> QED
    BY <2>1, <2>2, <2>3, <2>4, <2>5, <1>Replayed, SMTT(30)

\* A load that truncates the chain below its lowest broken link.  The link is broken
\* because bodies are missing, so the saved height is not the height of the saved tip
\* and boot_integrity_check will refuse to run on it; the disk stays consistent.
<1>LoadTruncated. ASSUME phase = "down", phase' = "boot", UNCHANGED <<job, crashes>>, LoadTruncated
                  PROVE  ChainInv'
  <2> USE <1>LoadTruncated
  <2>1. PICK h \in BrokenLinks :
          /\ \A k \in BrokenLinks : h <= k
          /\ Replay(h - 1)
          /\ tip' = Tip(DiskBlock(LastBelow(h)), h - 1)
          /\ db_heights' = [k \in Heights |-> IF k \in h .. db_state.height
                                               THEN NoBlock ELSE db_heights[k]]
          /\ db_state' = [db_state EXCEPT !.tip_hash = DiskBlock(LastBelow(h)), !.height = h - 1,
                                          !.total_difficulty = RecomputedWork]
    BY DEF LoadTruncated
  <2>2. Loadable /\ UNCHANGED <<db_blocks, db_txs>>
    BY DEF LoadTruncated
  <2>3. T \in Block /\ Height(T) \in Nat /\ db_state.height = Height(T)
    BY <2>2, StoredBlocks
  <2>4. /\ h \in 1 .. Height(T) /\ DiskBlock(h) # NoBlock
        /\ Parent(DiskBlock(h)) # DiskBlock(LastBelow(h))
    BY <2>3 DEF BrokenLinks
  <2> DEFINE n == LastBelow(h)
  <2>5. /\ n \in 0 .. h - 1 /\ DiskBlock(n) # NoBlock
        /\ \A j \in n + 1 .. h - 1 : DiskBlock(j) = NoBlock
    BY <2>2, <2>4, LastBelowFacts
  <2> HIDE DEF n
  <2>6. n \in 0 .. Height(T) /\ h - 1 \in 0 .. Height(T) /\ n <= h - 1 /\ h - 1 \in Heights
        /\ n \in Nat /\ h \in Nat
    <3>1. n \in 0 .. Height(T) /\ h - 1 \in 0 .. Height(T) /\ n <= h - 1 /\ n \in Nat /\ h \in Nat
      BY <2>3, <2>4, <2>5, SMTT(30)
    <3> QED
      BY <2>3, <3>1, AncType
  <2>7. /\ DiskBlock(n) = Anc(T, n) /\ Anc(T, n) \in Block /\ Height(Anc(T, n)) = n
        /\ DiskBlock(h) = Anc(T, h)
        /\ \A k \in 0 .. n : Anc(Anc(T, n), k) = Anc(T, k)
    <3>1. DiskBlock(n) = Anc(T, n)
      BY <2>2, <2>5, <2>6, StoredBlocks
    <3>2. DiskBlock(h) = Anc(T, h)
      <4>1. h \in 0 .. Height(T)
        BY <2>3, <2>4, SMTT(30)
      <4> QED
        BY <2>2, <2>4, <4>1, StoredBlocks
    <3> QED
      BY <2>3, <2>6, <3>1, <3>2, AncType, AncAnc
  <2>8. n # h - 1
    <3>1. h - 1 \in 0 .. Height(T) - 1 /\ (h - 1) + 1 = h
      BY <2>3, <2>4, SMTT(30)
    <3>2. Parent(Anc(T, h)) = Anc(T, h - 1)
      BY <2>3, <3>1, AncParent, SMTT(30)
    <3> QED
      BY <2>4, <2>7, <3>2 DEF n
  <2>9. db_state' \in StateType /\ T' = Anc(T, n) /\ db_state'.height = h - 1
    <3>1. db_state \in StateType /\ RecomputedWork \in Int
      BY <2>2, <1>RecomputedType DEF ChainInv, TypeOK
    <3>2. db_state' = [db_state EXCEPT !.tip_hash = Anc(T, n), !.height = h - 1,
                                       !.total_difficulty = RecomputedWork]
      BY <2>1, <2>7 DEF n
    <3>3. db_state'.tip_hash = Anc(T, n) /\ db_state'.height = h - 1
      BY <3>1, <3>2 DEF StateType
    <3>4. db_state' \in StateType
      BY <2>6, <2>7, <3>1, <3>2 DEF StateType
    <3> QED
      BY <3>3, <3>4 DEF T
  <2>10. db_heights' \in [Heights -> Block \cup {NoBlock}]
    BY <2>1 DEF ChainInv, TypeOK
  <2>11. DiskOK'
    <3>1. Genesis \in db_blocks'
      BY <2>2 DEF ChainInv, DiskOK
    <3>2. ASSUME NEW j \in 0 .. Height(T') PROVE db_heights'[j] = Anc(T', j)
      <4>1. j \in 0 .. n /\ j \in 0 .. Height(T) /\ j \notin h .. Height(T)
        BY <2>3, <2>4, <2>5, <2>6, <2>7, <2>9, SMTT(30)
      <4>2. j \in Heights /\ db_heights[j] = Anc(T, j)
        BY <2>3, <4>1, AncType DEF ChainInv, DiskOK
      <4> QED
        BY <2>1, <2>3, <2>7, <2>9, <4>1, <4>2
    <3>3. ASSUME NEW j \in Heights, db_heights'[j] # NoBlock PROVE Height(db_heights'[j]) = j
      BY <2>1, <3>3 DEF ChainInv, DiskOK
    <3>4. db_state'.height # Height(T')
      BY <2>7, <2>8, <2>9
    <3> QED
      BY <3>1, <3>2, <3>3, <3>4 DEF DiskOK
  <2>12. tip' = Tip(Anc(T, n), h - 1)
    BY <2>1, <2>7 DEF n
  <2>13. \A k \in BrokenLinks : k > n
    <3>1. \A k \in BrokenLinks : k \in Int
      BY <2>3, SMTT(30) DEF BrokenLinks
    <3> QED
      BY <2>1, <2>5, <2>6, <3>1, SMTT(30)
  <2> QED
    BY <2>1, <2>2, <2>5, <2>6, <2>9, <2>10, <2>11, <2>12, <2>13, <1>Replayed

\* A step that changes nothing preserves the invariant.
<1>Stutter. ASSUME UNCHANGED vars
            PROVE  ChainInv'
  <2> USE <1>Stutter
  <2>1. UNCHANGED <<cache, height_to_hash, tip, stats, outputs, stealth_index, key_images,
                    db_blocks, db_heights, db_state, db_outputs, db_txs, phase, job, crashes>>
    BY DEF vars, memory, utxos, disk
  <2>2. TypeOK' /\ KnownOK' /\ NoDoubleSpend'
    BY <2>1 DEF ChainInv, TypeOK, KnownOK, NoDoubleSpend
  <2>3. DiskOK' /\ TipOK'
    BY <2>1 DEF ChainInv, DiskOK, TipOK, T
  <2>4. JobOK'
    BY <2>1 DEF ChainInv, JobOK, Reorging, T
  <2>5. IndexOK'
    BY <2>1 DEF ChainInv, IndexOK, Applied
  <2>6. SpentOK'
    BY <2>1 DEF ChainInv, SpentOK, Undone, T
  <2> QED
    BY <2>2, <2>3, <2>4, <2>5, <2>6 DEF ChainInv

\* These are all the steps there are.
<1>1. CASE \E b \in Block : AddBlock(b) \/ StoreFails(b)
  <2>1. PICK b \in Block : AddBlock(b) \/ StoreFails(b)
    BY <1>1
  <2>2. CASE StoreMain(b)
    BY <2>2, <1>StoreMain
  <2>3. CASE StoreFork(b)
    BY <2>3, <1>StoreFork
  <2>4. CASE BeginReorg(b)
    BY <2>4, <1>BeginReorg
  <2>5. CASE StoreFails(b)
    BY <2>5, <1>StoreFails
  <2> QED
    BY <2>1, <2>2, <2>3, <2>4, <2>5 DEF AddBlock
<1>2. CASE HandlerStep
  <2>1. CASE ExtendTip
    BY <2>1, <1>ExtendTip
  <2>2. CASE CommitBlock
    BY <2>2, <1>CommitBlock
  <2>3. CASE Disconnect
    BY <2>3, <1>Disconnect
  <2>4. CASE ConnectFork
    BY <2>4, <1>ConnectFork
  <2>5. CASE ConnectFails \/ RecheckFails
    BY <2>5, <1>BeginUndo DEF ConnectFails, RecheckFails
  <2>6. CASE AdoptTip
    BY <2>6, <1>AdoptTip
  <2>7. CASE CommitReorg
    BY <2>7, <1>CommitReorg
  <2>8. CASE Undo
    BY <2>8, <1>Undo
  <2>9. CASE Reapply
    BY <2>9, <1>Reapply
  <2>10. CASE RestoreTip
    BY <2>10, <1>RestoreTip
  <2> QED
    BY <1>2, <2>1, <2>2, <2>3, <2>4, <2>5, <2>6, <2>7, <2>8, <2>9, <2>10 DEF HandlerStep
<1>3. CASE Crash
  BY <1>3, <1>Crash
<1>4. CASE Start
  BY <1>4, <1>Load, <1>LoadTruncated DEF Start
<1>5. CASE Boot
  BY <1>5, <1>Boot
<1>6. CASE BootRefused
  BY <1>6, <1>BootRefused
<1>7. CASE UNCHANGED vars
  BY <1>7, <1>Stutter
<1> QED
  BY <1>1, <1>2, <1>3, <1>4, <1>5, <1>6, <1>7 DEF Next

-----------------------------------------------------------------------------
(* What one block adds to the replay of a chain.                           *)

\* On a chain that spends once no transaction is in two blocks: two blocks with one
\* share its key images, and a coinbase is in one block only.
LEMMA TxsOnce ==
    ASSUME NEW b \in Block, \A a \in Branch(b) : SpendsOnce(a),
           NEW x \in Branch(b), NEW y \in Branch(b), x # y
    PROVE  Txs(x) \cap Txs(y) = {}
<1> SUFFICES ASSUME NEW t \in Txs(x) \cap Txs(y) PROVE FALSE
  OBVIOUS
<1>1. x \in Block /\ y \in Block
  BY BranchBlocks
<1>2. KeyImages(t) # {}
  BY <1>1, TxAssumption
<1>3. BlockKeyImages(x) \cap BlockKeyImages(y) # {}
  BY <1>2 DEF BlockKeyImages
<1> QED
  BY <1>3, DisjointOnChain

\* A block adds its own height, if it pays the address, to the paying heights.
LEMMA PayHeightsParent ==
    ASSUME NEW b \in Block, b # Genesis, NEW s
    PROVE  /\ Height(b) \in PayHeights(b, s) <=> Pays(b, s)
           /\ PayHeights(Parent(b), s) = PayHeights(b, s) \ {Height(b)}
           /\ \A h \in PayHeights(Parent(b), s) : h \in Nat /\ h < Height(b)
<1>1. /\ Height(b) \in Nat /\ Height(Parent(b)) = Height(b) - 1 /\ Anc(b, Height(b)) = b
      /\ \A h \in 0 .. Height(b) - 1 : Anc(Parent(b), h) = Anc(b, h)
  BY ParentAncestors, HeightType, AncSelf
<1>2. /\ Height(b) \in 0 .. Height(b)
      /\ \A h : h \in 0 .. Height(b) - 1 <=> h \in 0 .. Height(b) /\ h # Height(b)
      /\ \A h \in 0 .. Height(b) - 1 : h \in Nat /\ h < Height(b)
  BY <1>1, SMTT(30)
<1> QED
  BY <1>1, <1>2 DEF PayHeights

\* The owner of an address is a transaction of the first block that pays it.
LEMMA OwnerPays ==
    ASSUME HeightFacts, NEW b \in Block, NEW s \in Address, PayHeights(b, s) # {}
    PROVE  /\ OldestHeight(b, s) \in 0 .. Height(b)
           /\ \A k \in PayHeights(b, s) : OldestHeight(b, s) <= k
           /\ OwnerOn(b)[s] = PaidBy(Anc(b, OldestHeight(b, s)), s)
           /\ OwnerOn(b)[s] \in Txs(Anc(b, OldestHeight(b, s)))
           /\ OwnerOn(b)[s] \in Tx /\ OwnerOn(b)[s] # NoTx
<1> DEFINE h == OldestHeight(b, s)
<1>1. h \in PayHeights(b, s)
  BY OldestHeightType
<1>2. PayHeights(b, s) \in SUBSET Heights
  BY AncType DEF PayHeights
<1>3. \A k \in PayHeights(b, s) : h <= k
  BY <1>2 DEF HeightFacts, OldestHeight, Lowest
<1>4. h \in 0 .. Height(b) /\ Pays(Anc(b, h), s)
  BY <1>1 DEF PayHeights
<1>5. OwnerOn(b)[s] = PaidBy(Anc(b, h), s)
  BY DEF OwnerOn
<1>6. Anc(b, h) \in Block
  BY <1>4, AncType
<1> HIDE DEF h
<1>7. PaidBy(Anc(b, h), s) \in Txs(Anc(b, h)) /\ PaidBy(Anc(b, h), s) \in Tx
  BY <1>4, <1>6, PaidByType
<1> QED
  BY <1>3, <1>4, <1>5, <1>7, TreeAssumption DEF h

\* Connecting a block leaves the owner and the row of an address that its chain had
\* paid, and gives those of a new one to the block.
LEMMA OwnerParent ==
    ASSUME HeightFacts, NEW b \in Block, b # Genesis, NEW s \in Address
    PROVE  /\ PayHeights(Parent(b), s) # {} =>
                OwnerOn(b)[s] = OwnerOn(Parent(b))[s] /\ RowsOn(b)[s] = RowsOn(Parent(b))[s]
           /\ PayHeights(Parent(b), s) = {} /\ Pays(b, s) =>
                OwnerOn(b)[s] = PaidBy(b, s) /\ RowsOn(b)[s] = Row(PaidBy(b, s), Height(b))
           /\ PayHeights(Parent(b), s) = {} /\ ~Pays(b, s) =>
                OwnerOn(b)[s] = NoTx /\ RowsOn(b)[s] = NoRow
<1> DEFINE p == Parent(b)
<1>1. /\ Height(b) \in PayHeights(b, s) <=> Pays(b, s)
      /\ PayHeights(p, s) = PayHeights(b, s) \ {Height(b)}
      /\ \A h \in PayHeights(p, s) : h \in Nat /\ h < Height(b)
  BY PayHeightsParent
<1>2. /\ p \in Block /\ Height(b) \in Nat /\ Height(p) = Height(b) - 1 /\ Anc(b, Height(b)) = b
      /\ \A h \in 0 .. Height(b) - 1 : Anc(p, h) = Anc(b, h)
  BY ParentAncestors, HeightType, AncSelf
<1> HIDE DEF p
<1>3. ASSUME PayHeights(p, s) # {}
      PROVE  OwnerOn(b)[s] = OwnerOn(p)[s] /\ RowsOn(b)[s] = RowsOn(p)[s]
  <2> DEFINE i == OldestHeight(p, s)
             j == OldestHeight(b, s)
  <2>1. PayHeights(b, s) # {}
    BY <1>1, <1>3
  <2>2. i \in PayHeights(p, s) /\ i \in 0 .. Height(p) /\ \A k \in PayHeights(p, s) : i <= k
    BY <1>2, <1>3, OldestHeightType, OwnerPays
  <2>3. j \in PayHeights(b, s) /\ j \in 0 .. Height(b) /\ \A k \in PayHeights(b, s) : j <= k
    BY <2>1, OldestHeightType, OwnerPays
  <2> HIDE DEF i, j
  <2>4. j <= i /\ i \in Nat /\ j \in Nat /\ i < Height(b)
    BY <1>1, <2>2, <2>3, SMTT(30)
  <2>5. j # Height(b)
    BY <1>2, <2>4, SMTT(30)
  <2>6. i <= j
    BY <1>1, <2>2, <2>3, <2>5
  <2>7. i = j
    BY <2>4, <2>6, SMTT(30)
  <2>8. Anc(p, i) = Anc(b, i)
    BY <1>2, <2>2
  <2>9. OwnerOn(b)[s] = PaidBy(Anc(b, j), s) /\ OwnerOn(p)[s] = PaidBy(Anc(p, i), s)
    BY <1>2, <1>3, <2>1, OwnerPays DEF i, j
  <2> QED
    BY <1>3, <2>1, <2>7, <2>8, <2>9 DEF RowsOn, i, j
<1>4. ASSUME PayHeights(p, s) = {}, Pays(b, s)
      PROVE  OwnerOn(b)[s] = PaidBy(b, s) /\ RowsOn(b)[s] = Row(PaidBy(b, s), Height(b))
  <2>1. PayHeights(b, s) = {Height(b)}
    BY <1>1, <1>4
  <2>2. OldestHeight(b, s) = Height(b)
    BY <2>1, OldestHeightType
  <2>3. OwnerOn(b)[s] = PaidBy(b, s)
    BY <1>2, <2>1, <2>2 DEF OwnerOn
  <2> QED
    BY <2>1, <2>2, <2>3 DEF RowsOn
<1>5. ASSUME PayHeights(p, s) = {}, ~Pays(b, s)
      PROVE  OwnerOn(b)[s] = NoTx /\ RowsOn(b)[s] = NoRow
  <2>1. PayHeights(b, s) = {}
    BY <1>1, <1>5
  <2> QED
    BY <2>1 DEF OwnerOn, RowsOn
<1> QED
  BY <1>3, <1>4, <1>5 DEF p

\* apply_batch of a child turns the UTXO set of its parent's chain into that of its own.
LEMMA ConnectsLedger ==
    ASSUME HeightFacts, NEW b \in Block, b # Genesis,
           key_images = SpentOn(Parent(b)), outputs = OutputsOn(Parent(b)),
           stealth_index = OwnerOn(Parent(b)), UtxoConnect(b)
    PROVE  key_images' = SpentOn(b) /\ outputs' = OutputsOn(b) /\ stealth_index' = OwnerOn(b)
<1>1. key_images' = SpentOn(b)
  BY SpentParent DEF UtxoConnect
<1>2. outputs' = OutputsOn(b)
  <2>1. OutputsOn(b) = OutputsOn(Parent(b)) \cup Txs(b)
    BY BranchParent, SMTT(30) DEF OutputsOn
  <2> QED
    BY <2>1 DEF UtxoConnect
<1>3. ASSUME NEW s \in Address PROVE stealth_index'[s] = OwnerOn(b)[s]
  <2>1. Parent(b) \in Block
    BY ParentAncestors
  <2>2. stealth_index'[s] = IF stealth_index[s] = NoTx /\ Pays(b, s)
                              THEN PaidBy(b, s) ELSE stealth_index[s]
    BY DEF UtxoConnect
  <2>3. CASE PayHeights(Parent(b), s) # {}
    BY <2>1, <2>2, <2>3, OwnerPays, OwnerParent
  <2>4. CASE PayHeights(Parent(b), s) = {}
    <3>1. stealth_index[s] = NoTx
      BY <2>4 DEF OwnerOn
    <3>2. OwnerOn(b)[s] = IF Pays(b, s) THEN PaidBy(b, s) ELSE NoTx
      BY <2>4, OwnerParent
    <3> QED
      BY <2>2, <3>1, <3>2, SMTT(30)
  <2> QED
    BY <2>3, <2>4
<1>4. stealth_index' = OwnerOn(b)
  <2>1. stealth_index' = [s \in Address |-> stealth_index'[s]]
    BY DEF UtxoConnect
  <2>2. OwnerOn(b) = [s \in Address |-> OwnerOn(b)[s]]
    BY DEF OwnerOn
  <2>3. [s \in Address |-> stealth_index'[s]] = [s \in Address |-> OwnerOn(b)[s]]
    BY <1>3
  <2> QED
    BY <2>1, <2>2, <2>3
<1> QED
  BY <1>1, <1>2, <1>4

\* apply_batch of a disconnect takes the UTXO set back to the parent's chain, and the
\* rows on disk of the addresses the block was the first of that chain to pay.
LEMMA DisconnectsLedger ==
    ASSUME HeightFacts, NEW b \in Block, b # Genesis, \A a \in Branch(b) : SpendsOnce(a),
           key_images = SpentOn(b), outputs = OutputsOn(b), stealth_index = OwnerOn(b),
           UtxoDisconnect(b)
    PROVE  /\ key_images' = SpentOn(Parent(b)) /\ outputs' = OutputsOn(Parent(b))
           /\ stealth_index' = OwnerOn(Parent(b))
           /\ \A s \in Address :
                db_outputs'[s] = IF PayHeights(Parent(b), s) = {} /\ Pays(b, s)
                                   THEN NoRow ELSE db_outputs[s]
<1> DEFINE p == Parent(b)
<1>1. /\ p \in Block /\ Branch(b) = Branch(p) \cup {b} /\ b \in Branch(b)
      /\ \A a \in Branch(p) : a # b
  <2>1. p \in Block /\ Height(p) = Height(b) - 1 /\ Height(b) \in Nat
    BY ParentAncestors, HeightType
  <2>2. \A a \in Branch(p) : Height(a) <= Height(p)
    BY <2>1, BranchBlocks
  <2>3. ~ (Height(b) <= Height(p))
    BY <2>1, SMTT(30)
  <2> QED
    BY <2>1, <2>2, <2>3, BranchParent, BranchBlocks
<1>2. \A a \in Branch(p) : Txs(a) \cap Txs(b) = {}
  BY <1>1, TxsOnce
<1>3. key_images' = SpentOn(p)
  <2>1. BlockKeyImages(b) \cap SpentOn(p) = {}
    BY <1>1 DEF SpendsOnce
  <2> QED
    BY <2>1, SpentParent DEF UtxoDisconnect
<1>4. outputs' = OutputsOn(p)
  BY <1>1, <1>2 DEF UtxoDisconnect, OutputsOn
<1>5. ASSUME NEW s \in Address
      PROVE  /\ stealth_index'[s] = OwnerOn(p)[s]
             /\ db_outputs'[s] = IF PayHeights(p, s) = {} /\ Pays(b, s) THEN NoRow ELSE db_outputs[s]
  <2>1. /\ stealth_index'[s] = IF stealth_index[s] \in Txs(b) THEN NoTx ELSE stealth_index[s]
        /\ db_outputs'[s] = IF stealth_index[s] \in Txs(b) THEN NoRow ELSE db_outputs[s]
    BY DEF UtxoDisconnect
  <2>2. CASE PayHeights(p, s) # {}
    <3>1. OwnerOn(b)[s] = OwnerOn(p)[s]
      BY <2>2, OwnerParent
    <3>2. /\ OwnerOn(p)[s] \in Txs(Anc(p, OldestHeight(p, s)))
          /\ OldestHeight(p, s) \in 0 .. Height(p)
      BY <1>1, <2>2, OwnerPays
    <3>3. Anc(p, OldestHeight(p, s)) \in Branch(p)
      BY <1>1, <3>2, BranchBlocks
    <3>4. OwnerOn(p)[s] \notin Txs(b)
      BY <1>2, <3>2, <3>3
    <3> QED
      BY <2>1, <2>2, <3>1, <3>4
  <2>3. CASE PayHeights(p, s) = {} /\ Pays(b, s)
    <3>1. OwnerOn(b)[s] = PaidBy(b, s) /\ PaidBy(b, s) \in Txs(b)
      BY <2>3, OwnerParent, PaidByType
    <3>2. OwnerOn(p)[s] = NoTx
      BY <2>3 DEF OwnerOn
    <3> QED
      BY <2>1, <2>3, <3>1, <3>2
  <2>4. CASE PayHeights(p, s) = {} /\ ~Pays(b, s)
    <3>1. OwnerOn(b)[s] = NoTx /\ OwnerOn(p)[s] = NoTx
      BY <2>4, OwnerParent DEF OwnerOn
    <3>2. NoTx \notin Txs(b)
      BY TxAssumption, TreeAssumption
    <3> QED
      BY <2>1, <2>4, <3>1, <3>2
  <2> QED
    BY <2>2, <2>3, <2>4
<1>6. stealth_index' = OwnerOn(p)
  <2>1. stealth_index' = [s \in Address |-> stealth_index'[s]]
    BY DEF UtxoDisconnect
  <2>2. OwnerOn(p) = [s \in Address |-> OwnerOn(p)[s]]
    BY DEF OwnerOn
  <2>3. [s \in Address |-> stealth_index'[s]] = [s \in Address |-> OwnerOn(p)[s]]
    BY <1>5
  <2> QED
    BY <2>1, <2>2, <2>3
<1> QED
  BY <1>3, <1>4, <1>5, <1>6

\* persist_output_index of a child turns the row of its parent's chain into its own.
LEMMA PersistsRow ==
    ASSUME HeightFacts, NEW b \in Block, b # Genesis, NEW s \in Address,
           NEW rows, rows[s] = RowsOn(Parent(b))[s]
    PROVE  PersistOutputs(rows, b)[s] = RowsOn(b)[s]
<1>1. Parent(b) \in Block
  BY ParentAncestors
<1>2. PersistOutputs(rows, b)[s] = IF rows[s] = NoRow /\ Pays(b, s)
                                     THEN Row(PaidBy(b, s), Height(b)) ELSE rows[s]
  BY DEF PersistOutputs
<1>3. CASE PayHeights(Parent(b), s) # {}
  <2>1. rows[s] = Row(OwnerOn(Parent(b))[s], OldestHeight(Parent(b), s))
    BY <1>3 DEF RowsOn
  <2>2. rows[s].tx = OwnerOn(Parent(b))[s] /\ NoRow.tx = NoTx
    BY <2>1, RowFields
  <2>3. rows[s] # NoRow
    BY <1>1, <1>3, <2>2, OwnerPays
  <2>4. RowsOn(b)[s] = rows[s]
    BY <1>3, OwnerParent
  <2> QED
    BY <1>2, <2>3, <2>4
<1>4. CASE PayHeights(Parent(b), s) = {}
  <2>1. rows[s] = NoRow
    BY <1>4 DEF RowsOn
  <2>2. RowsOn(b)[s] = IF Pays(b, s) THEN Row(PaidBy(b, s), Height(b)) ELSE NoRow
    BY <1>4, OwnerParent
  <2> QED
    BY <1>2, <2>1, <2>2, SMTT(30)
<1> QED
  BY <1>3, <1>4

\* rebuild_utxo_set over the stored blocks 0 .. n of the chain of the tip yields the
\* ledger of the block at n, and writes its rows if the output index was empty.
LEMMA ReplaysLedger ==
    ASSUME HeightFacts, ChainInv, Loadable, NEW last \in 0 .. Height(T), Replay(last),
           NEW n \in 0 .. last, \A h \in 0 .. n : DiskBlock(h) # NoBlock,
           \A h \in n + 1 .. last : DiskBlock(h) = NoBlock
    PROVE  /\ key_images' = SpentOn(Anc(T, n)) /\ outputs' = OutputsOn(Anc(T, n))
           /\ stealth_index' = OwnerOn(Anc(T, n))
           /\ \/ db_outputs' = db_outputs
              \/ db_outputs' = RowsOn(Anc(T, n)) /\ \A s \in Address : db_outputs[s] = NoRow
           /\ stats' = Stats(RecomputedWork, db_state.total_supply, db_state.total_burned, n + 1)
           /\ \A h \in 1 .. n : h + KeepBlocks >= Height(T) =>
                height_to_hash'[h] = Anc(T, h) /\ height_to_hash'[h] \in cache'
<1> DEFINE c == Anc(T, n)
           replayed == {h \in 0 .. last : DiskBlock(h) # NoBlock}
           cached   == {h \in replayed : h >= SatSub(db_state.height, KeepBlocks)}
           payers(s) == {h \in replayed : Pays(DiskBlock(h), s)}
           first(s)  == Lowest(payers(s))
           rows      == [s \in Address |-> IF payers(s) = {} THEN NoRow
                                            ELSE Row(PaidBy(DiskBlock(first(s)), s), first(s))]
<1>1. /\ cache' = {DiskBlock(h) : h \in cached}
      /\ height_to_hash' = [h \in Heights |-> IF h \in cached THEN DiskBlock(h) ELSE NoBlock]
      /\ stats' = Stats(RecomputedWork, db_state.total_supply, db_state.total_burned,
                        Cardinality(replayed))
      /\ outputs' = UNION {Txs(DiskBlock(h)) : h \in replayed}
      /\ key_images' = UNION {BlockKeyImages(DiskBlock(h)) : h \in replayed}
      /\ stealth_index' = [s \in Address |-> rows[s].tx]
      /\ db_outputs' = IF db_state.height > 0 /\ \A s \in Address : db_outputs[s] = NoRow
                         THEN rows ELSE db_outputs
  BY DEF Replay
<1>2. /\ T \in Block /\ Height(T) \in Nat /\ n \in 0 .. Height(T) /\ n \in Nat
      /\ \A h \in 0 .. n : h \in 0 .. last /\ h \in 0 .. Height(T)
      /\ \A h \in 0 .. last : h \in 0 .. n \/ h \in n + 1 .. last
      /\ db_state.height = Height(T)
  <2>1. T \in Block /\ Height(T) \in Nat /\ db_state.height = Height(T)
    BY StoredBlocks
  <2> QED
    BY <2>1, SMTT(30)
<1>3. replayed = 0 .. n
  BY <1>2
<1>4. c \in Block /\ Height(c) = n
  BY <1>2, AncType
<1>5. \A h \in 0 .. n : DiskBlock(h) = Anc(c, h)
  <2>1. \A h \in 0 .. n : DiskBlock(h) = Anc(T, h)
    BY <1>2, StoredBlocks
  <2>2. \A h \in 0 .. n : Anc(c, h) = Anc(T, h)
    BY <1>2, AncAnc
  <2> QED
    BY <2>1, <2>2
<1> HIDE DEF c, replayed
<1>6. outputs' = OutputsOn(c) /\ key_images' = SpentOn(c)
  <2>1. outputs' = UNION {Txs(Anc(c, h)) : h \in 0 .. n}
    BY <1>1, <1>3, <1>5
  <2>2. key_images' = UNION {BlockKeyImages(Anc(c, h)) : h \in 0 .. n}
    BY <1>1, <1>3, <1>5
  <2>3. Branch(c) = {Anc(c, h) : h \in 0 .. n}
    BY <1>4 DEF Branch
  <2>4. OutputsOn(c) = UNION {Txs(Anc(c, h)) : h \in 0 .. n}
    BY <2>3 DEF OutputsOn
  <2>5. SpentOn(c) = UNION {BlockKeyImages(Anc(c, h)) : h \in 0 .. n}
    BY <2>3 DEF SpentOn, Images
  <2> QED
    BY <2>1, <2>2, <2>4, <2>5
<1>7. ASSUME NEW s \in Address
      PROVE  rows[s] = RowsOn(c)[s] /\ rows[s].tx = OwnerOn(c)[s]
  <2>1. payers(s) = PayHeights(c, s)
    BY <1>3, <1>4, <1>5 DEF PayHeights
  <2>2. CASE PayHeights(c, s) = {}
    <3>1. rows[s] = NoRow
      BY <2>1, <2>2
    <3>2. RowsOn(c)[s] = NoRow /\ OwnerOn(c)[s] = NoTx
      BY <2>2 DEF RowsOn, OwnerOn
    <3> QED
      BY <3>1, <3>2, RowFields
  <2>3. CASE PayHeights(c, s) # {}
    <3>1. first(s) = OldestHeight(c, s)
      BY <2>1 DEF OldestHeight
    <3>2. /\ OldestHeight(c, s) \in 0 .. n
          /\ OwnerOn(c)[s] = PaidBy(Anc(c, OldestHeight(c, s)), s)
      BY <1>4, <2>3, OwnerPays
    <3>3. rows[s] = Row(PaidBy(DiskBlock(first(s)), s), first(s))
      BY <2>1, <2>3
    <3> HIDE DEF first
    <3>4. rows[s] = Row(OwnerOn(c)[s], OldestHeight(c, s))
      BY <1>5, <3>1, <3>2, <3>3
    <3>5. RowsOn(c)[s] = Row(OwnerOn(c)[s], OldestHeight(c, s))
      BY <2>3 DEF RowsOn
    <3> QED
      BY <3>4, <3>5, RowFields
  <2> QED
    BY <2>2, <2>3
<1>8. stealth_index' = OwnerOn(c) /\ rows = RowsOn(c)
  <2>1. /\ OwnerOn(c) = [s \in Address |-> OwnerOn(c)[s]]
        /\ RowsOn(c) = [s \in Address |-> RowsOn(c)[s]]
    BY DEF OwnerOn, RowsOn
  <2>2. rows = [s \in Address |-> rows[s]]
    OBVIOUS
  <2> HIDE DEF rows
  <2> QED
    BY <1>1, <1>7, <2>1, <2>2
<1> HIDE DEF rows
<1>9. \/ db_outputs' = db_outputs
      \/ db_outputs' = RowsOn(c) /\ \A s \in Address : db_outputs[s] = NoRow
  BY <1>1, <1>8
<1>10. Cardinality(replayed) = n + 1
  BY <1>2, <1>3 DEF HeightFacts
<1>11. ASSUME NEW h \in 1 .. n, h + KeepBlocks >= Height(T)
       PROVE  height_to_hash'[h] = Anc(T, h) /\ height_to_hash'[h] \in cache'
  <2>1. h \in 0 .. n /\ h >= SatSub(Height(T), KeepBlocks)
    BY <1>2, <1>11, ChainAssumption, SMTT(30) DEF SatSub
  <2>2. h \in cached /\ h \in Heights /\ DiskBlock(h) = Anc(T, h)
    <3>1. h \in Heights
      BY <1>2, <2>1, AncType
    <3>2. DiskBlock(h) = Anc(T, h)
      BY <1>2, <2>1, StoredBlocks
    <3> QED
      BY <1>2, <1>3, <2>1, <3>1, <3>2
  <2> QED
    BY <1>1, <2>2
<1> QED
  BY <1>1, <1>6, <1>8, <1>9, <1>10, <1>11 DEF c

-----------------------------------------------------------------------------
(* Reads, sums and choices.                                                *)

\* Where every ancestor of a stored block is stored, a restart finds the whole chain of
\* the committed tip, truncates nothing and recomputes its work.
LEMMA AllStored ==
    ASSUME HeightFacts, ChainInv, StoredOK, Loadable
    PROVE  /\ T \in Block /\ Height(T) \in Nat /\ db_state.height = Height(T)
           /\ \A h \in 0 .. Height(T) : DiskBlock(h) # NoBlock
           /\ BrokenLinks = {}
           /\ RecomputedWork = CumWork(T)
<1>1. T \in Block /\ Height(T) \in Nat /\ db_state.height = Height(T)
  BY StoredBlocks
<1>2. \A h \in 0 .. Height(T) : DiskBlock(h) = Anc(T, h) /\ DiskBlock(h) # NoBlock
  <2>1. \A h \in 0 .. Height(T) : db_heights[h] = Anc(T, h) /\ Anc(T, h) \in db_blocks
    BY DEF ChainInv, DiskOK, StoredOK, Branch
  <2>2. NoBlock \notin db_blocks
    BY TreeAssumption DEF ChainInv, TypeOK
  <2> QED
    BY <2>1, <2>2 DEF DiskBlock
<1>3. ASSUME NEW h \in 1 .. Height(T) PROVE Parent(DiskBlock(h)) = DiskBlock(LastBelow(h))
  <2>1. LastBelow(h) \in 0 .. h - 1 /\ \A j \in LastBelow(h) + 1 .. h - 1 : DiskBlock(j) = NoBlock
    BY LastBelowFacts
  <2>2. h \in 0 .. Height(T) /\ h - 1 \in 0 .. Height(T)
    BY <1>1, SMTT(30)
  <2>3. h - 1 \notin LastBelow(h) + 1 .. h - 1
    BY <1>2, <2>1, <2>2
  <2>4. LastBelow(h) = h - 1
    BY <2>1, <2>3, SMTT(30)
  <2>5. Parent(Anc(T, h)) = Anc(T, h - 1)
    BY <1>1, AncParent
  <2> QED
    BY <1>2, <2>2, <2>4, <2>5
<1>4. BrokenLinks = {}
  BY <1>1, <1>3 DEF BrokenLinks
<1>5. RecomputedWork = CumWork(T)
  <2>1. \A h \in 1 .. Height(T) : DiskBlock(h) = Anc(T, h) /\ DiskBlock(h) # NoBlock
    BY <1>1, <1>2, SMTT(30)
  <2>2. [h \in 1 .. db_state.height |-> Difficulty(DiskBlock(h))]
          = [h \in 1 .. Height(T) |-> Difficulty(Anc(T, h))]
    BY <1>1, <2>1
  <2>3. CumWork(T) = 1 + SumFunction([h \in 1 .. Height(T) |-> Difficulty(Anc(T, h))])
    BY <1>1, WorkAssumption
  <2> QED
    BY <1>1, <2>1, <2>2, <2>3 DEF RecomputedWork
<1> QED
  BY <1>1, <1>2, <1>4, <1>5

\* Where no read fails, calculate_fork_cumulative_work of a block with its ancestors
\* stored yields the work of its chain.
LEMMA ForkWorkExact ==
    ASSUME ~ReadErrors, NEW b \in Block, b # Genesis, Branch(Parent(b)) \subseteq db_blocks,
           NEW w \in ForkWorks(b)
    PROVE  w = CumWork(b)
<1> SUFFICES ASSUME NEW k \in Heights, WalkStops(b, k) PROVE FALSE
  BY DEF ForkWorks
<1>1. k \in 0 .. Height(b) - 1 /\ Height(Parent(b)) = Height(b) - 1
  BY HeightType, ParentAncestors, SMTT(30) DEF WalkStops, Heights
<1>2. Anc(b, k) \in Branch(Parent(b))
  BY <1>1, ParentAncestors DEF Branch
<1> QED
  BY <1>2 DEF WalkStops, Readable

\* An update of the sums in a ChainStats ...
LEMMA StatsOfSums ==
    ASSUME NEW s \in StatsType, NEW x \in Int, NEW y \in Int
    PROVE  [s EXCEPT !.total_supply = x, !.total_burned = y] = Stats(s.total_difficulty, x, y, s.total_blocks)
<1> DEFINE a == [s EXCEPT !.total_supply = x, !.total_burned = y]
<1>1. a \in StatsType
  BY DEF StatsType
<1>2. /\ a.total_difficulty = s.total_difficulty /\ a.total_blocks = s.total_blocks
      /\ a.total_supply = x /\ a.total_burned = y
  BY DEF StatsType
<1> HIDE DEF a
<1>3. a = Stats(s.total_difficulty, x, y, s.total_blocks)
  BY <1>1, <1>2 DEF StatsType, Stats
<1> QED
  BY <1>3 DEF a

\* ... and one of the work and the number of blocks.
LEMMA StatsOfTip ==
    ASSUME NEW s \in StatsType, NEW x \in Int, NEW y \in Int
    PROVE  [s EXCEPT !.total_difficulty = x, !.total_blocks = y] = Stats(x, s.total_supply, s.total_burned, y)
<1> DEFINE a == [s EXCEPT !.total_difficulty = x, !.total_blocks = y]
<1>1. a \in StatsType
  BY DEF StatsType
<1>2. /\ a.total_supply = s.total_supply /\ a.total_burned = s.total_burned
      /\ a.total_difficulty = x /\ a.total_blocks = y
  BY DEF StatsType
<1> HIDE DEF a
<1>3. a = Stats(x, s.total_supply, s.total_burned, y)
  BY <1>1, <1>2 DEF StatsType, Stats
<1> QED
  BY <1>3 DEF a

\* The sums over a chain are integers.
LEMMA SumsType ==
    ASSUME NEW b \in Block
    PROVE  CumWork(b) \in Int /\ CumSupply(b) \in Int /\ CumBurn(b) \in Int
<1>1. CumWork(b) \in Nat /\ CumSupply(b) \in Nat /\ CumBurn(b) \in Nat
  BY WorkAssumption
<1> QED
  BY <1>1, SMTT(30)

\* Minted adds to the sums of the parent what makes those of the block, and Unminted
\* takes it away again.
LEMMA MintsParent ==
    ASSUME NEW b \in Block, b # Genesis, NEW w \in Int, NEW n \in Int
    PROVE  /\ Minted(Stats(w, CumSupply(Parent(b)), CumBurn(Parent(b)), n), b)
                = Stats(w, CumSupply(b), CumBurn(b), n)
           /\ Unminted(Stats(w, CumSupply(b), CumBurn(b), n), b)
                = Stats(w, CumSupply(Parent(b)), CumBurn(Parent(b)), n)
<1>1. /\ CumSupply(b) = CumSupply(Parent(b)) + Reward(Height(b))
      /\ CumBurn(b) = CumBurn(Parent(b)) + Burn(b)
  BY WorkAssumption
<1>2. /\ CumSupply(Parent(b)) \in Int /\ Reward(Height(b)) \in Int
      /\ CumBurn(Parent(b)) \in Int /\ Burn(b) \in Int
  <2>1. Height(b) \in Heights /\ Parent(b) \in Block
    BY ParentAncestors, HeightType
  <2>2. /\ CumSupply(Parent(b)) \in Nat /\ Reward(Height(b)) \in Nat
        /\ CumBurn(Parent(b)) \in Nat /\ Burn(b) \in Nat
    BY <2>1, WorkAssumption
  <2> QED
    BY <2>2, SMTT(30)
<1>3. /\ CumSupply(b) - Reward(Height(b)) = CumSupply(Parent(b))
      /\ CumBurn(b) - Burn(b) = CumBurn(Parent(b))
  BY <1>1, <1>2, SMTT(30)
<1>6. CumSupply(b) \in Int /\ CumBurn(b) \in Int
  BY SumsType
<1>4. /\ Stats(w, CumSupply(b), CumBurn(b), n) \in StatsType
      /\ Stats(w, CumSupply(b), CumBurn(b), n).total_difficulty = w
      /\ Stats(w, CumSupply(b), CumBurn(b), n).total_blocks = n
      /\ Stats(w, CumSupply(b), CumBurn(b), n).total_supply = CumSupply(b)
      /\ Stats(w, CumSupply(b), CumBurn(b), n).total_burned = CumBurn(b)
  BY <1>6 DEF Stats, StatsType
<1>5. /\ Stats(w, CumSupply(Parent(b)), CumBurn(Parent(b)), n) \in StatsType
      /\ Stats(w, CumSupply(Parent(b)), CumBurn(Parent(b)), n).total_difficulty = w
      /\ Stats(w, CumSupply(Parent(b)), CumBurn(Parent(b)), n).total_blocks = n
      /\ Stats(w, CumSupply(Parent(b)), CumBurn(Parent(b)), n).total_supply = CumSupply(Parent(b))
      /\ Stats(w, CumSupply(Parent(b)), CumBurn(Parent(b)), n).total_burned = CumBurn(Parent(b))
  BY <1>2 DEF Stats, StatsType
<1> DEFINE below == Stats(w, CumSupply(Parent(b)), CumBurn(Parent(b)), n)
           above == Stats(w, CumSupply(b), CumBurn(b), n)
<1>7. /\ below.total_supply + Reward(Height(b)) = CumSupply(b)
      /\ below.total_burned + Burn(b) = CumBurn(b)
      /\ above.total_supply - Reward(Height(b)) = CumSupply(Parent(b))
      /\ above.total_burned - Burn(b) = CumBurn(Parent(b))
  BY <1>1, <1>3, <1>4, <1>5
<1>8. below \in StatsType /\ above \in StatsType
  BY <1>4, <1>5
<1>9. /\ below.total_difficulty = w /\ below.total_blocks = n
      /\ above.total_difficulty = w /\ above.total_blocks = n
  BY <1>4, <1>5
<1> HIDE DEF below, above
<1>10. Minted(below, b) = Stats(w, CumSupply(b), CumBurn(b), n)
  BY <1>6, <1>7, <1>8, <1>9, StatsOfSums DEF Minted
<1>11. Unminted(above, b) = Stats(w, CumSupply(Parent(b)), CumBurn(Parent(b)), n)
  BY <1>2, <1>7, <1>8, <1>9, StatsOfSums DEF Unminted
<1> QED
  BY <1>10, <1>11 DEF above, below

\* An address that a chain pays is paid by every longer one.
LEMMA PaidAbove ==
    ASSUME NEW b \in Block, NEW a \in Branch(b), NEW s, PayHeights(a, s) # {}
    PROVE  PayHeights(b, s) # {}
<1>1. /\ a \in Block /\ Height(a) \in Nat /\ Height(b) \in Nat
      /\ Height(a) <= Height(b) /\ a = Anc(b, Height(a))
  BY BranchBlocks, HeightType
<1>2. PICK h \in 0 .. Height(a) : Pays(Anc(a, h), s)
  BY DEF PayHeights
<1>3. Height(a) \in 0 .. Height(b) /\ h \in 0 .. Height(b)
  BY <1>1, SMTT(30)
<1>4. Anc(a, h) = Anc(b, h)
  BY <1>1, <1>3, AncAnc
<1> QED
  BY <1>2, <1>3, <1>4 DEF PayHeights

\* What is below an acceptable block is acceptable.
LEMMA AcceptableBelow ==
    ASSUME NEW b \in Block, NEW a \in Branch(b), AcceptableChain(b)
    PROVE  AcceptableChain(a)
<1>1. /\ a \in Block /\ Height(a) \in Nat /\ Height(b) \in Nat
      /\ Height(a) <= Height(b) /\ a = Anc(b, Height(a))
  BY BranchBlocks, HeightType
<1>2. Height(a) \in 0 .. Height(b) /\ \A h \in 0 .. Height(a) : h \in 0 .. Height(b)
  BY <1>1, SMTT(30)
<1>3. \A h \in 0 .. Height(a) : Anc(a, h) = Anc(b, h)
  BY <1>1, <1>2, AncAnc
<1>4. Branch(a) \subseteq Branch(b)
  BY <1>2, <1>3 DEF Branch
<1> QED
  BY <1>4 DEF AcceptableChain

\* On the ledger of the parent, a block passes the contextual and the shielded checks
\* exactly if it makes an acceptable chain out of an acceptable one.
LEMMA ValidIsAcceptable ==
    ASSUME NEW b \in Block, b # Genesis, HeightFacts,
           key_images = SpentOn(Parent(b)), stealth_index = OwnerOn(Parent(b)),
           \A s \in Address : db_outputs[s] # NoRow => PayHeights(Parent(b), s) # {}
    PROVE  /\ AcceptableChain(b) => ContextValid(b) /\ b \in ShieldedOk
           /\ AcceptableChain(Parent(b)) /\ NoDuplicateKeyImages(b) /\ ContextValid(b) /\ b \in ShieldedOk
                => AcceptableChain(b)
<1> DEFINE p == Parent(b)
<1>1. p \in Block /\ Branch(b) = Branch(p) \cup {b} /\ b \in Branch(b)
  BY ParentAncestors, BranchParent
<1>2. \A s \in Address : s \in Indexed <=> PayHeights(p, s) # {}
  <2>1. \A s \in Address : OwnerOn(p)[s] # NoTx <=> PayHeights(p, s) # {}
    BY <1>1, OwnerPays DEF OwnerOn
  <2> QED
    BY <2>1 DEF Indexed
<1>3. \A t \in Txs(b) : Addr(t) \in Address /\ Ring(t) \subseteq Address
  BY TxAssumption
<1>4. ASSUME AcceptableChain(b) PROVE ContextValid(b) /\ b \in ShieldedOk
  <2>1. /\ b \in ShieldedOk /\ SpendsOnce(b)
        /\ \A t \in Txs(b) : /\ \A s \in Ring(t) : PayHeights(p, s) # {}
                             /\ KeyImages(t) # {} => PayHeights(p, Addr(t)) = {}
    BY <1>1, <1>4 DEF AcceptableChain
  <2>2. BlockKeyImages(b) \cap key_images = {}
    BY <2>1 DEF SpendsOnce
  <2>3. ASSUME NEW t \in Txs(b)
        PROVE  Ring(t) \subseteq Indexed /\ (KeyImages(t) # {} => Addr(t) \notin Indexed)
    <3>1. Addr(t) \in Address /\ Ring(t) \subseteq Address
      BY <1>3
    <3>2. \A s \in Ring(t) : PayHeights(p, s) # {}
      BY <2>1
    <3>3. KeyImages(t) # {} => PayHeights(p, Addr(t)) = {}
      BY <2>1
    <3> HIDE DEF p
    <3> QED
      BY <1>2, <3>1, <3>2, <3>3
  <2> QED
    BY <2>1, <2>2, <2>3 DEF ContextValid
<1>5. ASSUME AcceptableChain(p), NoDuplicateKeyImages(b), ContextValid(b), b \in ShieldedOk
      PROVE  AcceptableChain(b)
  <2>1. SpendsOnce(b)
    BY <1>5 DEF SpendsOnce, ContextValid
  <2>2. \A t \in Txs(b) : /\ \A s \in Ring(t) : PayHeights(p, s) # {}
                          /\ KeyImages(t) # {} => PayHeights(p, Addr(t)) = {}
    BY <1>2, <1>3, <1>5 DEF ContextValid
  <2> HIDE DEF p
  <2> QED
    BY <1>1, <1>5, <2>1, <2>2 DEF AcceptableChain, p
<1> QED
  BY <1>4, <1>5


\* While the fork is connected, the rows on disk are among the outputs of the chain that
\* the next fork block extends.
LEMMA ConnectRows ==
    ASSUME ChainInv, phase = "connect", RowsOnChain
    PROVE  \A s \in Address : db_outputs[s] # NoRow => PayHeights(Parent(NextForkBlock), s) # {}
<1> DEFINE p == Parent(NextForkBlock)
<1>1. /\ p = Anc(job.block, job.at) /\ job.block \in Block /\ job.at + 1 <= Height(job.block)
      /\ job.at \in Nat /\ job.fork \in Nat /\ job.fork <= job.at /\ Height(job.block) \in Nat
      /\ \A h \in 0 .. job.fork : Anc(job.block, h) = Anc(T, h)
  BY NextForkFacts, ReorgFacts
<1>2. job.fork \in 0 .. job.fork /\ job.fork \in 0 .. job.at /\ job.at \in 0 .. Height(job.block)
  BY <1>1, SMTT(30)
<1> HIDE DEF p
<1>3. p \in Block /\ Height(p) = job.at /\ Anc(p, job.fork) = Anc(T, job.fork)
  BY <1>1, <1>2, AncType, AncAnc
<1>4. Anc(T, job.fork) \in Branch(p)
  BY <1>2, <1>3 DEF Branch
<1> QED
  BY <1>3, <1>4, PaidAbove DEF RowsOnChain, RowBase, p
-----------------------------------------------------------------------------
(* What a reorg commits.                                                   *)

\* The blocks of the new branch share no transaction with one another or with the chain
\* below the fork, and so do those of the old one.
Switches(o, b, f, gone) ==
    /\ o \in Block /\ b \in Block /\ f \in Nat /\ f <= Height(o) /\ f < Height(b)
    /\ \A h \in 0 .. f : Anc(b, h) = Anc(o, h)
    /\ \A a \in Branch(o) : SpendsOnce(a)
    /\ \A a \in Branch(b) : SpendsOnce(a)
    /\ gone = {Anc(o, h) : h \in f + 1 .. Height(o)}

\* The heights at which a chain contains a transaction, below the fork and above it.
LEMMA SwitchHeights ==
    ASSUME NEW o, NEW b, NEW f, NEW gone, Switches(o, b, f, gone)
    PROVE  /\ Height(o) \in Nat /\ Height(b) \in Nat
           /\ \A h \in 0 .. f : h \in 0 .. Height(o) /\ h \in 0 .. Height(b)
           /\ \A h \in f + 1 .. Height(o) : h \in 0 .. Height(o) /\ h \notin 0 .. f
           /\ \A h \in f + 1 .. Height(b) : h \in 0 .. Height(b) /\ h \notin 0 .. f
           /\ \A h \in 0 .. Height(o) : h \in 0 .. f \/ h \in f + 1 .. Height(o)
           /\ \A h \in 0 .. Height(b) : h \in 0 .. f \/ h \in f + 1 .. Height(b)
           /\ \A h, k \in 0 .. Height(o) : Txs(Anc(o, h)) \cap Txs(Anc(o, k)) # {} => h = k
           /\ \A h, k \in 0 .. Height(b) : Txs(Anc(b, h)) \cap Txs(Anc(b, k)) # {} => h = k
<1>1. Height(o) \in Nat /\ Height(b) \in Nat /\ f \in Nat /\ f <= Height(o) /\ f < Height(b)
  BY HeightType DEF Switches
<1>2. ASSUME NEW c \in Block, \A a \in Branch(c) : SpendsOnce(a),
             NEW h \in 0 .. Height(c), NEW k \in 0 .. Height(c), h # k
      PROVE  Txs(Anc(c, h)) \cap Txs(Anc(c, k)) = {}
  <2>1. Anc(c, h) \in Branch(c) /\ Anc(c, k) \in Branch(c)
    BY DEF Branch
  <2>2. Anc(c, h) # Anc(c, k)
    BY <1>2, AncType
  <2> QED
    BY <1>2, <2>1, <2>2, TxsOnce
<1>3. /\ \A h \in 0 .. f : h \in 0 .. Height(o) /\ h \in 0 .. Height(b)
      /\ \A h \in f + 1 .. Height(o) : h \in 0 .. Height(o) /\ h \notin 0 .. f
      /\ \A h \in f + 1 .. Height(b) : h \in 0 .. Height(b) /\ h \notin 0 .. f
      /\ \A h \in 0 .. Height(o) : h \in 0 .. f \/ h \in f + 1 .. Height(o)
      /\ \A h \in 0 .. Height(b) : h \in 0 .. f \/ h \in f + 1 .. Height(b)
  BY <1>1, SMTT(30)
<1>4. \A h, k \in 0 .. Height(o) : Txs(Anc(o, h)) \cap Txs(Anc(o, k)) # {} => h = k
  BY <1>2 DEF Switches
<1>5. \A h, k \in 0 .. Height(b) : Txs(Anc(b, h)) \cap Txs(Anc(b, k)) # {} => h = k
  BY <1>2 DEF Switches
<1> QED
  BY <1>1, <1>3, <1>4, <1>5

\* apply_reorg_atomic turns the tx index of the old chain into that of the new one.
LEMMA SwitchesTxs ==
    ASSUME HeightFacts, NEW o, NEW b, NEW f, NEW gone, Switches(o, b, f, gone), NEW x \in Tx,
           LET on == {h \in 0 .. Height(o) : x \in Txs(Anc(o, h))}
           IN  IF on = {} THEN db_txs[x] = NoHeight ELSE db_txs[x] \in on
    PROVE  LET on == {h \in 0 .. Height(b) : x \in Txs(Anc(b, h))}
           IN  IF on = {} THEN ReorgTxs(b, f, gone)[x] = NoHeight ELSE ReorgTxs(b, f, gone)[x] \in on
<1>o. o \in Block /\ \A h \in 0 .. f : Anc(b, h) = Anc(o, h)
  BY DEF Switches
<1>b. b \in Block /\ f \in Nat /\ gone = {Anc(o, h) : h \in f + 1 .. Height(o)}
  BY DEF Switches
<1>h. /\ \A h \in 0 .. f : h \in 0 .. Height(o) /\ h \in 0 .. Height(b)
      /\ \A h \in f + 1 .. Height(o) : h \in 0 .. Height(o) /\ h \notin 0 .. f
      /\ \A h \in f + 1 .. Height(b) : h \in 0 .. Height(b) /\ h \notin 0 .. f
  BY SwitchHeights
<1>k. /\ \A h \in 0 .. Height(o) : h \in 0 .. f \/ h \in f + 1 .. Height(o)
      /\ \A h \in 0 .. Height(b) : h \in 0 .. f \/ h \in f + 1 .. Height(b)
  BY SwitchHeights
<1>t. /\ \A h, k \in 0 .. Height(o) : Txs(Anc(o, h)) \cap Txs(Anc(o, k)) # {} => h = k
      /\ \A h, k \in 0 .. Height(b) : Txs(Anc(b, h)) \cap Txs(Anc(b, k)) # {} => h = k
  BY SwitchHeights
<1> DEFINE on(c) == {h \in 0 .. Height(c) : x \in Txs(Anc(c, h))}
           added == {h \in f + 1 .. Height(b) : x \in Txs(Anc(b, h))}
           row == ReorgTxs(b, f, gone)[x]
<1>1. row = IF added # {} THEN Highest(added)
            ELSE IF \E a \in gone : x \in Txs(a) THEN NoHeight ELSE db_txs[x]
  BY DEF ReorgTxs
<1>2. IF on(o) = {} THEN db_txs[x] = NoHeight ELSE db_txs[x] \in on(o)
  OBVIOUS
<1>3. added \subseteq on(b) /\ (added = {} => \A h \in on(b) : h \in 0 .. f /\ h \in on(o))
  BY <1>o, <1>h, <1>k
<1>4. CASE added # {}
  <2>1. added \in SUBSET Heights
    BY <1>b, <1>h, AncType
  <2>2. Highest(added) \in added
    BY <1>4, <2>1, HighestType
  <2> QED
    BY <1>1, <1>3, <1>4, <2>2
<1>5. CASE added = {} /\ \E a \in gone : x \in Txs(a)
  <2>1. PICK k \in f + 1 .. Height(o) : x \in Txs(Anc(o, k))
    BY <1>5, <1>b
  <2>2. \A h \in on(b) : h = k
    <3> SUFFICES ASSUME NEW h \in on(b) PROVE h = k
      OBVIOUS
    <3>1. h \in 0 .. Height(o) /\ k \in 0 .. Height(o) /\ x \in Txs(Anc(o, h))
      BY <1>3, <1>5, <1>h
    <3> QED
      BY <1>t, <2>1, <3>1
  <2>3. on(b) = {}
    BY <1>3, <1>5, <1>h, <2>2
  <2> QED
    BY <1>1, <1>5, <2>3
<1>6. CASE added = {} /\ ~\E a \in gone : x \in Txs(a)
  <2>1. \A h \in on(o) : h \in 0 .. f
    BY <1>6, <1>b, <1>k
  <2>2. on(o) = on(b)
    BY <1>3, <1>6, <1>h, <1>o, <2>1
  <2>3. row = db_txs[x]
    BY <1>1, <1>6
  <2> HIDE DEF on, row
  <2>4. IF on(b) = {} THEN row = NoHeight ELSE row \in on(b)
    BY <1>2, <2>2, <2>3
  <2> QED
    BY <2>4 DEF on, row
<1> QED
  BY <1>4, <1>5, <1>6

\* It leaves rows of the new chain only, and, at an address one transaction only uses,
\* turns the row of the common part into that of the new chain.
LEMMA SwitchesRows ==
    ASSUME HeightFacts, NEW o, NEW b, NEW f, NEW gone, Switches(o, b, f, gone), NEW s \in Address
    PROVE  /\ /\ ReorgRows(b, f, gone)[s] # NoRow
              /\ db_outputs[s] # NoRow => PayHeights(Anc(o, f), s) # {}
              => PayHeights(b, s) # {}
           /\ s \in Unshared /\ db_outputs[s] = RowsOn(Anc(o, f))[s] =>
                ReorgRows(b, f, gone)[s] = RowsOn(b)[s]
<1>o. o \in Block /\ \A h \in 0 .. f : Anc(b, h) = Anc(o, h)
  BY DEF Switches
<1>b. b \in Block /\ f \in Nat /\ gone = {Anc(o, h) : h \in f + 1 .. Height(o)}
  BY DEF Switches
<1>h. /\ \A h \in 0 .. f : h \in 0 .. Height(o) /\ h \in 0 .. Height(b)
      /\ \A h \in f + 1 .. Height(o) : h \in 0 .. Height(o) /\ h \notin 0 .. f
      /\ \A h \in f + 1 .. Height(b) : h \in 0 .. Height(b) /\ h \notin 0 .. f
  BY SwitchHeights
<1>k. /\ \A h \in 0 .. Height(o) : h \in 0 .. f \/ h \in f + 1 .. Height(o)
      /\ \A h \in 0 .. Height(b) : h \in 0 .. f \/ h \in f + 1 .. Height(b)
  BY SwitchHeights
<1>t. /\ \A h, k \in 0 .. Height(o) : Txs(Anc(o, h)) \cap Txs(Anc(o, k)) # {} => h = k
      /\ \A h, k \in 0 .. Height(b) : Txs(Anc(b, h)) \cap Txs(Anc(b, k)) # {} => h = k
  BY SwitchHeights
<1> DEFINE a == Anc(o, f)
           removed == \E c \in gone : Pays(c, s)
           adders == {h \in f + 1 .. Height(b) : Pays(Anc(b, h), s)}
           row == ReorgRows(b, f, gone)[s]
<1>1. row = IF adders # {} /\ (removed \/ db_outputs[s] = NoRow)
              THEN Row(PaidBy(Anc(b, Highest(adders)), s), Highest(adders))
              ELSE IF removed THEN NoRow ELSE db_outputs[s]
  BY DEF ReorgRows
<1>2. /\ a = Anc(b, f) /\ a \in Block /\ Height(a) = f /\ \A h \in 0 .. f : Anc(a, h) = Anc(b, h)
  <2>1. f \in 0 .. f
    BY <1>b, SMTT(30)
  <2>2. f \in 0 .. Height(b) /\ a = Anc(b, f)
    BY <1>h, <1>o, <2>1
  <2> QED
    BY <1>b, <2>2, AncType, AncAnc
<1>3. PayHeights(b, s) = PayHeights(a, s) \cup adders
  BY <1>2, <1>h, <1>k DEF PayHeights
<1> HIDE DEF row, a, removed, adders
<1>4. row # NoRow /\ (db_outputs[s] # NoRow => PayHeights(a, s) # {}) => PayHeights(b, s) # {}
  BY <1>1, <1>3
<1>5. ASSUME s \in Unshared, db_outputs[s] = RowsOn(a)[s] PROVE row = RowsOn(b)[s]
  <2>1. ASSUME NEW c \in Block, NEW h \in 0 .. Height(c), NEW d \in Block, NEW k \in 0 .. Height(d),
               Pays(Anc(c, h), s), Pays(Anc(d, k), s)
        PROVE  Txs(Anc(c, h)) \cap Txs(Anc(d, k)) # {}
    <3>1. Anc(c, h) \in Block /\ Anc(d, k) \in Block
      BY AncType
    <3>2. PICK t \in Txs(Anc(c, h)) : t \in Tx /\ Addr(t) = s
      BY <2>1, <3>1, TxAssumption DEF Pays
    <3>3. PICK u \in Txs(Anc(d, k)) : u \in Tx /\ Addr(u) = s
      BY <2>1, <3>1, TxAssumption DEF Pays
    <3> QED
      BY <1>5, <3>2, <3>3 DEF Unshared
  <2>2. \A h, k \in PayHeights(b, s) : h = k
    <3> SUFFICES ASSUME NEW h \in PayHeights(b, s), NEW k \in PayHeights(b, s) PROVE h = k
      OBVIOUS
    <3>1. /\ h \in 0 .. Height(b) /\ k \in 0 .. Height(b)
          /\ Pays(Anc(b, h), s) /\ Pays(Anc(b, k), s)
      BY DEF PayHeights
    <3>2. Txs(Anc(b, h)) \cap Txs(Anc(b, k)) # {}
      BY <1>b, <2>1, <3>1
    <3> QED
      BY <1>t, <3>1, <3>2
  <2>3. CASE PayHeights(a, s) # {}
    <3>1. PICK k \in 0 .. f : Pays(Anc(o, k), s) /\ k \in PayHeights(b, s)
      BY <1>2, <1>3, <1>o, <2>3 DEF PayHeights
    <3>2. ~removed
      <4> SUFFICES ASSUME NEW h \in f + 1 .. Height(o), Pays(Anc(o, h), s) PROVE FALSE
        BY <1>b DEF removed
      <4>0. h \in 0 .. Height(o) /\ k \in 0 .. Height(o) /\ h # k
        BY <1>h
      <4>1. Txs(Anc(o, h)) \cap Txs(Anc(o, k)) # {}
        BY <1>o, <2>1, <3>1, <4>0
      <4> QED
        BY <1>t, <4>0, <4>1
    <3>3. adders = {}
      BY <1>3, <1>h, <2>2, <3>1 DEF adders
    <3>4. PayHeights(b, s) = PayHeights(a, s)
      BY <1>3, <3>3
    <3>5. OldestHeight(a, s) = OldestHeight(b, s) /\ OldestHeight(a, s) \in 0 .. f
      BY <1>2, <2>3, <3>4, OwnerPays DEF OldestHeight
    <3>6. OwnerOn(a)[s] = OwnerOn(b)[s]
      BY <1>2, <3>4, <3>5 DEF OwnerOn
    <3>7. RowsOn(a)[s] = RowsOn(b)[s]
      BY <3>4, <3>5, <3>6 DEF RowsOn
    <3> QED
      BY <1>1, <1>5, <3>2, <3>3, <3>7
  <2>4. CASE PayHeights(a, s) = {} /\ adders = {}
    <3>1. RowsOn(a)[s] = NoRow /\ RowsOn(b)[s] = NoRow
      BY <1>3, <2>4 DEF RowsOn
    <3> QED
      BY <1>1, <1>5, <2>4, <3>1
  <2>5. CASE PayHeights(a, s) = {} /\ adders # {}
    <3>1. RowsOn(a)[s] = NoRow /\ PayHeights(b, s) = adders
      BY <1>3, <2>5 DEF RowsOn
    <3>2. b \in Block /\ adders \in SUBSET Heights
      BY <1>b, <1>h, AncType DEF adders
    <3>3. Highest(adders) \in adders /\ OldestHeight(b, s) \in adders
      BY <2>5, <3>1, <3>2, HighestType, OldestHeightType
    <3>4. Highest(adders) = OldestHeight(b, s)
      BY <2>2, <3>1, <3>3
    <3>5. row = Row(PaidBy(Anc(b, OldestHeight(b, s)), s), OldestHeight(b, s))
      BY <1>1, <1>5, <2>5, <3>1, <3>4
    <3>6. OwnerOn(b)[s] = PaidBy(Anc(b, OldestHeight(b, s)), s)
      BY <2>5, <3>1 DEF OwnerOn
    <3> QED
      BY <2>5, <3>1, <3>5, <3>6 DEF RowsOn
  <2> QED
    BY <2>3, <2>4, <2>5
<1> QED
  BY <1>4, <1>5 DEF row, a
=============================================================================
