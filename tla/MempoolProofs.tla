--------------------------- MODULE MempoolProofs ----------------------------
(***************************************************************************)
(* The theorems about the memory pool: what each operation on the pool     *)
(* keeps, why the dry run of an admission foresees what the eviction loop  *)
(* does, and why no handler leaves behind a transaction that cannot be     *)
(* mined.                                                                  *)
(***************************************************************************)
EXTENDS MempoolProperties, SubsequenceProofs

\* Leaves are first-order and left to Zenon, unless they cite the SMT solver.
USE ZenonT(60)

-----------------------------------------------------------------------------
(* The block tree.                                                         *)

\* The height of a block is one of the heights of the tree.
LEMMA HeightType == \A b \in Block : Height(b) \in Nat /\ Height(b) \in Heights
BY TreeAssumption, SMTT(30) DEF Heights

\* A block is its own ancestor at its own height.
LEMMA AncSelf == \A b \in Block : Anc(b, Height(b)) = b
BY AncestorAssumption

\* The ancestor of a block at height h is a block of height h.
LEMMA AncType ==
    ASSUME NEW b \in Block, NEW h \in 0 .. Height(b)
    PROVE  h \in Heights /\ Anc(b, h) \in Block /\ Height(Anc(b, h)) = h
<1>1. h \in Heights
  BY TreeAssumption, SMTT(30) DEF Heights
<1> QED
  BY <1>1, AncestorAssumption

\* An ancestor of an ancestor is an ancestor: walks along prev_hash compose.
LEMMA AncAnc ==
    ASSUME NEW b \in Block, NEW h \in 0 .. Height(b), NEW k \in 0 .. h
    PROVE  Anc(Anc(b, h), k) = Anc(b, k)
BY AncestorAssumption

\* One step along prev_hash goes from the ancestor at h to the one at h - 1.
LEMMA AncParent ==
    ASSUME NEW b \in Block, NEW h \in 1 .. Height(b)
    PROVE  Parent(Anc(b, h)) = Anc(b, h - 1)
<1>1. h \in 0 .. Height(b) /\ h > 0
  BY HeightType, SMTT(30)
<1> QED
  BY <1>1, AncestorAssumption

\* A block is one height above its parent and has the same ancestors below.
LEMMA ParentAncestors ==
    ASSUME NEW b \in Block, b # Genesis
    PROVE  /\ Parent(b) \in Block
           /\ Height(b) > 0
           /\ Height(Parent(b)) = Height(b) - 1
           /\ Parent(b) = Anc(b, Height(b) - 1)
           /\ \A h \in 0 .. Height(b) - 1 : Anc(Parent(b), h) = Anc(b, h)
<1>1. Parent(b) \in Block /\ Height(b) \in Nat /\ Height(b) # 0 /\ Height(Parent(b)) = Height(b) - 1
  BY TreeAssumption, SMTT(30) DEF Heights
<1>3. Height(b) - 1 \in 0 .. Height(b) /\ Height(b) \in 1 .. Height(b)
  BY <1>1, SMTT(30)
<1>2. Parent(Anc(b, Height(b))) = Anc(b, Height(b) - 1) /\ Anc(b, Height(b)) = b
  BY <1>1, <1>3, AncParent, AncSelf
<1>4. \A h \in 0 .. Height(b) - 1 : Anc(Anc(b, Height(b) - 1), h) = Anc(b, h)
  BY <1>3, AncAnc
<1> QED
  BY <1>1, <1>2, <1>4, SMTT(30)

\* The chain of b holds exactly one block per height up to that of b.
LEMMA BranchBlocks ==
    ASSUME NEW b \in Block
    PROVE  /\ Branch(b) \subseteq Block
           /\ b \in Branch(b)
           /\ \A a \in Branch(b) : Height(a) <= Height(b) /\ a = Anc(b, Height(a))
           /\ \A h \in 0 .. Height(b) : Anc(b, h) \in Branch(b)
<1>1. Height(b) \in 0 .. Height(b)
  BY HeightType, SMTT(30)
<1>2. \A h \in 0 .. Height(b) : Anc(b, h) \in Block /\ Height(Anc(b, h)) = h
  BY AncType
<1>3. Anc(b, Height(b)) = b
  BY AncSelf
<1> QED
  BY <1>1, <1>2, <1>3, HeightType, SMTT(30) DEF Branch

\* The chain of a block is the chain of its parent and the block itself.
LEMMA BranchParent ==
    ASSUME NEW b \in Block, b # Genesis
    PROVE  Branch(b) = Branch(Parent(b)) \cup {b}
<1>1. \A h \in 0 .. Height(b) - 1 : Anc(Parent(b), h) = Anc(b, h)
  BY ParentAncestors
<1>2. Height(Parent(b)) = Height(b) - 1 /\ Height(b) \in Nat /\ Height(b) > 0 /\ Anc(b, Height(b)) = b
  BY ParentAncestors, HeightType, AncSelf
<1>3. 0 .. Height(b) = 0 .. Height(b) - 1 \cup {Height(b)}
  BY <1>2, SMTT(30)
<1> QED
  BY <1>1, <1>2, <1>3, SMTT(30) DEF Branch

\* The chain of the genesis block is that block alone.
LEMMA BranchGenesis == Branch(Genesis) = {Genesis}
<1>1. Genesis \in Block /\ Height(Genesis) = 0
  BY TreeAssumption
<1>2. Anc(Genesis, 0) = Genesis
  BY <1>1, AncSelf
<1> QED
  BY <1>1, <1>2, SMTT(30) DEF Branch

\* Connecting a block adds its key images to those its parent's chain has spent.
LEMMA SpentParent ==
    ASSUME NEW b \in Block, b # Genesis
    PROVE  SpentOn(b) = SpentOn(Parent(b)) \cup BlockKeyImages(b)
BY BranchParent, SMTT(30) DEF SpentOn, Images

-----------------------------------------------------------------------------
(* Sizes.                                                                  *)

\* The bytes of finitely many transactions are finite.
LEMMA BytesFinite ==
    ASSUME NEW S \in SUBSET Tx, IsFiniteSet(S)
    PROVE  IsFiniteSet(Bytes(S)) /\ SizeOf(S) \in Nat
<1> DEFINE own(t) == {t} \X (1 .. Size(t))
           all == {own(t) : t \in S}
           f == [t \in S |-> own(t)]
<1>1. ASSUME NEW t \in S PROVE IsFiniteSet(own(t))
  <2>1. IsFiniteSet({t})
    BY FS_Singleton
  <2>2. 1 \in Int /\ Size(t) \in Int
    BY PoolAssumption, SMTT(30)
  <2>3. IsFiniteSet(1 .. Size(t))
    BY <2>2, FS_Interval
  <2> QED
    BY <2>1, <2>3, FS_Product
<1>2. f \in Surjection(S, all)
  BY DEF Surjection
<1>3. IsFiniteSet(all)
  <2> HIDE DEF f, all
  <2> QED
    BY <1>2, FS_Surjection
<1>4. \A T \in all : IsFiniteSet(T)
  BY <1>1
<1>5. IsFiniteSet(UNION all)
  <2> HIDE DEF all
  <2> QED
    BY <1>3, <1>4, FS_UNION
<1>6. Bytes(S) = UNION all
  BY DEF Bytes
<1>7. IsFiniteSet(Bytes(S))
  BY <1>5, <1>6
<1> QED
  BY <1>7, FS_CardinalityType DEF SizeOf

\* One transaction has the size of that transaction.
LEMMA SizeOfOne ==
    ASSUME NEW t \in Tx
    PROVE  SizeOf({t}) = Size(t)
<1>1. Bytes({t}) = {t} \X (1 .. Size(t))
  BY DEF Bytes
<1>2. 1 \in Int /\ Size(t) \in Int /\ Size(t) \in Nat /\ ~(1 > Size(t))
  BY PoolAssumption, SMTT(30)
<1>3. IsFiniteSet(1 .. Size(t)) /\ Cardinality(1 .. Size(t)) = Size(t) - 1 + 1
  BY <1>2, FS_Interval
<1>4. IsFiniteSet({t}) /\ Cardinality({t}) = 1
  BY FS_Singleton
<1>5. Cardinality({t} \X (1 .. Size(t))) = Cardinality({t}) * Cardinality(1 .. Size(t))
  BY <1>3, <1>4, FS_Product
<1>6. 1 * (Size(t) - 1 + 1) = Size(t)
  BY <1>2, SMTT(30)
<1> QED
  BY <1>1, <1>3, <1>4, <1>5, <1>6 DEF SizeOf

\* Sizes add up: what leaves the pool and what stays in it make up the pool.
LEMMA SizeOfUnion ==
    ASSUME NEW S \in SUBSET Tx, NEW R \in SUBSET Tx, IsFiniteSet(S), IsFiniteSet(R), S \cap R = {}
    PROVE  SizeOf(S \cup R) = SizeOf(S) + SizeOf(R)
<1>1. Bytes(S \cup R) = Bytes(S) \cup Bytes(R)
  BY DEF Bytes
<1>2. Bytes(S) \cap Bytes(R) = {}
  <2>1. ASSUME NEW x \in Bytes(S), x \in Bytes(R) PROVE FALSE
    <3>1. PICK t \in S : x \in {t} \X (1 .. Size(t))
      BY <2>1 DEF Bytes
    <3>2. PICK u \in R : x \in {u} \X (1 .. Size(u))
      BY <2>1 DEF Bytes
    <3>3. x[1] = t
      BY <3>1, SMTT(30)
    <3>4. x[1] = u
      BY <3>2, SMTT(30)
    <3> QED
      BY <3>3, <3>4
  <2> QED
    BY <2>1
<1>3. /\ IsFiniteSet(Bytes(S)) /\ IsFiniteSet(Bytes(R))
      /\ Cardinality(Bytes(S)) \in Nat /\ Cardinality(Bytes(R)) \in Nat
  BY BytesFinite DEF SizeOf
<1>4. Cardinality(Bytes(S) \cup Bytes(R))
        = Cardinality(Bytes(S)) + Cardinality(Bytes(R)) - Cardinality(Bytes(S) \cap Bytes(R))
  BY <1>3, FS_Union
<1>5. Cardinality({}) = 0
  BY FS_EmptySet
<1>6. Cardinality(Bytes(S)) + Cardinality(Bytes(R)) - 0 = Cardinality(Bytes(S)) + Cardinality(Bytes(R))
  BY <1>3, SMTT(30)
<1> QED
  BY <1>1, <1>2, <1>4, <1>5, <1>6 DEF SizeOf

\* scaled_fee_per_byte is a number.
LEMMA FeeRateType == \A t \in Tx : FeeRate(t) \in Nat
<1>1. ASSUME NEW t \in Tx PROVE FeeRate(t) \in Nat
  <2>1. Fee(t) \in Nat /\ FeeScale \in Nat /\ Size(t) \in Nat /\ Size(t) > 0
    BY PoolAssumption, SMTT(30)
  <2>2. Fee(t) * FeeScale \in Nat
    BY <2>1, SMTT(30)
  <2>3. \A n, d \in Nat : d > 0 => n \div d \in Nat
    BY SMTT(30)
  <2> QED
    BY <2>1, <2>2, <2>3 DEF FeeRate
<1> QED
  BY <1>1

-----------------------------------------------------------------------------
(* The operations on the pool.                                             *)

\* The maps of the pool are functions on the held transactions, which are sound ones.
LEMMA HeldType ==
    ASSUME NEW p \in PoolRecord
    PROVE  /\ Held(p) \subseteq Sound /\ Held(p) \subseteq Tx
           /\ p.transactions \in [Held(p) -> Heights]
<1>1. p.transactions \in UNION {[S -> Heights] : S \in SUBSET Sound}
  BY DEF PoolRecord
<1>2. PICK S \in SUBSET Sound : p.transactions \in [S -> Heights]
  BY <1>1
<1>3. Held(p) = S
  BY <1>2 DEF Held
<1>4. Sound \subseteq Tx
  BY PoolAssumption
<1> QED
  BY <1>2, <1>3, <1>4

\* What remove leaves in each field of the pool.
LEMMA RemoveFields ==
    ASSUME NEW p \in PoolRecord, NEW S
    PROVE  /\ Held(Remove(p, S)) = Held(p) \ S
           /\ Remove(p, S).transactions \in [Held(p) \ S -> Heights]
           /\ Remove(p, S).by_fee = p.by_fee \ {<<FeeRate(t), t>> : t \in S \cap Held(p)}
           /\ Remove(p, S).key_images = p.key_images \ ImagesOf(S \cap Held(p))
           /\ Remove(p, S).linking_tags = p.linking_tags \ TagsOf(S \cap Held(p))
           /\ Remove(p, S).current_size = p.current_size - SizeOf(S \cap Held(p))
           /\ Remove(p, S).chain_height = p.chain_height
           /\ Remove(p, S) = [transactions |-> Remove(p, S).transactions,
                              by_fee |-> Remove(p, S).by_fee,
                              key_images |-> Remove(p, S).key_images,
                              linking_tags |-> Remove(p, S).linking_tags,
                              current_size |-> Remove(p, S).current_size,
                              chain_height |-> Remove(p, S).chain_height]
<1> DEFINE gone == S \cap Held(p)
           txs == [t \in Held(p) \ gone |-> p.transactions[t]]
           fees == p.by_fee \ {<<FeeRate(t), t>> : t \in gone}
           images == p.key_images \ ImagesOf(gone)
           tags == p.linking_tags \ TagsOf(gone)
           size == p.current_size - SizeOf(gone)
<1>1. Remove(p, S) = [p EXCEPT !.transactions = txs, !.by_fee = fees, !.key_images = images,
                               !.linking_tags = tags, !.current_size = size]
  BY DEF Remove
<1>2. Held(p) \ gone = Held(p) \ S
  OBVIOUS
<1>3. txs \in [Held(p) \ S -> Heights] /\ DOMAIN txs = Held(p) \ S
  BY <1>2, HeldType
<1> HIDE DEF txs, fees, images, tags, size
<1>4. /\ Remove(p, S).transactions = txs /\ Remove(p, S).by_fee = fees
      /\ Remove(p, S).key_images = images /\ Remove(p, S).linking_tags = tags
      /\ Remove(p, S).current_size = size /\ Remove(p, S).chain_height = p.chain_height
      /\ Remove(p, S) = [transactions |-> Remove(p, S).transactions,
                         by_fee |-> Remove(p, S).by_fee,
                         key_images |-> Remove(p, S).key_images,
                         linking_tags |-> Remove(p, S).linking_tags,
                         current_size |-> Remove(p, S).current_size,
                         chain_height |-> Remove(p, S).chain_height]
  BY <1>1 DEF PoolRecord
<1> QED
  BY <1>3, <1>4 DEF Held, fees, images, tags, size, gone

\* remove keeps the pool in order, and takes out exactly what it is told to.
LEMMA RemoveKeeps ==
    ASSUME NEW p, PoolOK(p), NEW S
    PROVE  /\ PoolOK(Remove(p, S))
           /\ Held(Remove(p, S)) = Held(p) \ S
           /\ Remove(p, S).current_size = p.current_size - SizeOf(S \cap Held(p))
<1> DEFINE gone == S \cap Held(p)
           kept == Held(p) \ S
           q == Remove(p, S)
<1>1. p \in PoolRecord /\ IsFiniteSet(Held(p)) /\ Indexed(p) /\ Accounted(p)
  BY DEF PoolOK
<1>2. /\ Held(q) = kept /\ q.transactions \in [kept -> Heights]
      /\ q.by_fee = p.by_fee \ {<<FeeRate(t), t>> : t \in gone}
      /\ q.key_images = p.key_images \ ImagesOf(gone)
      /\ q.linking_tags = p.linking_tags \ TagsOf(gone)
      /\ q.current_size = p.current_size - SizeOf(gone)
      /\ q.chain_height = p.chain_height
  BY <1>1, RemoveFields
<1>3. q = [transactions |-> q.transactions, by_fee |-> q.by_fee, key_images |-> q.key_images,
           linking_tags |-> q.linking_tags, current_size |-> q.current_size,
           chain_height |-> q.chain_height]
  BY <1>1, RemoveFields
<1> HIDE DEF q
<1>4. Held(p) = gone \cup kept /\ gone \cap kept = {} /\ gone \subseteq Held(p) /\ kept \subseteq Held(p)
  OBVIOUS
<1>5. /\ gone \in SUBSET Tx /\ kept \in SUBSET Tx /\ kept \in SUBSET Sound
      /\ IsFiniteSet(gone) /\ IsFiniteSet(kept)
  <2>1. Held(p) \subseteq Sound /\ Held(p) \subseteq Tx
    BY <1>1, HeldType
  <2>2. IsFiniteSet(gone) /\ IsFiniteSet(kept)
    BY <1>1, <1>4, FS_Subset
  <2> QED
    BY <1>4, <2>1, <2>2
<1>6. \A t, u \in Held(p) :
        t # u => KeyImages(t) \cap KeyImages(u) = {} /\ LinkingTags(t) \cap LinkingTags(u) = {}
  BY <1>1 DEF Indexed
<1>7. q.key_images = ImagesOf(kept)
  <2>1. p.key_images = ImagesOf(Held(p))
    BY <1>1 DEF Indexed
  <2>2. ASSUME NEW k, k \in ImagesOf(Held(p)), k \notin ImagesOf(gone) PROVE k \in ImagesOf(kept)
    BY <1>4, <2>2 DEF ImagesOf
  <2>3. ASSUME NEW k, k \in ImagesOf(kept) PROVE k \in ImagesOf(Held(p)) /\ k \notin ImagesOf(gone)
    <3>1. PICK t \in kept : k \in KeyImages(t)
      BY <2>3 DEF ImagesOf
    <3>2. \A u \in gone : k \notin KeyImages(u)
      BY <1>4, <1>6, <3>1
    <3> QED
      BY <1>4, <3>1, <3>2 DEF ImagesOf
  <2> HIDE DEF gone, kept
  <2> QED
    BY <1>2, <2>1, <2>2, <2>3
<1>8. q.linking_tags = TagsOf(kept)
  <2>1. p.linking_tags = TagsOf(Held(p))
    BY <1>1 DEF Indexed
  <2>2. ASSUME NEW k, k \in TagsOf(Held(p)), k \notin TagsOf(gone) PROVE k \in TagsOf(kept)
    BY <1>4, <2>2 DEF TagsOf
  <2>3. ASSUME NEW k, k \in TagsOf(kept) PROVE k \in TagsOf(Held(p)) /\ k \notin TagsOf(gone)
    <3>1. PICK t \in kept : k \in LinkingTags(t)
      BY <2>3 DEF TagsOf
    <3>2. \A u \in gone : k \notin LinkingTags(u)
      BY <1>4, <1>6, <3>1
    <3> QED
      BY <1>4, <3>1, <3>2 DEF TagsOf
  <2> HIDE DEF gone, kept
  <2> QED
    BY <1>2, <2>1, <2>2, <2>3
<1>9. q.by_fee = {<<FeeRate(t), t>> : t \in kept}
  <2>1. p.by_fee = {<<FeeRate(t), t>> : t \in Held(p)}
    BY <1>1 DEF Indexed
  <2>2. \A t, u : <<FeeRate(t), t>> = <<FeeRate(u), u>> => t = u
    BY SMTT(30)
  <2>3. ASSUME NEW x, x \in p.by_fee, x \notin {<<FeeRate(t), t>> : t \in gone}
        PROVE  x \in {<<FeeRate(t), t>> : t \in kept}
    BY <1>4, <2>1, <2>3
  <2>4. ASSUME NEW t \in kept
        PROVE  <<FeeRate(t), t>> \in p.by_fee /\ <<FeeRate(t), t>> \notin {<<FeeRate(u), u>> : u \in gone}
    BY <1>4, <2>1, <2>2
  <2> HIDE DEF gone, kept
  <2> QED
    BY <1>2, <2>3, <2>4
<1>10. q.current_size = SizeOf(kept) /\ q.current_size \in Nat /\ q.current_size <= MaxSize
  <2>1. SizeOf(gone \cup kept) = SizeOf(gone) + SizeOf(kept)
    BY <1>4, <1>5, SizeOfUnion
  <2>2. SizeOf(gone) \in Nat /\ SizeOf(kept) \in Nat
    BY <1>5, BytesFinite
  <2>3. p.current_size = SizeOf(gone \cup kept) /\ p.current_size <= MaxSize
    BY <1>1, <1>4 DEF Accounted
  <2>4. MaxSize \in Nat
    BY PoolAssumption
  <2>5. \A g, k, m \in Nat : g + k <= m =>
          (g + k) - g = k /\ (g + k) - g \in Nat /\ (g + k) - g <= m
    BY SMTT(30)
  <2> HIDE DEF gone, kept
  <2>6. p.current_size = SizeOf(gone) + SizeOf(kept) /\ SizeOf(gone) + SizeOf(kept) <= MaxSize
    BY <2>1, <2>3
  <2>7. q.current_size = (SizeOf(gone) + SizeOf(kept)) - SizeOf(gone)
    BY <1>2, <2>6
  <2>8. /\ (SizeOf(gone) + SizeOf(kept)) - SizeOf(gone) = SizeOf(kept)
        /\ (SizeOf(gone) + SizeOf(kept)) - SizeOf(gone) <= MaxSize
    BY <2>2, <2>4, <2>5, <2>6
  <2> QED
    BY <2>2, <2>7, <2>8
<1>11. q \in PoolRecord
  <2>1. /\ p.by_fee \in SUBSET (Nat \X Tx) /\ p.key_images \in SUBSET KeyImage
        /\ p.linking_tags \in SUBSET LinkingTag /\ p.chain_height \in Heights
    BY <1>1 DEF PoolRecord
  <2>2. /\ q.by_fee \in SUBSET (Nat \X Tx) /\ q.key_images \in SUBSET KeyImage
        /\ q.linking_tags \in SUBSET LinkingTag /\ q.chain_height \in Heights
    BY <1>2, <2>1
  <2>3. q.transactions \in UNION {[R -> Heights] : R \in SUBSET Sound}
    BY <1>2, <1>5
  <2> QED
    BY <1>3, <1>10, <2>2, <2>3 DEF PoolRecord
<1>12. \A t, u \in kept :
         t # u => KeyImages(t) \cap KeyImages(u) = {} /\ LinkingTags(t) \cap LinkingTags(u) = {}
  BY <1>4, <1>6
<1>13. Indexed(q) /\ Accounted(q) /\ IsFiniteSet(Held(q))
  BY <1>2, <1>5, <1>7, <1>8, <1>9, <1>10, <1>12 DEF Indexed, Accounted
<1>14. PoolOK(q)
  BY <1>11, <1>13 DEF PoolOK
<1> QED
  BY <1>2, <1>14 DEF q

\* A new pool is empty and in order (with_max_size).
LEMMA EmptyPoolOK == PoolOK(EmptyPool) /\ Held(EmptyPool) = {}
<1> DEFINE none == [t \in {} |-> 0]
<1>1. /\ EmptyPool.transactions = none /\ EmptyPool.by_fee = {} /\ EmptyPool.key_images = {}
      /\ EmptyPool.linking_tags = {} /\ EmptyPool.current_size = 0
  BY DEF EmptyPool
<1>2. Held(EmptyPool) = {}
  BY <1>1 DEF Held
<1>3. SizeOf({}) = 0
  <2>1. Bytes({}) = {}
    BY DEF Bytes
  <2> QED
    BY <2>1, FS_EmptySet DEF SizeOf
<1>4. EmptyPool \in PoolRecord
  <2>1. none \in UNION {[S -> Heights] : S \in SUBSET Sound}
    OBVIOUS
  <2>2. 0 \in Heights /\ 0 \in Nat
    BY TreeAssumption, SMTT(30) DEF Heights
  <2> HIDE DEF none
  <2>3. EmptyPool = [transactions |-> none, by_fee |-> {}, key_images |-> {},
                     linking_tags |-> {}, current_size |-> 0, chain_height |-> 0]
    BY DEF EmptyPool, none
  <2> QED
    BY <2>1, <2>2, <2>3 DEF PoolRecord
<1>5. Indexed(EmptyPool)
  BY <1>1, <1>2 DEF Indexed, ImagesOf, TagsOf
<1>6. Accounted(EmptyPool)
  <2>1. 0 <= MaxSize
    BY PoolAssumption, SMTT(30)
  <2> QED
    BY <1>1, <1>2, <1>3, <2>1 DEF Accounted
<1> QED
  BY <1>2, <1>4, <1>5, <1>6, FS_EmptySet DEF PoolOK

\* set_height refreshes the height and removes what has expired.
LEMMA SetHeightKeeps ==
    ASSUME NEW p, PoolOK(p), NEW h \in Heights
    PROVE  PoolOK(set_height(p, h)) /\ Held(set_height(p, h)) \subseteq Held(p)
<1> DEFINE q == [p EXCEPT !.chain_height = h]
           old == {t \in Held(p) : h - p.transactions[t] > TxExpiryBlocks}
<1>1. p \in PoolRecord
  BY DEF PoolOK
<1>2. /\ q \in PoolRecord /\ q.transactions = p.transactions /\ q.by_fee = p.by_fee
      /\ q.key_images = p.key_images /\ q.linking_tags = p.linking_tags
      /\ q.current_size = p.current_size
  BY <1>1 DEF PoolRecord
<1>3. set_height(p, h) = Remove(q, old)
  BY DEF set_height
<1> HIDE DEF q, old
<1>4. Held(q) = Held(p)
  BY <1>2 DEF Held
<1>5. PoolOK(q)
  BY <1>2, <1>4 DEF PoolOK, Indexed, Accounted
<1>6. PoolOK(Remove(q, old)) /\ Held(Remove(q, old)) = Held(q) \ old
  BY <1>5, RemoveKeeps
<1> QED
  BY <1>3, <1>4, <1>6

\* remove_confirmed takes out what the block confirms and what it conflicts with.
LEMMA ConfirmKeeps ==
    ASSUME NEW p, PoolOK(p), NEW txs
    PROVE  /\ PoolOK(remove_confirmed(p, txs))
           /\ Held(remove_confirmed(p, txs)) =
                {u \in Held(p) \ txs : KeyImages(u) \cap ImagesOf(txs) = {}}
<1> DEFINE q == Remove(p, txs)
           hit == {u \in Held(q) : KeyImages(u) \cap ImagesOf(txs) # {}}
<1>1. PoolOK(q) /\ Held(q) = Held(p) \ txs
  BY RemoveKeeps
<1>2. PoolOK(Remove(q, hit)) /\ Held(Remove(q, hit)) = Held(q) \ hit
  <2> HIDE DEF q, hit
  <2> QED
    BY <1>1, RemoveKeeps
<1>3. remove_confirmed(p, txs) = Remove(q, hit)
  BY DEF remove_confirmed
<1> HIDE DEF q
<1> QED
  BY <1>1, <1>2, <1>3

\* What an insertion adds to each field of the pool.
LEMMA InsertFields ==
    ASSUME NEW p \in PoolRecord, NEW t \in Sound
    PROVE  /\ Held(Insert(p, t)) = Held(p) \cup {t}
           /\ Insert(p, t).transactions \in [Held(p) \cup {t} -> Heights]
           /\ Insert(p, t).by_fee = p.by_fee \cup {<<FeeRate(t), t>>}
           /\ Insert(p, t).key_images = p.key_images \cup KeyImages(t)
           /\ Insert(p, t).linking_tags = p.linking_tags \cup LinkingTags(t)
           /\ Insert(p, t).current_size = p.current_size + Size(t)
           /\ Insert(p, t).chain_height = p.chain_height
           /\ Insert(p, t) = [transactions |-> Insert(p, t).transactions,
                              by_fee |-> Insert(p, t).by_fee,
                              key_images |-> Insert(p, t).key_images,
                              linking_tags |-> Insert(p, t).linking_tags,
                              current_size |-> Insert(p, t).current_size,
                              chain_height |-> Insert(p, t).chain_height]
<1> DEFINE txs == [u \in Held(p) \cup {t} |-> IF u = t THEN p.chain_height ELSE p.transactions[u]]
           fees == p.by_fee \cup {<<FeeRate(t), t>>}
           images == p.key_images \cup KeyImages(t)
           tags == p.linking_tags \cup LinkingTags(t)
           size == p.current_size + Size(t)
<1>1. Insert(p, t) = [p EXCEPT !.transactions = txs, !.by_fee = fees, !.key_images = images,
                               !.linking_tags = tags, !.current_size = size]
  BY DEF Insert
<1>2. txs \in [Held(p) \cup {t} -> Heights] /\ DOMAIN txs = Held(p) \cup {t}
  <2>1. p.chain_height \in Heights /\ p.transactions \in [Held(p) -> Heights]
    BY HeldType DEF PoolRecord
  <2> QED
    BY <2>1
<1> HIDE DEF txs, fees, images, tags, size
<1>3. /\ Insert(p, t).transactions = txs /\ Insert(p, t).by_fee = fees
      /\ Insert(p, t).key_images = images /\ Insert(p, t).linking_tags = tags
      /\ Insert(p, t).current_size = size /\ Insert(p, t).chain_height = p.chain_height
      /\ Insert(p, t) = [transactions |-> Insert(p, t).transactions,
                         by_fee |-> Insert(p, t).by_fee,
                         key_images |-> Insert(p, t).key_images,
                         linking_tags |-> Insert(p, t).linking_tags,
                         current_size |-> Insert(p, t).current_size,
                         chain_height |-> Insert(p, t).chain_height]
  BY <1>1 DEF PoolRecord
<1> QED
  BY <1>2, <1>3 DEF Held, fees, images, tags, size

\* A tx that fits and has no key image and no linking tag in common with the pool
\* can be inserted.
LEMMA InsertKeeps ==
    ASSUME NEW p, PoolOK(p), NEW t \in Sound, t \notin Held(p),
           \A u \in Held(p) : /\ KeyImages(t) \cap KeyImages(u) = {}
                              /\ LinkingTags(t) \cap LinkingTags(u) = {},
           p.current_size + Size(t) <= MaxSize
    PROVE  PoolOK(Insert(p, t)) /\ Held(Insert(p, t)) = Held(p) \cup {t}
<1> DEFINE q == Insert(p, t)
           all == Held(p) \cup {t}
<1>1. p \in PoolRecord /\ IsFiniteSet(Held(p)) /\ Indexed(p) /\ Accounted(p)
  BY DEF PoolOK
<1>2. /\ Held(q) = all /\ q.transactions \in [all -> Heights]
      /\ q.by_fee = p.by_fee \cup {<<FeeRate(t), t>>}
      /\ q.key_images = p.key_images \cup KeyImages(t)
      /\ q.linking_tags = p.linking_tags \cup LinkingTags(t)
      /\ q.current_size = p.current_size + Size(t)
      /\ q.chain_height = p.chain_height
  BY <1>1, InsertFields
<1>3. q = [transactions |-> q.transactions, by_fee |-> q.by_fee, key_images |-> q.key_images,
           linking_tags |-> q.linking_tags, current_size |-> q.current_size,
           chain_height |-> q.chain_height]
  BY <1>1, InsertFields
<1> HIDE DEF q
<1>4. t \in Tx /\ Held(p) \in SUBSET Tx /\ all \in SUBSET Sound /\ {t} \in SUBSET Tx
  <2>1. Held(p) \subseteq Sound /\ Held(p) \subseteq Tx /\ Sound \subseteq Tx
    BY <1>1, HeldType, PoolAssumption
  <2> QED
    BY <2>1
<1>5. IsFiniteSet(all) /\ IsFiniteSet({t})
  BY <1>1, FS_AddElement, FS_Singleton
<1>6. /\ q.key_images = ImagesOf(all) /\ q.linking_tags = TagsOf(all)
      /\ q.by_fee = {<<FeeRate(u), u>> : u \in all}
  <2>1. ImagesOf(all) = ImagesOf(Held(p)) \cup KeyImages(t)
    BY DEF ImagesOf
  <2>2. TagsOf(all) = TagsOf(Held(p)) \cup LinkingTags(t)
    BY DEF TagsOf
  <2>3. {<<FeeRate(u), u>> : u \in all} = {<<FeeRate(u), u>> : u \in Held(p)} \cup {<<FeeRate(t), t>>}
    OBVIOUS
  <2> QED
    BY <1>1, <1>2, <2>1, <2>2, <2>3 DEF Indexed
<1>7. q.current_size = SizeOf(all) /\ q.current_size \in Nat /\ q.current_size <= MaxSize
  <2>1. SizeOf(Held(p) \cup {t}) = SizeOf(Held(p)) + SizeOf({t})
    <3>1. Held(p) \cap {t} = {}
      OBVIOUS
    <3> QED
      BY <1>1, <1>4, <1>5, <3>1, SizeOfUnion
  <2>2. SizeOf({t}) = Size(t) /\ Size(t) \in Nat
    BY <1>4, SizeOfOne, PoolAssumption
  <2>3. p.current_size = SizeOf(Held(p)) /\ p.current_size \in Nat
    BY <1>1 DEF Accounted, PoolRecord
  <2>4. \A a, b \in Nat : a + b \in Nat
    BY SMTT(30)
  <2> QED
    BY <1>2, <2>1, <2>2, <2>3, <2>4
<1>8. q \in PoolRecord
  <2>1. /\ p.by_fee \in SUBSET (Nat \X Tx) /\ p.key_images \in SUBSET KeyImage
        /\ p.linking_tags \in SUBSET LinkingTag /\ p.chain_height \in Heights
    BY <1>1 DEF PoolRecord
  <2>2. KeyImages(t) \subseteq KeyImage /\ LinkingTags(t) \subseteq LinkingTag
    BY <1>4 DEF KeyImage, LinkingTag
  <2>3. <<FeeRate(t), t>> \in Nat \X Tx
    BY <1>4, FeeRateType
  <2>4. q.transactions \in UNION {[R -> Heights] : R \in SUBSET Sound}
    BY <1>2, <1>4
  <2> QED
    BY <1>2, <1>3, <1>7, <2>1, <2>2, <2>3, <2>4 DEF PoolRecord
<1>9. \A u, v \in all :
        u # v => KeyImages(u) \cap KeyImages(v) = {} /\ LinkingTags(u) \cap LinkingTags(v) = {}
  <2>1. \A u, v \in Held(p) :
          u # v => KeyImages(u) \cap KeyImages(v) = {} /\ LinkingTags(u) \cap LinkingTags(v) = {}
    BY <1>1 DEF Indexed
  <2> QED
    BY <2>1
<1> QED
  BY <1>2, <1>5, <1>6, <1>7, <1>8, <1>9 DEF PoolOK, Indexed, Accounted, q

-----------------------------------------------------------------------------
(* Admission: the plan of the dry run and what the eviction loop does.     *)

\* How many transactions of a set come before a given one in the order of by_fee.
Ahead(S, u) == Cardinality({v \in S : Before(v, u)})

\* Such a count is a number, less than that of the set for a member of it.
LEMMA AheadType ==
    ASSUME NEW S \in SUBSET Tx, IsFiniteSet(S)
    PROVE  /\ \A u : Ahead(S, u) \in Nat
           /\ \A u \in S : Ahead(S, u) < Cardinality(S)
           /\ Cardinality(S) \in Nat
<1>1. ASSUME NEW u PROVE Ahead(S, u) \in Nat
  <2>1. {v \in S : Before(v, u)} \in SUBSET S
    OBVIOUS
  <2>2. IsFiniteSet({v \in S : Before(v, u)})
    BY <2>1, FS_Subset
  <2> QED
    BY <2>2, FS_CardinalityType DEF Ahead
<1>2. Cardinality(S) \in Nat
  BY FS_CardinalityType
<1>3. ASSUME NEW u \in S PROVE Ahead(S, u) < Cardinality(S)
  <2> DEFINE D == {v \in S : Before(v, u)}
  <2>1. D \in SUBSET S /\ D # S
    <3>1. FeeRate(u) \in Nat /\ TxHash(u) \in Nat
      BY FeeRateType, PoolAssumption
    <3>2. ~Before(u, u)
      BY <3>1, SMTT(30) DEF Before
    <3> QED
      BY <3>2
  <2> HIDE DEF D
  <2>2. Cardinality(D) <= Cardinality(S) /\ Cardinality(S) # Cardinality(D)
    BY <2>1, FS_Subset
  <2>3. Ahead(S, u) = Cardinality(D)
    BY DEF Ahead, D
  <2> QED
    BY <1>1, <1>2, <2>2, <2>3, SMTT(30)
<1> QED
  BY <1>1, <1>2, <1>3

\* The n cheapest of those that pay less than t are the cheapest of all, as long as
\* there are n of them: the dry run and the eviction loop count the same transactions.
LEMMA CheapestAgree ==
    ASSUME NEW R \in SUBSET Tx, IsFiniteSet(R), NEW t \in Tx, NEW n \in Nat
    PROVE  LET C == {u \in R : FeeRate(u) < FeeRate(t)}
               m == IF n <= Cardinality(C) THEN n ELSE Cardinality(C)
           IN  /\ m \in 0 .. Cardinality(R) /\ m <= n
               /\ Cheapest(R, m) = Cheapest(C, n)
<1> DEFINE C == {u \in R : FeeRate(u) < FeeRate(t)}
           m == IF n <= Cardinality(C) THEN n ELSE Cardinality(C)
<1>0. \A u \in R : FeeRate(u) \in Nat /\ FeeRate(t) \in Nat
  BY FeeRateType
<1>1. C \in SUBSET R /\ C \in SUBSET Tx
  OBVIOUS
<1>2. IsFiniteSet(C) /\ Cardinality(C) <= Cardinality(R)
  <2> HIDE DEF C
  <2> QED
    BY <1>1, FS_Subset
<1>3. ASSUME NEW u \in C PROVE Ahead(R, u) = Ahead(C, u)
  <2>1. ASSUME NEW v \in R, Before(v, u) PROVE v \in C
    BY <1>0, <2>1, SMTT(30) DEF Before
  <2>2. {v \in R : Before(v, u)} = {v \in C : Before(v, u)}
    BY <1>1, <2>1
  <2> QED
    BY <2>2 DEF Ahead
<1>4. ASSUME NEW u \in R, u \notin C PROVE Cardinality(C) <= Ahead(R, u)
  <2> DEFINE D == {v \in R : Before(v, u)}
  <2>1. ASSUME NEW v \in C PROVE v \in D
    BY <1>0, <1>4, SMTT(30) DEF Before
  <2>2. C \in SUBSET D /\ D \in SUBSET R
    BY <2>1
  <2>3. Ahead(R, u) = Cardinality(D)
    BY DEF Ahead
  <2> HIDE DEF C, D
  <2>4. IsFiniteSet(D)
    BY <2>2, FS_Subset
  <2> QED
    BY <2>2, <2>3, <2>4, FS_Subset
<1> HIDE DEF C
<1>5. /\ \A u : Ahead(R, u) \in Nat
      /\ \A u \in C : Ahead(C, u) < Cardinality(C)
      /\ Cardinality(C) \in Nat /\ Cardinality(R) \in Nat
  BY <1>1, <1>2, AheadType
<1>6. m \in 0 .. Cardinality(R) /\ m <= n /\ m <= Cardinality(C)
  BY <1>2, <1>5, SMTT(30)
<1>7. ASSUME NEW u \in R PROVE (Ahead(R, u) < m) <=> (u \in C /\ Ahead(C, u) < n)
  <2>1. CASE u \in C
    <3>1. Ahead(R, u) = Ahead(C, u) /\ Ahead(R, u) \in Nat /\ Ahead(R, u) < Cardinality(C)
      BY <1>3, <1>5, <2>1
    <3> QED
      BY <1>5, <2>1, <3>1, SMTT(30)
  <2>2. CASE u \notin C
    <3>1. Cardinality(C) <= Ahead(R, u) /\ Ahead(R, u) \in Nat
      BY <1>4, <1>5, <2>2
    <3> QED
      BY <1>5, <1>6, <2>2, <3>1, SMTT(30)
  <2> QED
    BY <2>1, <2>2
<1> HIDE DEF m
<1>8. Cheapest(R, m) = Cheapest(C, n)
  BY <1>1, <1>7 DEF Cheapest, Ahead
<1> QED
  BY <1>6, <1>8 DEF C, m

\* What the dry run of admit_after_checks promises is what the eviction loop finds:
\* it stays within its limit, makes the room t needs and takes only transactions
\* that pay less per byte.
LEMMA PlanIsKept ==
    ASSUME NEW p, PoolOK(p), NEW t \in Sound, EvictionPlanned(p, t)
    PROVE  /\ Evictions(p, t) <= MaxEvictionAttempts
           /\ Evicted(p, t) \subseteq Held(p) \ ToReplace(p, t)
           /\ \A u \in Evicted(p, t) : FeeRate(u) < FeeRate(t)
           /\ FitsWithout(p, t, ToReplace(p, t) \cup Evicted(p, t))
<1> DEFINE R == Held(p) \ ToReplace(p, t)
           C == {u \in R : FeeRate(u) < FeeRate(t)}
           enough == {k \in 0 .. Cardinality(R) :
                        FitsWithout(p, t, ToReplace(p, t) \cup Cheapest(R, k))}
<1>1. t \in Tx /\ R \in SUBSET Tx /\ IsFiniteSet(R)
  <2>1. Held(p) \subseteq Tx /\ IsFiniteSet(Held(p)) /\ R \in SUBSET Held(p)
    BY HeldType DEF PoolOK
  <2>2. IsFiniteSet(R)
    <3> HIDE DEF R
    <3> QED
      BY <2>1, FS_Subset
  <2> QED
    BY <2>1, <2>2, PoolAssumption
<1>2. MaxEvictionAttempts \in Nat /\ Cardinality(R) \in Nat
  BY <1>1, PoolAssumption, FS_CardinalityType
<1>3. PICK n \in 0 .. MaxEvictionAttempts : FitsWithout(p, t, ToReplace(p, t) \cup Cheapest(C, n))
  BY DEF EvictionPlanned
<1>4. n \in Nat /\ n <= MaxEvictionAttempts
  BY <1>2, SMTT(30)
<1>5. PICK m \in 0 .. Cardinality(R) : m <= n /\ Cheapest(R, m) = Cheapest(C, n)
  <2> HIDE DEF R
  <2> QED
    BY <1>1, <1>4, CheapestAgree
<1>6. m \in enough
  BY <1>3, <1>5
<1> DEFINE e == Min(enough)
<1>7. e \in enough /\ e <= m
  <2>1. enough \in SUBSET (0 .. Cardinality(R)) /\ enough # {}
    BY <1>6
  <2> HIDE DEF enough, R
  <2> QED
    BY <1>2, <1>6, <2>1, Extremes
<1>8. e \in 0 .. Cardinality(R) /\ FitsWithout(p, t, ToReplace(p, t) \cup Cheapest(R, e))
  BY <1>7
<1>9. Evictions(p, t) = e
  BY <1>6 DEF Evictions
<1> HIDE DEF e, enough, C
<1>10. e \in Nat /\ m \in Nat /\ e <= MaxEvictionAttempts
  BY <1>2, <1>4, <1>5, <1>7, <1>8, SMTT(30)
<1>11. Min({e, MaxEvictionAttempts}) = e
  <2>1. {e, MaxEvictionAttempts} \in SUBSET (0 .. MaxEvictionAttempts) /\ {e, MaxEvictionAttempts} # {}
    BY <1>2, <1>10, SMTT(30)
  <2>2. /\ Min({e, MaxEvictionAttempts}) \in {e, MaxEvictionAttempts}
        /\ Min({e, MaxEvictionAttempts}) <= e
    BY <1>2, <2>1, Extremes
  <2> QED
    BY <1>2, <1>10, <2>2, SMTT(30)
<1>12. Evicted(p, t) = Cheapest(R, e)
  BY <1>9, <1>11 DEF Evicted
<1>13. ASSUME NEW u \in Cheapest(R, e) PROVE u \in C /\ u \in R
  <2> HIDE DEF R
  <2>1. u \in R /\ Ahead(R, u) < e
    BY <1>13 DEF Cheapest, Ahead
  <2>2. Ahead(R, u) \in Nat
    BY <1>1, AheadType
  <2>3. Ahead(R, u) < m
    BY <1>7, <1>10, <2>1, <2>2, SMTT(30)
  <2>4. u \in Cheapest(R, m)
    BY <2>1, <2>3 DEF Cheapest, Ahead
  <2>5. u \in Cheapest(C, n)
    BY <1>5, <2>4
  <2> QED
    BY <2>1, <2>5 DEF Cheapest
<1> QED
  BY <1>8, <1>9, <1>10, <1>12, <1>13 DEF C

\* What a call of add may do to the pool p: nothing, or insert t and drop
\* transactions that pay less per byte.
Admitted(p, t, q) ==
    /\ t \in Held(q) /\ Held(q) \subseteq Held(p) \cup {t}
    /\ \A u \in Held(p) \ Held(q) : FeeRate(u) < FeeRate(t)

\* admit_after_checks, once its checks have passed: the replaced and the evicted
\* transactions leave, and t comes in.
LEMMA AdmitKeeps ==
    ASSUME NEW p, PoolOK(p), NEW t \in Sound, t \notin Held(p), Admissible(p, t)
    PROVE  /\ admit_after_checks(p, t).pool
                = Insert(Remove(p, ToReplace(p, t) \cup Evicted(p, t)), t)
           /\ PoolOK(admit_after_checks(p, t).pool)
           /\ Admitted(p, t, admit_after_checks(p, t).pool)
<1> DEFINE out == ToReplace(p, t) \cup Evicted(p, t)
           room == Remove(p, out)
<1>1. p \in PoolRecord /\ Indexed(p) /\ Accounted(p)
  BY DEF PoolOK
<1>2. /\ Evictions(p, t) <= MaxEvictionAttempts
      /\ Evicted(p, t) \subseteq Held(p) \ ToReplace(p, t)
      /\ \A u \in Evicted(p, t) : FeeRate(u) < FeeRate(t)
      /\ FitsWithout(p, t, out)
  BY PlanIsKept DEF Admissible
<1>3. ToReplace(p, t) \subseteq Held(p) /\ out \subseteq Held(p) /\ out \cap Held(p) = out
  BY <1>2 DEF ToReplace
<1>4. ~(Evictions(p, t) > MaxEvictionAttempts)
  <2>1. Evictions(p, t) \in Nat
    <3>1. IsFiniteSet(Held(p) \ ToReplace(p, t))
      BY FS_Difference DEF PoolOK
    <3> DEFINE R == Held(p) \ ToReplace(p, t)
               enough == {k \in 0 .. Cardinality(R) :
                            FitsWithout(p, t, ToReplace(p, t) \cup Cheapest(R, k))}
    <3>2. Cardinality(R) \in Nat
      BY <3>1, FS_CardinalityType
    <3>3. Evictions(p, t) = IF enough = {} THEN Cardinality(R) ELSE Min(enough)
      BY DEF Evictions
    <3>4. enough # {} => Min(enough) \in 0 .. Cardinality(R)
      <4>1. enough \in SUBSET (0 .. Cardinality(R))
        OBVIOUS
      <4> HIDE DEF enough, R
      <4> QED
        BY <3>2, <4>1, Extremes
    <3> HIDE DEF enough, R
    <3> QED
      BY <3>2, <3>3, <3>4, SMTT(30)
  <2> QED
    BY <1>2, <2>1, PoolAssumption, SMTT(30)
<1>5. admit_after_checks(p, t).pool = Insert(room, t)
  BY <1>4 DEF admit_after_checks, Answer
<1>6. PoolOK(room) /\ Held(room) = Held(p) \ out /\ room.current_size = p.current_size - SizeOf(out)
  BY <1>3, RemoveKeeps
<1> HIDE DEF room
<1>7. ASSUME NEW u \in Held(room)
      PROVE  KeyImages(t) \cap KeyImages(u) = {} /\ LinkingTags(t) \cap LinkingTags(u) = {}
  <2>1. u \in Held(p) /\ u \notin ToReplace(p, t)
    BY <1>6, <1>7
  <2>2. KeyImages(t) \cap KeyImages(u) = {}
    BY <2>1 DEF ToReplace
  <2>3. ASSUME NEW l, l \in LinkingTags(t), l \in LinkingTags(u) PROVE FALSE
    <3>1. l \in p.linking_tags
      BY <1>1, <2>1, <2>3 DEF Indexed, TagsOf
    <3>2. l \in TagsOf(ToReplace(p, t))
      BY <2>3, <3>1 DEF Admissible, TagsFree
    <3>3. PICK w \in ToReplace(p, t) : l \in LinkingTags(w)
      BY <3>2 DEF TagsOf
    <3> QED
      BY <1>1, <1>3, <2>1, <2>3, <3>3 DEF Indexed
  <2> QED
    BY <2>2, <2>3
<1>8. room.current_size + Size(t) <= MaxSize /\ t \notin Held(room)
  BY <1>2, <1>6 DEF FitsWithout
<1>9. PoolOK(Insert(room, t)) /\ Held(Insert(room, t)) = Held(room) \cup {t}
  BY <1>6, <1>7, <1>8, InsertKeeps
<1>10. ASSUME NEW u \in ToReplace(p, t) PROVE FeeRate(u) < FeeRate(t)
  <2>1. PICK k : k \in KeyImages(u) /\ k \in KeyImages(t)
    BY <1>10 DEF ToReplace
  <2>2. u \in Held(p) /\ k \in p.key_images
    BY <1>1, <1>3, <2>1 DEF Indexed, ImagesOf
  <2>3. PICK w \in Held(p) : k \in KeyImages(w) /\ Outbids(t, w)
    BY <2>1, <2>2 DEF Admissible, MayReplace
  <2>4. w = u
    BY <1>1, <2>1, <2>2, <2>3 DEF Indexed
  <2>5. FeeRate(t) > FeeRate(u)
    BY <2>3, <2>4 DEF Outbids
  <2>6. FeeRate(t) \in Nat /\ FeeRate(u) \in Nat
    BY <1>1, <2>2, HeldType, FeeRateType, PoolAssumption
  <2> QED
    BY <2>5, <2>6, SMTT(30)
<1>11. Admitted(p, t, Insert(room, t))
  BY <1>2, <1>6, <1>9, <1>10 DEF Admitted
<1> QED
  BY <1>5, <1>9, <1>11 DEF room

\* add keeps the pool in order, and changes it only when it admits t.
LEMMA AddKeeps ==
    ASSUME NEW p, PoolOK(p), NEW t
    PROVE  /\ PoolOK(add(p, t).pool)
           /\ add(p, t).pool = p \/ Admitted(p, t, add(p, t).pool)
<1>1. CASE t \notin Sound \/ t \in Held(p)
  <2>1. add(p, t).pool = p
    BY <1>1 DEF add, Answer
  <2> QED
    BY <2>1
<1>2. CASE t \in Sound /\ t \notin Held(p)
  <2>1. add(p, t) = admit_after_checks(p, t)
    BY <1>2 DEF add
  <2>2. CASE ~Admissible(p, t)
    <3>1. admit_after_checks(p, t).pool = p
      BY <2>2 DEF admit_after_checks, Answer
    <3> QED
      BY <2>1, <3>1
  <2>3. CASE Admissible(p, t)
    BY <1>2, <2>1, <2>3, AdmitKeeps
  <2> QED
    BY <2>2, <2>3
<1> QED
  BY <1>1, <1>2

-----------------------------------------------------------------------------
(* The invariant under the steps of the node.                              *)

\* The variables around the pool are of their types.
NodeTypeOK ==
    /\ stored \subseteq Block /\ tip \in stored /\ applied \in stored
    /\ writer \in Handler \cup {NoThread} /\ generation \in Nat
    /\ work \in [Handler -> WorkRecord]
    /\ adm \in [Thread -> AdmissionRecord]
    /\ sweep \in SweepRecord /\ torn \in BOOLEAN

\* The sweep in progress belongs to a handler that sweeps.
SweepOK == sweep.by # NoThread => work[sweep.by].pc = "sweeping"

\* PoolInv in the parts the steps are checked against.
LEMMA PoolInvParts ==
    /\ PoolInv <=> NodeTypeOK /\ PoolOK(pool) /\ ChainOK /\ AdmissionsOK /\ SweepOK
    /\ PoolInv' <=> NodeTypeOK' /\ PoolOK(pool)' /\ ChainOK' /\ AdmissionsOK' /\ SweepOK'
BY DEF PoolInv, PoolTypeOK, NodeTypeOK, SweepOK, PoolOK

\* The empty records are of their types.
LEMMA EmptyRecords ==
    NoWork \in WorkRecord /\ NoAdmission \in AdmissionRecord /\ NoSweep \in SweepRecord
<1>1. 0 \in Heights /\ 0 \in Nat /\ 0 \in 0 .. MaxGenerationAttempts - 1
  BY TreeAssumption, NodeAssumption, SMTT(30) DEF Heights
<1> QED
  BY <1>1 DEF NoWork, WorkRecord, NoAdmission, AdmissionRecord, NoSweep, SweepRecord

\* A step of a handler changes the record of that handler only.
LEMMA WorkStep ==
    ASSUME work \in [Handler -> WorkRecord], NEW h \in Handler, NEW r \in WorkRecord,
           work' = [work EXCEPT ![h] = r]
    PROVE  /\ work' \in [Handler -> WorkRecord] /\ work'[h] = r
           /\ \A g \in Handler : g # h => work'[g] = work[g]
OBVIOUS

\* The same for the admission of a thread.
LEMMA AdmissionStep ==
    ASSUME adm \in [Thread -> AdmissionRecord], NEW th \in Thread, NEW r \in AdmissionRecord,
           adm' = [adm EXCEPT ![th] = r]
    PROVE  /\ adm' \in [Thread -> AdmissionRecord] /\ adm'[th] = r
           /\ \A o \in Thread : o # th => adm'[o] = adm[o]
OBVIOUS

\* A handler outside add_block may go on without disturbing the chain.
LEMMA ChainKept ==
    ASSUME ChainOK, UNCHANGED chain, NEW h \in Handler,
           \A g \in Handler : g # h => work'[g] = work[g],
           work[h].pc \notin {"process", "connect"}, work'[h].pc \notin {"process", "connect"},
           work'[h].pc \in {"decide", "confirm"} => work'[h].block \in Block
    PROVE  ChainOK'
<1>1. /\ stored' = stored /\ tip' = tip /\ applied' = applied /\ writer' = writer
  BY DEF chain
<1>2. ASSUME NEW g \in Handler
      PROVE  /\ work'[g].pc \in {"process", "connect"} => writer = g
             /\ work'[g].pc = "process" =>
                  work'[g].block \in Block \ {Genesis} /\ Parent(work'[g].block) \in stored
             /\ work'[g].pc = "connect" => work'[g].block \in stored
             /\ work'[g].pc \in {"decide", "confirm"} => work'[g].block \in Block
  <2>1. CASE g = h
    BY <2>1
  <2>2. CASE g # h
    <3>1. work'[g] = work[g]
      BY <2>2
    <3> QED
      BY <3>1 DEF ChainOK
  <2> QED
    BY <2>1, <2>2
<1>3. (\A g \in Handler : work'[g].pc # "connect") => applied = tip
  <2>1. ASSUME \A g \in Handler : work'[g].pc # "connect" PROVE \A g \in Handler : work[g].pc # "connect"
    BY <2>1
  <2> QED
    BY <2>1 DEF ChainOK
<1>4. Genesis \in stored /\ \A b \in stored : Branch(b) \subseteq stored
  BY DEF ChainOK
<1> QED
  BY <1>1, <1>2, <1>3, <1>4 DEF ChainOK

\* Verdicts stay good while the chain stays where it is, and are void once the
\* generation has moved or a writer is at work.
LEMMA AdmissionsKept ==
    ASSUME NodeTypeOK, AdmissionsOK, UNCHANGED adm,
           \/ writer' = writer /\ generation' = generation /\ tip' = tip
           \/ writer' # NoThread /\ generation' = generation
           \/ generation' = generation + 1
    PROVE  AdmissionsOK'
<1>1. ASSUME NEW th \in Thread
      PROVE  /\ adm[th].pc \in {"validate", "insert"} => adm[th].gen <= generation'
             /\ (adm[th].pc = "insert" /\ adm[th].valid /\ writer' = NoThread
                   /\ generation' = adm[th].gen) => Valid(adm[th].tx, tip')
  <2>1. /\ adm[th].pc \in {"validate", "insert"} => adm[th].gen <= generation
        /\ (adm[th].pc = "insert" /\ adm[th].valid /\ writer = NoThread
               /\ generation = adm[th].gen) => Valid(adm[th].tx, tip)
    BY DEF AdmissionsOK, StillCurrent
  <2>2. CASE writer' = writer /\ generation' = generation /\ tip' = tip
    BY <2>1, <2>2
  <2>3. CASE writer' # NoThread /\ generation' = generation
    BY <2>1, <2>3
  <2>4. CASE generation' = generation + 1
    <3>1. generation \in Nat /\ adm[th].gen \in Nat
      BY DEF NodeTypeOK, AdmissionRecord
    <3>2. adm[th].gen <= generation => adm[th].gen <= generation' /\ generation' # adm[th].gen
      BY <2>4, <3>1, SMTT(30)
    <3> QED
      BY <2>1, <3>2
  <2> QED
    BY <2>2, <2>3, <2>4
<1> QED
  BY <1>1 DEF AdmissionsOK, StillCurrent

\* A node that starts with an empty pool on the genesis block is in the invariant.
LEMMA PoolInit == Init => PoolInv
<1> SUFFICES ASSUME Init PROVE PoolInv
  OBVIOUS
<1>1. NodeTypeOK
  <2>1. Genesis \in Block /\ 0 \in Nat
    BY TreeAssumption
  <2> QED
    BY <2>1, EmptyRecords DEF Init, NodeTypeOK
<1>2. PoolOK(pool)
  BY EmptyPoolOK DEF Init
<1>3. \A h \in Handler : work[h].pc = "idle"
  BY DEF Init, NoWork
<1>4. ChainOK
  BY <1>3, BranchGenesis DEF Init, ChainOK
<1>5. \A th \in Thread : adm[th].pc = "idle"
  BY DEF Init, NoAdmission
<1>6. AdmissionsOK
  BY <1>5 DEF AdmissionsOK
<1>7. SweepOK
  BY DEF Init, NoSweep, SweepOK
<1> QED
  BY <1>1, <1>2, <1>4, <1>6, <1>7, PoolInvParts

\* A sweep goes on while another handler takes a step.
LEMMA SweepKept ==
    ASSUME NodeTypeOK, SweepOK, UNCHANGED sweep, NEW h \in Handler,
           \A g \in Handler : g # h => work'[g] = work[g], work[h].pc # "sweeping"
    PROVE  SweepOK'
<1>1. sweep.by # NoThread => sweep.by \in Handler /\ sweep.by # h
  BY DEF NodeTypeOK, SweepRecord, SweepOK
<1> QED
  BY <1>1 DEF SweepOK

\* At most one handler is inside add_block, and none when there is no writer.
LEMMA SoleWriter ==
    ASSUME ChainOK
    PROVE  /\ \A h, g \in Handler :
                work[h].pc \in {"process", "connect"} /\ work[g].pc \in {"process", "connect"} => h = g
           /\ writer = NoThread => \A h \in Handler : work[h].pc \notin {"process", "connect"}
           /\ writer = NoThread => applied = tip
<1>1. \A h \in Handler : work[h].pc \in {"process", "connect"} => writer = h
  BY DEF ChainOK
<1>2. NoThread \notin Handler
  BY NodeAssumption
<1>3. writer = NoThread => \A h \in Handler : work[h].pc \notin {"process", "connect"}
  BY <1>1, <1>2
<1>4. writer = NoThread => applied = tip
  BY <1>3 DEF ChainOK
<1> QED
  BY <1>1, <1>3, <1>4

\* A stored block has its ancestors stored.
LEMMA StoredGrows ==
    ASSUME ChainOK, NEW b \in Block \ {Genesis}, Parent(b) \in stored
    PROVE  /\ Genesis \in stored \cup {b}
           /\ \A c \in stored \cup {b} : Branch(c) \subseteq stored \cup {b}
<1>1. Branch(b) = Branch(Parent(b)) \cup {b}
  BY BranchParent
<1> QED
  BY <1>1 DEF ChainOK

\* find_fork_point returns an ancestor of the tip.
LEMMA ForkPointType ==
    ASSUME NEW a \in Block, NEW b \in Block
    PROVE  ForkPoint(a, b) \in Branch(a)
<1> DEFINE S == {h \in 0 .. Height(a) : h <= Height(b) /\ Anc(a, h) = Anc(b, h)}
<1>1. Height(a) \in Nat /\ Height(b) \in Nat
  BY HeightType
<1>2. 0 \in 0 .. Height(a) /\ 0 <= Height(b)
  BY <1>1, SMTT(30)
<1>3. Anc(a, 0) = Genesis /\ Anc(b, 0) = Genesis
  BY AncestorAssumption
<1>4. 0 \in S
  BY <1>2, <1>3
<1>5. S \in SUBSET (0 .. Height(a)) /\ S # {}
  BY <1>4
<1>6. Highest(S) \in S
  <2> HIDE DEF S
  <2>1. Max(S) \in S /\ \A k \in S : k <= Max(S)
    BY <1>1, <1>5, Extremes
  <2> QED
    BY <2>1 DEF Highest
<1> QED
  BY <1>6 DEF ForkPoint, Branch

\* add_block begins, and becomes the writer.
LEMMA BeginBlockInv ==
    ASSUME PoolInv, NEW h \in Handler, NEW b \in Block, BeginBlock(h, b)
    PROVE  PoolInv'
<1>1. NodeTypeOK /\ PoolOK(pool) /\ ChainOK /\ AdmissionsOK /\ SweepOK
  BY PoolInvParts
<1> DEFINE r == [NoWork EXCEPT !.pc = "process", !.block = b]
<1>2. r \in WorkRecord /\ r.pc = "process" /\ r.block = b
  BY EmptyRecords DEF WorkRecord
<1>3. /\ work' = [work EXCEPT ![h] = r] /\ work[h].pc = "idle" /\ writer = NoThread /\ writer' = h
      /\ b \notin stored /\ Parent(b) \in stored
      /\ UNCHANGED <<pool, stored, tip, applied, generation, adm, sweep, torn>>
  BY DEF BeginBlock
<1> HIDE DEF r
<1>4. /\ work' \in [Handler -> WorkRecord] /\ work'[h] = r
      /\ \A g \in Handler : g # h => work'[g] = work[g]
  BY <1>1, <1>2, <1>3, WorkStep DEF NodeTypeOK
<1>5. NodeTypeOK'
  BY <1>1, <1>3, <1>4 DEF NodeTypeOK
<1>6. ChainOK'
  <2>1. b # Genesis
    BY <1>1, <1>3 DEF ChainOK
  <2>2. \A g \in Handler : work[g].pc \notin {"process", "connect"}
    BY <1>1, <1>3, SoleWriter
  <2>3. applied = tip
    BY <1>1, <1>3, SoleWriter
  <2> QED
    BY <1>1, <1>2, <1>3, <1>4, <2>1, <2>2, <2>3 DEF ChainOK
<1>7. AdmissionsOK'
  <2>1. h # NoThread
    BY NodeAssumption
  <2> QED
    BY <1>1, <1>3, <2>1, AdmissionsKept
<1>8. SweepOK'
  BY <1>1, <1>3, <1>4, SweepKept
<1> QED
  BY <1>1, <1>3, <1>5, <1>6, <1>7, <1>8, PoolInvParts

\* A handler leaves add_block: what it has done to the chain and where it goes on.
LEMMA LeavesAddBlock ==
    ASSUME PoolInv, NEW h \in Handler, NEW r \in WorkRecord,
           work[h].pc \in {"process", "connect"} \/ (work[h].pc = "idle" /\ writer = NoThread),
           work' = [work EXCEPT ![h] = r],
           r.pc \in {"idle", "decide", "restore"}, r.pc = "decide" => r.block \in Block,
           stored' \subseteq Block, tip' \in stored', applied' = tip',
           Genesis \in stored', \A c \in stored' : Branch(c) \subseteq stored',
           EndUpdate, UNCHANGED <<pool, adm, sweep, torn>>
    PROVE  PoolInv'
<1>1. NodeTypeOK /\ PoolOK(pool) /\ ChainOK /\ AdmissionsOK /\ SweepOK
  BY PoolInvParts
<1>2. /\ work' \in [Handler -> WorkRecord] /\ work'[h] = r
      /\ \A g \in Handler : g # h => work'[g] = work[g]
  BY <1>1, WorkStep DEF NodeTypeOK
<1>3. writer' = NoThread /\ generation' = generation + 1 /\ generation' \in Nat
  <2>1. generation \in Nat => generation + 1 \in Nat
    BY SMTT(30)
  <2> QED
    BY <1>1, <2>1 DEF EndUpdate, NodeTypeOK
<1>4. NodeTypeOK'
  BY <1>1, <1>2, <1>3 DEF NodeTypeOK
<1>5. \A g \in Handler : work'[g].pc \notin {"process", "connect"}
  BY <1>1, <1>2, SoleWriter
<1>6. \A g \in Handler : work'[g].pc \in {"decide", "confirm"} => work'[g].block \in Block
  BY <1>1, <1>2 DEF ChainOK
<1>7. ChainOK'
  BY <1>5, <1>6 DEF ChainOK
<1>8. AdmissionsOK'
  BY <1>1, <1>3, AdmissionsKept
<1>9. SweepOK'
  BY <1>1, <1>2, SweepKept
<1> QED
  BY <1>1, <1>4, <1>7, <1>8, <1>9, PoolInvParts

\* The records the chain steps leave the handler with.
LEMMA WorkRecords ==
    ASSUME NEW w \in WorkRecord
    PROVE  /\ \A pc \in {"restore", "decide", "connect", "sweeping", "sweep"} :
                /\ [w EXCEPT !.pc = pc] \in WorkRecord
                /\ [w EXCEPT !.pc = pc].pc = pc /\ [w EXCEPT !.pc = pc].block = w.block
                /\ [w EXCEPT !.pc = pc].reorg = w.reorg /\ [w EXCEPT !.pc = pc].full = w.full
           /\ \A S \in SUBSET Tx :
                /\ [w EXCEPT !.pc = "decide", !.reorg = TRUE, !.orphaned = S] \in WorkRecord
                /\ [w EXCEPT !.pc = "decide", !.reorg = TRUE, !.orphaned = S].pc = "decide"
                /\ [w EXCEPT !.pc = "decide", !.reorg = TRUE, !.orphaned = S].block = w.block
                /\ [w EXCEPT !.pc = "decide", !.reorg = TRUE, !.orphaned = S].reorg = TRUE
BY DEF WorkRecord

\* A known block refreshes the height of the pool only.
LEMMA BeginKnownInv ==
    ASSUME PoolInv, NEW h \in Handler, BeginKnown(h)
    PROVE  PoolInv'
<1>1. NodeTypeOK /\ ChainOK
  BY PoolInvParts
<1> DEFINE r == [work[h] EXCEPT !.pc = "restore"]
<1>2. r \in WorkRecord /\ r.pc = "restore"
  BY <1>1, WorkRecords DEF NodeTypeOK
<1>3. /\ work' = [work EXCEPT ![h] = r] /\ work[h].pc = "idle" /\ writer = NoThread /\ EndUpdate
      /\ UNCHANGED <<pool, stored, tip, applied, adm, sweep, torn>>
  BY <1>1 DEF BeginKnown, NodeTypeOK
<1> HIDE DEF r
<1>4. applied' = tip' /\ tip' \in stored' /\ stored' \subseteq Block
  BY <1>1, <1>3, SoleWriter DEF NodeTypeOK
<1>5. Genesis \in stored' /\ \A c \in stored' : Branch(c) \subseteq stored'
  BY <1>1, <1>3 DEF ChainOK
<1> QED
  BY <1>2, <1>3, <1>4, <1>5, LeavesAddBlock

\* The block of a handler inside add_block, before anything has happened.
LEMMA Processing ==
    ASSUME PoolInv, NEW h \in Handler, work[h].pc = "process"
    PROVE  /\ work[h] \in WorkRecord
           /\ work[h].block \in Block \ {Genesis} /\ Parent(work[h].block) \in stored
           /\ applied = tip /\ writer # NoThread
           /\ \A g \in Handler : g # h => work[g].pc \notin {"process", "connect"}
<1>1. NodeTypeOK /\ ChainOK
  BY PoolInvParts
<1>2. \A g \in Handler : g # h => work[g].pc \notin {"process", "connect"}
  BY <1>1, SoleWriter
<1>3. applied = tip
  BY <1>1, <1>2 DEF ChainOK
<1>4. writer = h /\ h # NoThread
  BY <1>1, NodeAssumption DEF ChainOK
<1> QED
  BY <1>1, <1>2, <1>3, <1>4 DEF ChainOK, NodeTypeOK

\* A block that extends the tip, accepted or refused.
LEMMA ExtendInv ==
    ASSUME PoolInv, NEW h \in Handler, Extend(h)
    PROVE  PoolInv'
<1> DEFINE b == work[h].block
           r == [work[h] EXCEPT !.pc = "decide"]
<1>1. NodeTypeOK /\ ChainOK
  BY PoolInvParts
<1>2. work[h].pc = "process" /\ Parent(b) = tip /\ EndUpdate /\ UNCHANGED <<pool, adm, sweep, torn>>
  BY DEF Extend
<1>3. /\ work[h] \in WorkRecord /\ b \in Block \ {Genesis} /\ Parent(b) \in stored /\ applied = tip
  BY <1>2, Processing
<1>4. CASE AcceptableChain(b)
  <2>1. stored' = stored \cup {b} /\ tip' = b /\ applied' = b
    BY <1>4 DEF Extend
  <2>2. work' = [work EXCEPT ![h] = r]
    BY <1>1, <1>4 DEF Extend, NodeTypeOK
  <2>3. r \in WorkRecord /\ r.pc = "decide" /\ r.block \in Block
    BY <1>3, WorkRecords
  <2> HIDE DEF r
  <2>4. Genesis \in stored' /\ \A c \in stored' : Branch(c) \subseteq stored'
    BY <1>1, <1>3, <2>1, StoredGrows
  <2>5. stored' \subseteq Block /\ tip' \in stored' /\ applied' = tip'
    BY <1>1, <1>3, <2>1 DEF NodeTypeOK
  <2> QED
    BY <1>2, <2>2, <2>3, <2>4, <2>5, LeavesAddBlock
<1>5. CASE ~AcceptableChain(b)
  <2>1. work' = [work EXCEPT ![h] = NoWork] /\ UNCHANGED <<stored, tip, applied>>
    BY <1>5 DEF Extend
  <2>2. NoWork \in WorkRecord /\ NoWork.pc = "idle"
    BY EmptyRecords DEF NoWork
  <2>3. Genesis \in stored' /\ \A c \in stored' : Branch(c) \subseteq stored'
    BY <1>1, <2>1 DEF ChainOK
  <2>4. stored' \subseteq Block /\ tip' \in stored' /\ applied' = tip'
    BY <1>1, <1>3, <2>1 DEF NodeTypeOK
  <2> QED
    BY <1>2, <2>1, <2>2, <2>3, <2>4, LeavesAddBlock
<1> QED
  BY <1>4, <1>5

\* A fork block is kept, and the chain does not move.
LEMMA KeepForkInv ==
    ASSUME PoolInv, NEW h \in Handler, KeepFork(h)
    PROVE  PoolInv'
<1> DEFINE b == work[h].block
           r == [work[h] EXCEPT !.pc = "decide"]
<1>1. NodeTypeOK /\ ChainOK
  BY PoolInvParts
<1>2. /\ work[h].pc = "process" /\ stored' = stored \cup {b} /\ EndUpdate
      /\ UNCHANGED <<pool, tip, applied, adm, sweep, torn>>
  BY DEF KeepFork
<1>3. work' = [work EXCEPT ![h] = r]
  BY <1>1 DEF KeepFork, NodeTypeOK
<1>4. /\ work[h] \in WorkRecord /\ b \in Block \ {Genesis} /\ Parent(b) \in stored /\ applied = tip
  BY <1>2, Processing
<1>5. r \in WorkRecord /\ r.pc = "decide" /\ r.block \in Block
  BY <1>4, WorkRecords
<1> HIDE DEF r
<1>6. Genesis \in stored' /\ \A c \in stored' : Branch(c) \subseteq stored'
  BY <1>1, <1>2, <1>4, StoredGrows
<1>7. stored' \subseteq Block /\ tip' \in stored' /\ applied' = tip'
  BY <1>1, <1>2, <1>4 DEF NodeTypeOK
<1> QED
  BY <1>2, <1>3, <1>5, <1>6, <1>7, LeavesAddBlock

\* The first piece of a reorg rewinds the UTXO set to the fork point.
LEMMA RewindInv ==
    ASSUME PoolInv, NEW h \in Handler, Rewind(h)
    PROVE  PoolInv'
<1> DEFINE b == work[h].block
           r == [work[h] EXCEPT !.pc = "connect"]
<1>1. NodeTypeOK /\ PoolOK(pool) /\ ChainOK /\ AdmissionsOK /\ SweepOK
  BY PoolInvParts
<1>2. /\ work[h].pc = "process" /\ stored' = stored \cup {b} /\ applied' = ForkPoint(tip, b)
      /\ UNCHANGED <<pool, tip, generation, writer, adm, sweep, torn>>
  BY DEF Rewind
<1>3. work' = [work EXCEPT ![h] = r]
  BY <1>1 DEF Rewind, NodeTypeOK
<1>4. /\ work[h] \in WorkRecord /\ b \in Block \ {Genesis} /\ Parent(b) \in stored
  BY <1>2, Processing
<1>5. \A g \in Handler : g # h => work[g].pc \notin {"process", "connect"}
  BY <1>2, Processing
<1>6. r \in WorkRecord /\ r.pc = "connect" /\ r.block = b
  BY <1>4, WorkRecords
<1> HIDE DEF r
<1>7. /\ work' \in [Handler -> WorkRecord] /\ work'[h] = r
      /\ \A g \in Handler : g # h => work'[g] = work[g]
  BY <1>1, <1>3, <1>6, WorkStep DEF NodeTypeOK
<1>8. Genesis \in stored' /\ \A c \in stored' : Branch(c) \subseteq stored'
  BY <1>1, <1>2, <1>4, StoredGrows
<1>9. applied' \in stored'
  <2>1. tip \in stored /\ tip \in Block /\ b \in Block
    BY <1>1, <1>4 DEF NodeTypeOK
  <2>2. ForkPoint(tip, b) \in Branch(tip)
    BY <2>1, ForkPointType
  <2> QED
    BY <1>1, <1>2, <2>1, <2>2 DEF ChainOK
<1>10. NodeTypeOK'
  BY <1>1, <1>2, <1>4, <1>7, <1>9 DEF NodeTypeOK
<1>11. ChainOK'
  <2>1. writer' = h /\ b \in stored'
    BY <1>1, <1>2 DEF ChainOK
  <2>2. ASSUME NEW g \in Handler
        PROVE  /\ work'[g].pc \in {"process", "connect"} => writer' = g
               /\ work'[g].pc = "process" =>
                    work'[g].block \in Block \ {Genesis} /\ Parent(work'[g].block) \in stored'
               /\ work'[g].pc = "connect" => work'[g].block \in stored'
               /\ work'[g].pc \in {"decide", "confirm"} => work'[g].block \in Block
    <3>1. CASE g = h
      BY <1>6, <1>7, <2>1, <3>1
    <3>2. CASE g # h
      BY <1>1, <1>5, <1>7, <3>2 DEF ChainOK
    <3> QED
      BY <3>1, <3>2
  <2>3. ~ \A g \in Handler : work'[g].pc # "connect"
    BY <1>6, <1>7
  <2> QED
    BY <1>8, <2>2, <2>3 DEF ChainOK
<1>12. AdmissionsOK'
  BY <1>1, <1>2, AdmissionsKept
<1>13. SweepOK'
  BY <1>1, <1>2, <1>7, SweepKept
<1> QED
  BY <1>1, <1>2, <1>10, <1>11, <1>12, <1>13, PoolInvParts

\* The second piece of a reorg connects the new chain, or goes back to the old tip.
LEMMA ConnectInv ==
    ASSUME PoolInv, NEW h \in Handler, Connect(h)
    PROVE  PoolInv'
<1> DEFINE b == work[h].block
           gone == {t \in UNION {Txs(a) : a \in Disconnected(tip, b)} : KeyImages(t) # {}}
           r == [work[h] EXCEPT !.pc = "decide", !.reorg = TRUE, !.orphaned = gone]
<1>1. NodeTypeOK /\ ChainOK
  BY PoolInvParts
<1>2. work[h].pc = "connect" /\ EndUpdate /\ UNCHANGED <<pool, stored, adm, sweep, torn>>
  BY DEF Connect
<1>3. work[h] \in WorkRecord /\ b \in stored /\ b \in Block /\ tip \in stored /\ stored \subseteq Block
  BY <1>1, <1>2 DEF NodeTypeOK, ChainOK
<1>4. Genesis \in stored' /\ \A c \in stored' : Branch(c) \subseteq stored'
  BY <1>1, <1>2 DEF ChainOK
<1>5. CASE AcceptableChain(b)
  <2>1. tip' = b /\ applied' = b
    BY <1>5 DEF Connect
  <2>2. work' = [work EXCEPT ![h] = r]
    BY <1>1, <1>5 DEF Connect, NodeTypeOK
  <2>3. gone \in SUBSET Tx
    <3>1. \A a \in Branch(tip) : Txs(a) \subseteq Tx
      BY <1>3, BranchBlocks, TxAssumption
    <3> QED
      BY <3>1 DEF Disconnected
  <2>4. r \in WorkRecord /\ r.pc = "decide" /\ r.block \in Block
    <3> HIDE DEF gone
    <3> QED
      BY <1>3, <2>3, WorkRecords
  <2> HIDE DEF r, gone
  <2>5. stored' \subseteq Block /\ tip' \in stored' /\ applied' = tip'
    BY <1>2, <1>3, <2>1
  <2> QED
    BY <1>2, <1>4, <2>2, <2>4, <2>5, LeavesAddBlock
<1>6. CASE ~AcceptableChain(b)
  <2>1. work' = [work EXCEPT ![h] = NoWork] /\ applied' = tip /\ tip' = tip
    BY <1>6 DEF Connect
  <2>2. NoWork \in WorkRecord /\ NoWork.pc = "idle"
    BY EmptyRecords DEF NoWork
  <2>3. stored' \subseteq Block /\ tip' \in stored' /\ applied' = tip'
    BY <1>2, <1>3, <2>1
  <2> QED
    BY <1>2, <1>4, <2>1, <2>2, <2>3, LeavesAddBlock
<1> QED
  BY <1>5, <1>6

\* A thread outside the chain gets a new admission record.
LEMMA AdmissionSet ==
    ASSUME NodeTypeOK, AdmissionsOK, UNCHANGED chain, NEW th \in Thread, NEW r \in AdmissionRecord,
           adm' = [adm EXCEPT ![th] = r],
           r.pc \in {"validate", "insert"} => r.gen <= generation,
           (r.pc = "insert" /\ r.valid /\ writer = NoThread /\ generation = r.gen) => Valid(r.tx, tip)
    PROVE  adm' \in [Thread -> AdmissionRecord] /\ AdmissionsOK'
<1>1. writer' = writer /\ generation' = generation /\ tip' = tip
  BY DEF chain
<1>2. /\ adm' \in [Thread -> AdmissionRecord] /\ adm'[th] = r
      /\ \A o \in Thread : o # th => adm'[o] = adm[o]
  BY AdmissionStep DEF NodeTypeOK
<1>3. ASSUME NEW o \in Thread
      PROVE  /\ adm'[o].pc \in {"validate", "insert"} => adm'[o].gen <= generation'
             /\ (adm'[o].pc = "insert" /\ adm'[o].valid /\ writer' = NoThread
                   /\ generation' = adm'[o].gen) => Valid(adm'[o].tx, tip')
  <2>1. CASE o = th
    BY <1>1, <1>2, <2>1
  <2>2. CASE o # th
    BY <1>1, <1>2, <2>2 DEF AdmissionsOK, StillCurrent
  <2> QED
    BY <2>1, <2>2
<1>4. AdmissionsOK'
  BY <1>3 DEF AdmissionsOK, StillCurrent
<1> QED
  BY <1>2, <1>4

\* The records of an admission that begins, or begins again.
LEMMA AdmissionRecords ==
    /\ \A t \in Tx : LET r == [NoAdmission EXCEPT !.pc = "generation", !.tx = t]
                     IN  r \in AdmissionRecord /\ r.pc = "generation" /\ r.tx = t
    /\ \A a \in AdmissionRecord : Retry(a) \in AdmissionRecord /\ Retry(a).pc \in {"idle", "generation"}
<1>1. NoAdmission \in AdmissionRecord
  BY EmptyRecords
<1>2. ASSUME NEW t \in Tx
      PROVE  LET r == [NoAdmission EXCEPT !.pc = "generation", !.tx = t]
             IN  r \in AdmissionRecord /\ r.pc = "generation" /\ r.tx = t
  BY <1>1 DEF AdmissionRecord
<1>3. ASSUME NEW a \in AdmissionRecord
      PROVE  Retry(a) \in AdmissionRecord /\ Retry(a).pc \in {"idle", "generation"}
  <2>1. a.attempts \in 0 .. MaxGenerationAttempts - 1 /\ a.tx \in Tx \cup {NoTx}
    BY DEF AdmissionRecord
  <2>2. CASE a.attempts + 1 = MaxGenerationAttempts
    <3>1. Retry(a) = NoAdmission
      BY <2>2 DEF Retry
    <3>2. NoAdmission.pc = "idle"
      BY DEF NoAdmission
    <3> QED
      BY <1>1, <3>1, <3>2
  <2>3. CASE a.attempts + 1 # MaxGenerationAttempts
    <3> DEFINE n == a.attempts + 1
    <3>1. n \in 0 .. MaxGenerationAttempts - 1
      BY <2>1, <2>3, NodeAssumption, SMTT(30)
    <3>2. Retry(a) = [NoAdmission EXCEPT !.pc = "generation", !.tx = a.tx, !.attempts = n]
      BY <2>3 DEF Retry
    <3> HIDE DEF n
    <3> QED
      BY <1>1, <2>1, <3>1, <3>2 DEF AdmissionRecord
  <2> QED
    BY <2>2, <2>3
<1> QED
  BY <1>2, <1>3

\* A handler outside add_block takes a step: the chain stays, the pool is in order.
LEMMA HandlerStep ==
    ASSUME PoolInv, NEW h \in Handler, NEW r \in WorkRecord,
           work[h].pc \notin {"process", "connect", "sweeping"},
           r.pc \notin {"process", "connect"}, r.pc \in {"decide", "confirm"} => r.block \in Block,
           work' = [work EXCEPT ![h] = r], UNCHANGED <<chain, sweep, torn>>,
           adm' \in [Thread -> AdmissionRecord], AdmissionsOK', PoolOK(pool')
    PROVE  PoolInv'
<1>1. NodeTypeOK /\ ChainOK /\ SweepOK
  BY PoolInvParts
<1>2. /\ work' \in [Handler -> WorkRecord] /\ work'[h] = r
      /\ \A g \in Handler : g # h => work'[g] = work[g]
  BY <1>1, WorkStep DEF NodeTypeOK
<1>3. NodeTypeOK'
  BY <1>1, <1>2 DEF NodeTypeOK, chain
<1>4. ChainOK'
  BY <1>1, <1>2, ChainKept
<1>5. SweepOK'
  BY <1>1, <1>2, SweepKept
<1> QED
  BY <1>3, <1>4, <1>5, PoolInvParts DEF PoolOK

\* An admission record that does not change keeps its verdict while the chain stays.
LEMMA AdmissionsStay ==
    ASSUME PoolInv, UNCHANGED <<chain, adm>>
    PROVE  adm' \in [Thread -> AdmissionRecord] /\ AdmissionsOK'
<1>1. NodeTypeOK /\ AdmissionsOK
  BY PoolInvParts
<1>2. writer' = writer /\ generation' = generation /\ tip' = tip /\ adm' = adm
  BY DEF chain
<1> QED
  BY <1>1, <1>2, AdmissionsKept DEF NodeTypeOK

\* The decision whether the pool is to be swept.
LEMMA DecideInv ==
    ASSUME PoolInv, NEW h \in Handler, Decide(h)
    PROVE  /\ PoolInv' /\ work'[h].pc = "confirm" /\ work'[h].block = work[h].block
           /\ work'[h].full = NeedsSweep(h)
<1> DEFINE r == [work[h] EXCEPT !.pc = "confirm", !.full = NeedsSweep(h)]
<1>1. NodeTypeOK /\ ChainOK /\ PoolOK(pool)
  BY PoolInvParts
<1>2. work[h].pc = "decide" /\ UNCHANGED <<pool, chain, adm, sweep, torn>>
  BY DEF Decide
<1>3. work' = [work EXCEPT ![h] = r]
  BY <1>1 DEF Decide, NodeTypeOK
<1>4. NeedsSweep(h) \in BOOLEAN
  BY DEF NeedsSweep
<1>5. /\ r \in WorkRecord /\ r.pc = "confirm" /\ r.block = work[h].block /\ r.full = NeedsSweep(h)
  BY <1>1, <1>4 DEF NodeTypeOK, WorkRecord
<1> HIDE DEF r
<1>6. r.block \in Block
  BY <1>1, <1>2, <1>5 DEF ChainOK
<1>7. PoolInv'
  BY <1>1, <1>2, <1>3, <1>5, <1>6, AdmissionsStay, HandlerStep
<1>8. work'[h] = r
  BY <1>1, <1>3 DEF NodeTypeOK
<1> QED
  BY <1>5, <1>7, <1>8

\* remove_confirmed.
LEMMA ConfirmInv ==
    ASSUME PoolInv, NEW h \in Handler, Confirm(h)
    PROVE  PoolInv'
<1> DEFINE r == [work[h] EXCEPT !.pc = "restore"]
<1>1. NodeTypeOK /\ ChainOK /\ PoolOK(pool)
  BY PoolInvParts
<1>2. /\ work[h].pc = "confirm" /\ UNCHANGED <<chain, adm, sweep, torn>>
      /\ pool' = remove_confirmed(pool, Txs(work[h].block))
  BY DEF Confirm
<1>3. work' = [work EXCEPT ![h] = r]
  BY <1>1 DEF Confirm, NodeTypeOK
<1>4. r \in WorkRecord /\ r.pc = "restore"
  BY <1>1, WorkRecords DEF NodeTypeOK
<1> HIDE DEF r
<1>5. PoolOK(pool')
  BY <1>1, <1>2, ConfirmKeeps
<1> QED
  BY <1>1, <1>2, <1>3, <1>4, <1>5, AdmissionsStay, HandlerStep

\* An orphaned tx is taken up for admission, or dropped.
LEMMA RestoreInv ==
    ASSUME PoolInv, NEW h \in Handler, NEW t \in Tx, Restore(h, t)
    PROVE  PoolInv'
<1> DEFINE r == [work[h] EXCEPT !.orphaned = @ \ {t}]
           a == [NoAdmission EXCEPT !.pc = "generation", !.tx = t]
<1>1. NodeTypeOK /\ ChainOK /\ PoolOK(pool) /\ AdmissionsOK
  BY PoolInvParts
<1>2. work[h].pc = "restore" /\ UNCHANGED <<pool, chain, sweep, torn>>
  BY DEF Restore
<1>3. work' = [work EXCEPT ![h] = r]
  BY <1>1 DEF Restore, NodeTypeOK
<1>4. r \in WorkRecord /\ r.pc = "restore"
  BY <1>1, <1>2 DEF NodeTypeOK, WorkRecord
<1>5. adm' \in [Thread -> AdmissionRecord] /\ AdmissionsOK'
  <2>1. CASE t \in Sound
    <3>1. adm' = [adm EXCEPT ![h] = a]
      BY <2>1 DEF Restore, StartAdmission
    <3>2. a \in AdmissionRecord /\ a.pc = "generation"
      BY AdmissionRecords
    <3> HIDE DEF a
    <3>3. h \in Thread /\ UNCHANGED chain
      BY <1>2 DEF Thread
    <3> QED
      BY <1>1, <3>1, <3>2, <3>3, AdmissionSet
  <2>2. CASE t \notin Sound
    <3>1. UNCHANGED <<chain, adm>>
      BY <1>2, <2>2 DEF Restore
    <3> QED
      BY <3>1, AdmissionsStay
  <2> QED
    BY <2>1, <2>2
<1> HIDE DEF r
<1> QED
  BY <1>1, <1>2, <1>3, <1>4, <1>5, HandlerStep

\* The height of the tip is read, to be written to the pool later.
LEMMA ReadHeightInv ==
    ASSUME PoolInv, NEW h \in Handler, ReadHeight(h)
    PROVE  PoolInv'
<1> DEFINE r == [work[h] EXCEPT !.pc = "set_height", !.height = Height(tip)]
<1>1. NodeTypeOK /\ ChainOK /\ PoolOK(pool)
  BY PoolInvParts
<1>2. work[h].pc = "restore" /\ UNCHANGED <<pool, chain, adm, sweep, torn>>
  BY DEF ReadHeight
<1>3. work' = [work EXCEPT ![h] = r]
  BY <1>1 DEF ReadHeight, NodeTypeOK
<1>4. Height(tip) \in Heights
  BY <1>1, HeightType DEF NodeTypeOK
<1>5. r \in WorkRecord /\ r.pc = "set_height"
  BY <1>1, <1>4 DEF NodeTypeOK, WorkRecord
<1> HIDE DEF r
<1> QED
  BY <1>1, <1>2, <1>3, <1>5, AdmissionsStay, HandlerStep

\* set_height, after which the handler sweeps or is done.
LEMMA SetHeightInv ==
    ASSUME PoolInv, NEW h \in Handler, SetHeight(h)
    PROVE  PoolInv'
<1> DEFINE r == IF work[h].full THEN [work[h] EXCEPT !.pc = "sweep"] ELSE NoWork
<1>1. NodeTypeOK /\ ChainOK /\ PoolOK(pool)
  BY PoolInvParts
<1>2. /\ work[h].pc = "set_height" /\ UNCHANGED <<chain, adm, sweep, torn>>
      /\ pool' = set_height(pool, work[h].height)
  BY DEF SetHeight
<1>3. work' = [work EXCEPT ![h] = r]
  <2>1. CASE work[h].full
    BY <1>1, <2>1 DEF SetHeight, NodeTypeOK
  <2>2. CASE ~work[h].full
    BY <1>1, <2>2 DEF SetHeight, NodeTypeOK
  <2> QED
    BY <2>1, <2>2
<1>4. r \in WorkRecord /\ r.pc \in {"sweep", "idle"}
  <2>1. NoWork \in WorkRecord /\ NoWork.pc = "idle"
    BY EmptyRecords DEF NoWork
  <2>2. [work[h] EXCEPT !.pc = "sweep"] \in WorkRecord /\ [work[h] EXCEPT !.pc = "sweep"].pc = "sweep"
    BY <1>1, WorkRecords DEF NodeTypeOK
  <2> QED
    BY <2>1, <2>2
<1> HIDE DEF r
<1>5. PoolOK(pool')
  <2>1. work[h].height \in Heights
    BY <1>1 DEF NodeTypeOK, WorkRecord
  <2> QED
    BY <1>1, <1>2, <2>1, SetHeightKeeps
<1> QED
  BY <1>1, <1>2, <1>3, <1>4, <1>5, AdmissionsStay, HandlerStep

\* shadow_evict_invalid takes the pool lock.
LEMMA BeginSweepInv ==
    ASSUME PoolInv, NEW h \in Handler, BeginSweep(h)
    PROVE  PoolInv' /\ sweep'.by = h /\ sweep'.left = Held(pool)
<1> DEFINE r == [work[h] EXCEPT !.pc = "sweeping"]
           s == [NoSweep EXCEPT !.by = h, !.left = Held(pool)]
<1>1. NodeTypeOK /\ ChainOK /\ PoolOK(pool) /\ AdmissionsOK
  BY PoolInvParts
<1>2. /\ work[h].pc = "sweep" /\ sweep' = s /\ UNCHANGED <<pool, chain, adm, torn>>
  BY DEF BeginSweep
<1>3. work' = [work EXCEPT ![h] = r]
  BY <1>1 DEF BeginSweep, NodeTypeOK
<1>4. r \in WorkRecord /\ r.pc = "sweeping"
  BY <1>1, WorkRecords DEF NodeTypeOK
<1>5. s \in SweepRecord /\ s.by = h /\ s.left = Held(pool)
  <2>1. Held(pool) \in SUBSET Tx
    BY <1>1, HeldType DEF PoolOK
  <2> QED
    BY <2>1, EmptyRecords DEF SweepRecord
<1> HIDE DEF r, s
<1>6. /\ work' \in [Handler -> WorkRecord] /\ work'[h] = r
      /\ \A g \in Handler : g # h => work'[g] = work[g]
  BY <1>1, <1>3, <1>4, WorkStep DEF NodeTypeOK
<1>7. NodeTypeOK'
  BY <1>1, <1>2, <1>5, <1>6 DEF NodeTypeOK, chain
<1>8. ChainOK'
  BY <1>1, <1>2, <1>4, <1>6, ChainKept
<1>9. AdmissionsOK'
  BY <1>2, AdmissionsStay
<1>10. SweepOK'
  BY <1>2, <1>4, <1>5, <1>6 DEF SweepOK
<1> QED
  BY <1>1, <1>2, <1>5, <1>7, <1>8, <1>9, <1>10, PoolInvParts

\* One tx is revalidated.
LEMMA SweepOneInv ==
    ASSUME PoolInv, NEW t \in Tx, SweepOne(t)
    PROVE  /\ PoolInv' /\ sweep'.by = sweep.by /\ sweep'.left = sweep.left \ {t}
           /\ sweep'.invalid = IF ~Valid(t, applied) \/ Unminable(t, applied)
                                 THEN sweep.invalid \cup {t} ELSE sweep.invalid
           /\ sweep'.torn = (sweep.torn \/ applied # tip)
<1> DEFINE bad == IF ~Valid(t, applied) \/ Unminable(t, applied)
                    THEN sweep.invalid \cup {t} ELSE sweep.invalid
           tear == sweep.torn \/ applied # tip
           left == sweep.left \ {t}
<1>1. NodeTypeOK /\ ChainOK /\ PoolOK(pool) /\ SweepOK
  BY PoolInvParts
<1>2. /\ sweep' = [sweep EXCEPT !.left = left, !.invalid = bad, !.torn = tear]
      /\ UNCHANGED <<pool, chain, work, adm, torn>>
  BY DEF SweepOne
<1>3. bad \in SUBSET Tx /\ tear \in BOOLEAN /\ left \in SUBSET Tx
  BY <1>1 DEF NodeTypeOK, SweepRecord
<1> HIDE DEF bad, tear, left
<1>4. /\ sweep' \in SweepRecord /\ sweep'.by = sweep.by /\ sweep'.left = left
      /\ sweep'.invalid = bad /\ sweep'.torn = tear
  BY <1>1, <1>2, <1>3 DEF NodeTypeOK, SweepRecord
<1>5. NodeTypeOK'
  BY <1>1, <1>2, <1>4 DEF NodeTypeOK, chain
<1>6. ChainOK'
  BY <1>1, <1>2 DEF ChainOK, chain
<1>7. AdmissionsOK'
  BY <1>2, AdmissionsStay
<1>8. SweepOK'
  BY <1>1, <1>2, <1>4 DEF SweepOK
<1> QED
  BY <1>1, <1>2, <1>4, <1>5, <1>6, <1>7, <1>8, PoolInvParts DEF bad, tear, left

\* The sweep ends: the invalid transactions leave together, and the handler is done.
LEMMA EndSweepInv ==
    ASSUME PoolInv, EndSweep
    PROVE  /\ PoolInv' /\ sweep.by \in Handler /\ work[sweep.by].pc = "sweeping"
           /\ sweep' = NoSweep /\ torn' = sweep.torn
           /\ \A g \in Handler : g # sweep.by => work'[g] = work[g]
<1> DEFINE h == sweep.by
<1>1. NodeTypeOK /\ ChainOK /\ PoolOK(pool) /\ SweepOK
  BY PoolInvParts
<1>2. /\ h # NoThread /\ pool' = Remove(pool, sweep.invalid) /\ work' = [work EXCEPT ![h] = NoWork]
      /\ sweep' = NoSweep /\ torn' = sweep.torn /\ UNCHANGED <<chain, adm>>
  BY DEF EndSweep
<1>3. h \in Handler /\ work[h].pc = "sweeping" /\ sweep.torn \in BOOLEAN
  BY <1>1, <1>2 DEF NodeTypeOK, SweepRecord, SweepOK
<1> HIDE DEF h
<1>4. NoWork \in WorkRecord /\ NoWork.pc = "idle"
  BY EmptyRecords DEF NoWork
<1>5. /\ work' \in [Handler -> WorkRecord] /\ work'[h] = NoWork
      /\ \A g \in Handler : g # h => work'[g] = work[g]
  BY <1>1, <1>2, <1>3, <1>4, WorkStep DEF NodeTypeOK
<1>6. NodeTypeOK'
  BY <1>1, <1>2, <1>3, <1>5, EmptyRecords DEF NodeTypeOK, chain
<1>7. ChainOK'
  BY <1>1, <1>2, <1>3, <1>4, <1>5, ChainKept
<1>8. AdmissionsOK'
  BY <1>2, AdmissionsStay
<1>9. SweepOK'
  <2>1. NoSweep.by = NoThread
    BY DEF NoSweep
  <2> QED
    BY <1>2, <2>1 DEF SweepOK
<1>10. PoolOK(pool)'
  BY <1>1, <1>2, RemoveKeeps
<1> QED
  BY <1>2, <1>3, <1>5, <1>6, <1>7, <1>8, <1>9, <1>10, PoolInvParts DEF h

\* A step that touches nothing but the pool and leaves it in order.
LEMMA PoolStep ==
    ASSUME PoolInv, UNCHANGED <<chain, work, adm, sweep, torn>>, PoolOK(pool')
    PROVE  PoolInv'
<1>1. NodeTypeOK /\ ChainOK /\ SweepOK
  BY PoolInvParts
<1>2. NodeTypeOK' /\ ChainOK' /\ SweepOK'
  BY <1>1 DEF NodeTypeOK, ChainOK, SweepOK, chain
<1>3. AdmissionsOK'
  BY AdmissionsStay
<1> QED
  BY <1>2, <1>3, PoolInvParts DEF PoolOK

\* A thread that admits a tx changes its own record and, in the end, the pool.
LEMMA AdmissionInv ==
    ASSUME PoolInv, NEW th \in Thread, NEW r \in AdmissionRecord,
           adm' = [adm EXCEPT ![th] = r], UNCHANGED <<chain, work, sweep, torn>>, PoolOK(pool'),
           r.pc \in {"validate", "insert"} => r.gen <= generation,
           (r.pc = "insert" /\ r.valid /\ writer = NoThread /\ generation = r.gen) => Valid(r.tx, tip)
    PROVE  PoolInv'
<1>1. NodeTypeOK /\ ChainOK /\ SweepOK /\ AdmissionsOK
  BY PoolInvParts
<1>2. adm' \in [Thread -> AdmissionRecord] /\ AdmissionsOK'
  BY <1>1, AdmissionSet
<1>3. NodeTypeOK' /\ ChainOK' /\ SweepOK'
  BY <1>1, <1>2 DEF NodeTypeOK, ChainOK, SweepOK, chain
<1> QED
  BY <1>2, <1>3, PoolInvParts DEF PoolOK

\* A client hands in a tx.
LEMMA SubmitInv ==
    ASSUME PoolInv, NEW c \in Client, NEW t \in Tx, Submit(c, t)
    PROVE  PoolInv'
<1> DEFINE a == [NoAdmission EXCEPT !.pc = "generation", !.tx = t]
<1>1. adm' = [adm EXCEPT ![c] = a] /\ UNCHANGED <<pool, chain, work, sweep, torn>>
  BY DEF Submit, StartAdmission
<1>2. a \in AdmissionRecord /\ a.pc = "generation"
  BY AdmissionRecords
<1> HIDE DEF a
<1>3. PoolOK(pool') /\ c \in Thread
  BY <1>1, PoolInvParts DEF Thread
<1> QED
  BY <1>1, <1>2, <1>3, AdmissionInv

\* stable_generation.
LEMMA ReadGenerationInv ==
    ASSUME PoolInv, NEW th \in Thread, ReadGeneration(th)
    PROVE  PoolInv'
<1>1. NodeTypeOK /\ PoolOK(pool)
  BY PoolInvParts
<1>2. UNCHANGED <<pool, chain, work, sweep, torn>>
  BY DEF ReadGeneration
<1>3. adm[th] \in AdmissionRecord /\ generation \in Nat /\ generation <= generation
  <2>1. generation \in Nat => generation <= generation
    BY SMTT(30)
  <2> QED
    BY <1>1, <2>1 DEF NodeTypeOK
<1>4. CASE writer # NoThread
  <2>1. adm' = [adm EXCEPT ![th] = Retry(adm[th])]
    BY <1>4 DEF ReadGeneration
  <2>2. Retry(adm[th]) \in AdmissionRecord /\ Retry(adm[th]).pc \in {"idle", "generation"}
    BY <1>3, AdmissionRecords
  <2> QED
    BY <1>1, <1>2, <2>1, <2>2, AdmissionInv
<1>5. CASE writer = NoThread
  <2> DEFINE r == [adm[th] EXCEPT !.pc = "validate", !.gen = generation]
  <2>1. adm' = [adm EXCEPT ![th] = r]
    BY <1>5 DEF ReadGeneration
  <2>2. r \in AdmissionRecord /\ r.pc = "validate" /\ r.gen = generation
    BY <1>3 DEF AdmissionRecord
  <2> HIDE DEF r
  <2> QED
    BY <1>1, <1>2, <1>3, <2>1, <2>2, AdmissionInv
<1> QED
  BY <1>4, <1>5

\* validate_transaction, against the UTXO set of this instant.
LEMMA ValidateTxInv ==
    ASSUME PoolInv, NEW th \in Thread, ValidateTx(th)
    PROVE  PoolInv'
<1> DEFINE ok == Valid(adm[th].tx, applied)
           r == [adm[th] EXCEPT !.pc = "insert", !.valid = ok]
<1>1. NodeTypeOK /\ PoolOK(pool) /\ ChainOK /\ AdmissionsOK
  BY PoolInvParts
<1>2. adm[th].pc = "validate" /\ UNCHANGED <<pool, chain, work, sweep, torn>>
  BY DEF ValidateTx
<1>3. adm' = [adm EXCEPT ![th] = r]
  BY <1>1 DEF ValidateTx, NodeTypeOK
<1>4. ok \in BOOLEAN
  BY DEF Valid
<1> HIDE DEF ok
<1>5. /\ r \in AdmissionRecord /\ r.pc = "insert" /\ r.valid = ok /\ r.gen = adm[th].gen
      /\ r.tx = adm[th].tx
  BY <1>1, <1>4 DEF NodeTypeOK, AdmissionRecord
<1> HIDE DEF r
<1>6. r.gen <= generation
  BY <1>1, <1>2, <1>5 DEF AdmissionsOK
<1>7. r.valid /\ writer = NoThread => Valid(r.tx, tip)
  BY <1>1, <1>5, SoleWriter DEF ok
<1> QED
  BY <1>1, <1>2, <1>3, <1>5, <1>6, <1>7, AdmissionInv

\* What the locked part of add_with_chain does to the pool.
LEMMA InsertEffect ==
    ASSUME PoolInv, NEW th \in Thread, InsertTx(th)
    PROVE  /\ PoolInv' /\ UNCHANGED <<chain, work, sweep, torn>>
           /\ sweep.by = NoThread /\ adm[th].pc = "insert" /\ adm'[th].pc # "insert"
           /\ \A o \in Thread : o # th => adm'[o] = adm[o]
           /\ \/ pool' = pool
              \/ Admitted(pool, adm[th].tx, pool') /\ Valid(adm[th].tx, tip)
<1>1. NodeTypeOK /\ PoolOK(pool) /\ ChainOK /\ AdmissionsOK
  BY PoolInvParts
<1>2. /\ adm[th].pc = "insert" /\ sweep.by = NoThread /\ UNCHANGED <<chain, work, sweep, torn>>
  BY DEF InsertTx, Unlocked
<1>3. adm[th] \in AdmissionRecord
  BY <1>1 DEF NodeTypeOK
<1>4. PICK r \in AdmissionRecord : /\ r.pc \in {"idle", "generation"} /\ adm' = [adm EXCEPT ![th] = r]
  <2>1. CASE ~StillCurrent(th)
    <3>1. adm' = [adm EXCEPT ![th] = Retry(adm[th])]
      BY <2>1 DEF InsertTx
    <3> QED
      BY <1>3, <3>1, AdmissionRecords
  <2>2. CASE StillCurrent(th)
    <3>1. adm' = [adm EXCEPT ![th] = NoAdmission]
      BY <2>2 DEF InsertTx
    <3>2. NoAdmission.pc = "idle"
      BY DEF NoAdmission
    <3> QED
      BY <3>1, <3>2, EmptyRecords
  <2> QED
    BY <2>1, <2>2
<1>5. \/ pool' = pool
      \/ StillCurrent(th) /\ adm[th].valid /\ pool' = add(pool, adm[th].tx).pool
  BY DEF InsertTx
<1>6. /\ PoolOK(pool')
      /\ pool' = pool \/ (Admitted(pool, adm[th].tx, pool') /\ Valid(adm[th].tx, tip))
  <2>1. CASE pool' = pool
    BY <1>1, <2>1
  <2>2. CASE StillCurrent(th) /\ adm[th].valid /\ pool' = add(pool, adm[th].tx).pool
    <3>1. Valid(adm[th].tx, tip)
      BY <1>1, <1>2, <2>2 DEF AdmissionsOK
    <3> QED
      BY <1>1, <2>2, <3>1, AddKeeps
  <2> QED
    BY <1>5, <2>1, <2>2
<1>7. PoolInv'
  BY <1>2, <1>4, <1>6, AdmissionInv
<1>8. adm'[th] = r /\ \A o \in Thread : o # th => adm'[o] = adm[o]
  BY <1>1, <1>4, AdmissionStep DEF NodeTypeOK
<1> QED
  BY <1>2, <1>4, <1>6, <1>7, <1>8

\* expire_old.
LEMMA ExpireInv ==
    ASSUME PoolInv, NEW S \in SUBSET Held(pool), ExpireOld(S)
    PROVE  PoolInv' /\ Held(pool') \subseteq Held(pool)
<1>1. PoolOK(pool)
  BY PoolInvParts
<1>2. pool' = Remove(pool, S) /\ UNCHANGED <<chain, work, adm, sweep, torn>>
  BY DEF ExpireOld
<1>3. PoolOK(pool') /\ Held(pool') = Held(pool) \ S
  BY <1>1, <1>2, RemoveKeeps
<1> QED
  BY <1>2, <1>3, PoolStep

\* The node stops and starts again with an empty pool.
LEMMA RestartInv ==
    ASSUME PoolInv, Restart
    PROVE  PoolInv' /\ Held(pool') = {}
<1>1. NodeTypeOK /\ ChainOK /\ AdmissionsOK
  BY PoolInvParts
<1>2. /\ writer = NoThread /\ sweep.by = NoThread /\ pool' = set_height(EmptyPool, Height(tip))
      /\ work' = [h \in Handler |-> NoWork] /\ adm' = [t \in Thread |-> NoAdmission]
      /\ torn' = FALSE /\ UNCHANGED <<chain, sweep>>
  BY DEF Restart, Unlocked
<1>3. PoolOK(pool') /\ Held(pool') = {}
  <2>1. Height(tip) \in Heights
    BY <1>1, HeightType DEF NodeTypeOK
  <2>2. PoolOK(pool') /\ Held(pool') \subseteq Held(EmptyPool)
    BY <1>2, <2>1, SetHeightKeeps, EmptyPoolOK
  <2> QED
    BY <2>2, EmptyPoolOK
<1>4. /\ \A h \in Handler : work'[h].pc = "idle"
      /\ \A th \in Thread : adm'[th].pc = "idle"
  <2>1. NoWork.pc = "idle" /\ NoAdmission.pc = "idle"
    BY DEF NoWork, NoAdmission
  <2> QED
    BY <1>2, <2>1
<1>5. NodeTypeOK'
  <2>1. work' \in [Handler -> WorkRecord] /\ adm' \in [Thread -> AdmissionRecord]
    BY <1>2, EmptyRecords
  <2> QED
    BY <1>1, <1>2, <2>1 DEF NodeTypeOK, chain
<1>6. ChainOK'
  <2>1. applied = tip
    BY <1>1, <1>2, SoleWriter
  <2> QED
    BY <1>1, <1>2, <1>4, <2>1 DEF ChainOK, chain
<1>7. AdmissionsOK'
  BY <1>4 DEF AdmissionsOK
<1>8. SweepOK'
  BY <1>2 DEF SweepOK
<1> QED
  BY <1>3, <1>5, <1>6, <1>7, <1>8, PoolInvParts DEF PoolOK

\* Every step of the node keeps the invariant.
LEMMA PoolNext == PoolInv /\ [Next]_vars => PoolInv'
<1> SUFFICES ASSUME PoolInv, [Next]_vars PROVE PoolInv'
  OBVIOUS
<1>1. ASSUME NEW h \in Handler, NEW b \in Block, BeginBlock(h, b) PROVE PoolInv'
  BY <1>1, BeginBlockInv
<1>2. ASSUME NEW h \in Handler,
             BeginKnown(h) \/ Extend(h) \/ KeepFork(h) \/ Rewind(h) \/ Connect(h)
      PROVE  PoolInv'
  BY <1>2, BeginKnownInv, ExtendInv, KeepForkInv, RewindInv, ConnectInv
<1>3. ASSUME NEW h \in Handler,
             Decide(h) \/ Confirm(h) \/ ReadHeight(h) \/ SetHeight(h) \/ BeginSweep(h)
      PROVE  PoolInv'
  BY <1>3, DecideInv, ConfirmInv, ReadHeightInv, SetHeightInv, BeginSweepInv
<1>4. ASSUME NEW h \in Handler, NEW t \in Tx, Restore(h, t) PROVE PoolInv'
  BY <1>4, RestoreInv
<1>5. ASSUME NEW c \in Client, NEW t \in Tx, Submit(c, t) PROVE PoolInv'
  BY <1>5, SubmitInv
<1>6. ASSUME NEW th \in Thread, ReadGeneration(th) \/ ValidateTx(th) \/ InsertTx(th) PROVE PoolInv'
  BY <1>6, ReadGenerationInv, ValidateTxInv, InsertEffect
<1>7. ASSUME NEW t \in Tx, SweepOne(t) PROVE PoolInv'
  BY <1>7, SweepOneInv
<1>8. ASSUME NEW S \in SUBSET Held(pool), ExpireOld(S) PROVE PoolInv'
  BY <1>8, ExpireInv
<1>9. CASE EndSweep
  BY <1>9, EndSweepInv
<1>10. CASE Restart
  BY <1>10, RestartInv
<1>11. CASE UNCHANGED vars
  <2>1. UNCHANGED <<chain, work, adm, sweep, torn>> /\ pool' = pool
    BY <1>11 DEF vars
  <2>2. PoolOK(pool')
    BY <2>1, PoolInvParts
  <2> QED
    BY <2>1, <2>2, PoolStep
<1> QED
  BY <1>1, <1>2, <1>3, <1>4, <1>5, <1>6, <1>7, <1>8, <1>9, <1>10, <1>11 DEF Next

-----------------------------------------------------------------------------
(* The theorems.                                                           *)

\* No step but the end of an admission puts anything into the pool.
LEMMA OnlyAdmissionsInsert ==
    ASSUME PoolInv, [Next]_vars, \A th \in Thread : ~InsertTx(th)
    PROVE  Held(pool') \subseteq Held(pool)
<1>0. PoolOK(pool) /\ NodeTypeOK
  BY PoolInvParts
<1>1. ASSUME NEW h \in Handler, NEW b \in Block, BeginBlock(h, b) PROVE pool' = pool
  BY <1>1 DEF BeginBlock
<1>2. ASSUME NEW h \in Handler,
             BeginKnown(h) \/ Extend(h) \/ KeepFork(h) \/ Rewind(h) \/ Connect(h)
      PROVE  pool' = pool
  BY <1>2 DEF BeginKnown, Extend, KeepFork, Rewind, Connect
<1>3. ASSUME NEW h \in Handler, Decide(h) \/ ReadHeight(h) \/ BeginSweep(h) PROVE pool' = pool
  BY <1>3 DEF Decide, ReadHeight, BeginSweep
<1>4. ASSUME NEW h \in Handler, Confirm(h) PROVE Held(pool') \subseteq Held(pool)
  <2>1. pool' = remove_confirmed(pool, Txs(work[h].block))
    BY <1>4 DEF Confirm
  <2>2. Held(remove_confirmed(pool, Txs(work[h].block))) \subseteq Held(pool)
    BY <1>0, ConfirmKeeps
  <2> QED
    BY <2>1, <2>2
<1>5. ASSUME NEW h \in Handler, SetHeight(h) PROVE Held(pool') \subseteq Held(pool)
  <2>1. pool' = set_height(pool, work[h].height) /\ work[h].height \in Heights
    BY <1>0, <1>5 DEF SetHeight, NodeTypeOK, WorkRecord
  <2> QED
    BY <1>0, <2>1, SetHeightKeeps
<1>6. ASSUME NEW h \in Handler, NEW t \in Tx, Restore(h, t) PROVE pool' = pool
  BY <1>6 DEF Restore
<1>7. ASSUME NEW c \in Client, NEW t \in Tx, Submit(c, t) PROVE pool' = pool
  BY <1>7 DEF Submit
<1>8. ASSUME NEW th \in Thread, ReadGeneration(th) \/ ValidateTx(th) PROVE pool' = pool
  BY <1>8 DEF ReadGeneration, ValidateTx
<1>9. ASSUME NEW t \in Tx, SweepOne(t) PROVE pool' = pool
  BY <1>9 DEF SweepOne
<1>10. CASE EndSweep
  <2>1. pool' = Remove(pool, sweep.invalid)
    BY <1>10 DEF EndSweep
  <2>2. Held(Remove(pool, sweep.invalid)) = Held(pool) \ sweep.invalid
    BY <1>0, RemoveKeeps
  <2>3. Held(pool') = Held(pool) \ sweep.invalid
    BY <2>1, <2>2
  <2> QED
    BY <2>3
<1>11. ASSUME NEW S \in SUBSET Held(pool), ExpireOld(S) PROVE Held(pool') \subseteq Held(pool)
  BY <1>11, ExpireInv
<1>12. CASE Restart
  BY <1>12, RestartInv
<1>13. CASE UNCHANGED vars
  BY <1>13 DEF vars
<1> QED
  BY <1>1, <1>2, <1>3, <1>4, <1>5, <1>6, <1>7, <1>8, <1>9, <1>10, <1>11, <1>12, <1>13 DEF Next

\* An admission drops only what pays less per byte.
LEMMA AdmissionOutbids == PoolInv /\ [Next]_vars => AdmitsOverCheaper
<1> SUFFICES ASSUME PoolInv, [Next]_vars, NEW t \in Tx, t \in Held(pool'), t \notin Held(pool),
                    NEW u \in Held(pool), u \notin Held(pool')
             PROVE  FeeRate(u) < FeeRate(t)
  BY DEF AdmitsOverCheaper, Admits, Removed, Held
<1>1. PICK th \in Thread : InsertTx(th)
  BY OnlyAdmissionsInsert
<1>2. pool' = pool \/ Admitted(pool, adm[th].tx, pool')
  BY <1>1, InsertEffect
<1> QED
  BY <1>2 DEF Admitted

\* Only the end of an admission, or a restart, takes a thread out of "insert".
LEMMA OnlyInsertEnds ==
    ASSUME PoolInv, [Next]_vars, NEW th \in Thread, adm[th].pc = "insert", adm'[th].pc # "insert"
    PROVE  InsertTx(th) \/ Restart
<1>0. NodeTypeOK
  BY PoolInvParts
<1> SUFFICES ASSUME ~InsertTx(th), ~Restart, adm'[th] # adm[th] PROVE FALSE
  OBVIOUS
<1>1. ASSUME NEW h \in Handler, NEW b \in Block, BeginBlock(h, b) PROVE adm' = adm
  BY <1>1 DEF BeginBlock
<1>2. ASSUME NEW h \in Handler,
             BeginKnown(h) \/ Extend(h) \/ KeepFork(h) \/ Rewind(h) \/ Connect(h)
      PROVE  adm' = adm
  BY <1>2 DEF BeginKnown, Extend, KeepFork, Rewind, Connect
<1>3. ASSUME NEW h \in Handler,
             Decide(h) \/ Confirm(h) \/ ReadHeight(h) \/ SetHeight(h) \/ BeginSweep(h)
      PROVE  adm' = adm
  BY <1>3 DEF Decide, Confirm, ReadHeight, SetHeight, BeginSweep
<1>4. ASSUME NEW h \in Handler, NEW t \in Tx, Restore(h, t) PROVE FALSE
  <2>1. adm[h].pc = "idle" /\ h # th
    BY <1>4 DEF Restore
  <2>2. adm'[th] = adm[th]
    BY <1>0, <1>4, <2>1 DEF Restore, StartAdmission, NodeTypeOK
  <2> QED
    BY <2>2
<1>5. ASSUME NEW c \in Client, NEW t \in Tx, Submit(c, t) PROVE FALSE
  <2>1. adm[c].pc = "idle" /\ c # th
    BY <1>5 DEF Submit
  <2>2. adm'[th] = adm[th]
    BY <1>0, <1>5, <2>1 DEF Submit, StartAdmission, NodeTypeOK
  <2> QED
    BY <2>2
<1>6. ASSUME NEW o \in Thread, ReadGeneration(o) \/ ValidateTx(o) PROVE FALSE
  <2>1. adm[o].pc \in {"generation", "validate"} /\ o # th
    BY <1>6 DEF ReadGeneration, ValidateTx
  <2>2. adm'[th] = adm[th]
    BY <1>0, <1>6, <2>1 DEF ReadGeneration, ValidateTx, NodeTypeOK
  <2> QED
    BY <2>2
<1>7. ASSUME NEW o \in Thread, InsertTx(o) PROVE FALSE
  <2>1. o # th
    BY <1>7
  <2>2. adm'[th] = adm[th]
    BY <1>7, <2>1, InsertEffect
  <2> QED
    BY <2>2
<1>8. ASSUME NEW t \in Tx, SweepOne(t) PROVE adm' = adm
  BY <1>8 DEF SweepOne
<1>9. EndSweep => adm' = adm
  BY DEF EndSweep
<1>10. ASSUME NEW S \in SUBSET Held(pool), ExpireOld(S) PROVE adm' = adm
  BY <1>10 DEF ExpireOld
<1>11. UNCHANGED vars => adm' = adm
  BY DEF vars
<1> QED
  BY <1>1, <1>2, <1>3, <1>4, <1>5, <1>6, <1>7, <1>8, <1>9, <1>10, <1>11 DEF Next

\* A refused admission leaves the pool as it was.
LEMMA RefusalIsClean == PoolInv /\ [Next]_vars => RefusesCleanly
<1> SUFFICES ASSUME PoolInv, [Next]_vars, NEW th \in Thread, adm[th].pc = "insert",
                    adm'[th].pc # "insert", adm[th].tx \notin Held(pool'), ~Restart
             PROVE  pool' = pool
  BY DEF RefusesCleanly, Held
<1>1. InsertTx(th)
  BY OnlyInsertEnds
<1>2. pool' = pool \/ Admitted(pool, adm[th].tx, pool')
  BY <1>1, InsertEffect
<1> QED
  BY <1>2 DEF Admitted

\* The invariant of the pool and of the threads around it: the pool is in order and
\* of bounded size after every step, a verdict that is about to be used was reached
\* on the chain of its generation, and the UTXO set replays the tip except between
\* the two pieces of a reorg (mempool.rs; bin/node.rs; add_block in chain.rs).
THEOREM PoolInvariant == Spec => []PoolInv
<1>1. Init => PoolInv
  BY PoolInit
<1>2. PoolInv /\ [Next]_vars => PoolInv'
  BY PoolNext
<1> QED
  BY <1>1, <1>2, PTL DEF Spec

\* The four indices of struct Mempool describe exactly the held transactions, and no
\* two of these share a key image or a linking tag (mempool.rs).
THEOREM IndicesStayExact == Spec => []IndicesAgree
<1>1. PoolInv => IndicesAgree
  BY DEF PoolInv, PoolOK, IndicesAgree
<1> QED
  BY <1>1, PoolInvariant, PTL

\* current_size is the size of what is held and never exceeds max_size, whatever was
\* replaced and evicted to make room (verify_size_invariant, mempool.rs).
THEOREM SizeStaysExact == Spec => []SizeAccounted
<1>1. PoolInv => SizeAccounted
  BY DEF PoolInv, PoolOK, SizeAccounted
<1> QED
  BY <1>1, PoolInvariant, PTL

\* An admission pushes out only transactions that pay less per byte, although the
\* eviction loop does not look at the rates (admit_after_checks).
THEOREM OnlyCheaperLeave == Spec => DropsOnlyCheaper
<1>1. PoolInv /\ [Next]_vars => [AdmitsOverCheaper]_vars
  BY AdmissionOutbids
<1> QED
  BY <1>1, PoolInvariant, PTL DEF Spec, DropsOnlyCheaper

\* The dry run foresees every failure of the eviction loop: a refused admission
\* leaves the pool as it was (ATOMICITY in admit_after_checks).
THEOREM RefusalIsAtomic == Spec => RefusalChangesNothing
<1>1. PoolInv /\ [Next]_vars => [RefusesCleanly]_vars
  BY RefusalIsClean
<1> QED
  BY <1>1, PoolInvariant, PTL DEF Spec, RefusalChangesNothing

-----------------------------------------------------------------------------
(* Every pending transaction could be mined.                               *)

\* Stealth addresses are derived afresh for every output, so no other transaction
\* pays the address of one that passes the pool's checks (the comment on duplicate
\* addresses in consensus/validation.rs; coinbases may repeat an address of theirs).
OneTimeAddresses == \A t \in Sound, u \in Tx : Addr(u) = Addr(t) => u = t

\* How the handlers' records move, as far as a sweep or a removal depends on it.
LEMMA HandlerMoves ==
    ASSUME PoolInv, NEW h \in Handler
    PROVE  /\ Confirm(h) => /\ work'[h].pc = "restore" /\ work'[h].full = work[h].full
                            /\ \A g \in Handler : g # h => work'[g] = work[g]
           /\ \A t \in Tx : Restore(h, t) =>
                /\ work'[h].pc = work[h].pc /\ work'[h].full = work[h].full
                /\ \A g \in Handler : g # h => work'[g] = work[g]
           /\ ReadHeight(h) => /\ work'[h].pc = "set_height" /\ work'[h].full = work[h].full
                               /\ \A g \in Handler : g # h => work'[g] = work[g]
           /\ SetHeight(h) => /\ work[h].full => work'[h].pc = "sweep"
                              /\ \A g \in Handler : g # h => work'[g] = work[g]
           /\ Decide(h) => \A g \in Handler : g # h => work'[g] = work[g]
           /\ BeginSweep(h) => \A g \in Handler : g # h => work'[g] = work[g]
<1>1. work \in [Handler -> WorkRecord] /\ work[h] \in WorkRecord
  BY PoolInvParts DEF NodeTypeOK
<1>2. ASSUME NEW w \in WorkRecord
      PROVE  /\ [w EXCEPT !.pc = "restore"].pc = "restore" /\ [w EXCEPT !.pc = "restore"].full = w.full
             /\ [w EXCEPT !.pc = "sweep"].pc = "sweep"
  BY DEF WorkRecord
<1>3. ASSUME NEW r, work' = [work EXCEPT ![h] = r]
      PROVE  work'[h] = r /\ \A g \in Handler : g # h => work'[g] = work[g]
  BY <1>1, <1>3
<1>4. ASSUME Confirm(h)
      PROVE  /\ work'[h].pc = "restore" /\ work'[h].full = work[h].full
             /\ \A g \in Handler : g # h => work'[g] = work[g]
  <2>1. work' = [work EXCEPT ![h] = [work[h] EXCEPT !.pc = "restore"]]
    BY <1>1, <1>4 DEF Confirm
  <2> QED
    BY <1>1, <1>2, <1>3, <2>1
<1>5. ASSUME NEW t \in Tx, Restore(h, t)
      PROVE  /\ work'[h].pc = work[h].pc /\ work'[h].full = work[h].full
             /\ \A g \in Handler : g # h => work'[g] = work[g]
  <2> DEFINE r == [work[h] EXCEPT !.orphaned = work[h].orphaned \ {t}]
  <2>1. work' = [work EXCEPT ![h] = r]
    BY <1>1, <1>5 DEF Restore
  <2>2. r.pc = work[h].pc /\ r.full = work[h].full
    BY <1>1 DEF WorkRecord
  <2> HIDE DEF r
  <2> QED
    BY <1>3, <2>1, <2>2
<1>6. ASSUME ReadHeight(h)
      PROVE  /\ work'[h].pc = "set_height" /\ work'[h].full = work[h].full
             /\ \A g \in Handler : g # h => work'[g] = work[g]
  <2> DEFINE r == [work[h] EXCEPT !.pc = "set_height", !.height = Height(tip)]
  <2>1. work' = [work EXCEPT ![h] = r]
    BY <1>1, <1>6 DEF ReadHeight
  <2>2. r.pc = "set_height" /\ r.full = work[h].full
    BY <1>1 DEF WorkRecord
  <2> HIDE DEF r
  <2> QED
    BY <1>3, <2>1, <2>2
<1>7. ASSUME SetHeight(h)
      PROVE  /\ work[h].full => work'[h].pc = "sweep"
             /\ \A g \in Handler : g # h => work'[g] = work[g]
  <2>1. CASE work[h].full
    <3>1. work' = [work EXCEPT ![h] = [work[h] EXCEPT !.pc = "sweep"]]
      BY <1>1, <1>7, <2>1 DEF SetHeight
    <3> QED
      BY <1>1, <1>2, <1>3, <3>1
  <2>2. CASE ~work[h].full
    BY <1>1, <1>7, <2>2 DEF SetHeight
  <2> QED
    BY <2>1, <2>2
<1>8. Decide(h) => \A g \in Handler : g # h => work'[g] = work[g]
  BY <1>1 DEF Decide
<1>9. BeginSweep(h) => \A g \in Handler : g # h => work'[g] = work[g]
  BY <1>1 DEF BeginSweep
<1> QED
  BY <1>4, <1>5, <1>6, <1>7, <1>8, <1>9

\* A transaction that may stay may stay after a step of one handler, if the step
\* answers for the verdict on the tip and for that handler.
LEMMA CoveredStays ==
    ASSUME NEW t, Covered(t), sweep' = sweep, NEW h \in Handler,
           \A g \in Handler : g # h => work'[g] = work[g],
           Valid(t, tip) => Covered(t)', WillSweep(h) => Covered(t)',
           ToBeConfirmed(h, t) => Covered(t)'
    PROVE  Covered(t)'
<1>1. CASE Valid(t, tip)
  BY <1>1
<1>2. CASE BeingSwept(t)
  <2>1. BeingSwept(t)'
    BY <1>2 DEF BeingSwept
  <2> QED
    BY <2>1 DEF Covered
<1>3. ASSUME NEW g \in Handler, WillSweep(g) \/ ToBeConfirmed(g, t) PROVE Covered(t)'
  <2>1. CASE g = h
    BY <1>3, <2>1
  <2>2. CASE g # h
    <3>1. work'[g] = work[g]
      BY <2>2
    <3>2. (WillSweep(g) => WillSweep(g)') /\ (ToBeConfirmed(g, t) => ToBeConfirmed(g, t)')
      BY <3>1 DEF WillSweep, ToBeConfirmed
    <3> QED
      BY <1>3, <3>2 DEF Covered
  <2> QED
    BY <2>1, <2>2
<1> QED
  BY <1>1, <1>2, <1>3 DEF Covered

\* A step that leaves sweeps alone has to answer for what the pool holds after it.
LEMMA MineableStep ==
    ASSUME MineableInv, UNCHANGED <<sweep, torn>>,
           \A t \in Held(pool') :
             \/ t \in Held(pool) /\ (Covered(t) => Covered(t)')
             \/ Covered(t)'
    PROVE  MineableInv'
<1>1. SweepSound' => SweepSound
  BY DEF SweepSound
<1>2. MineableInv' <=> (SweepSound' => \A t \in Held(pool') : Covered(t)')
  BY DEF MineableInv, Held
<1> QED
  BY <1>1, <1>2 DEF MineableInv

\* A handler that is not past add_block neither sweeps nor removes anything yet.
LEMMA NothingToDo ==
    ASSUME NEW h \in Handler, work[h].pc \in {"idle", "process", "connect", "sweeping"}
    PROVE  ~WillSweep(h) /\ \A t : ~ToBeConfirmed(h, t)
BY DEF WillSweep, ToBeConfirmed

\* The verdict on the new tip.
LEMMA VerdictNext == \A t : Valid(t, tip)' <=> Valid(t, tip')
BY DEF Valid

\* A transaction that is valid on a chain is valid on the chain a block makes of it,
\* unless the block holds the transaction or spends one of its key images.
LEMMA ValidOnChild ==
    ASSUME OneTimeAddresses, NEW b \in Block, b # Genesis, NEW t \in Sound, Valid(t, Parent(b)),
           t \notin Txs(b), KeyImages(t) \cap ImagesOf(Txs(b)) = {}
    PROVE  Valid(t, b)
<1>1. /\ Height(b) \in Nat /\ Height(Parent(b)) = Height(b) - 1 /\ Anc(b, Height(b)) = b
      /\ \A h \in 0 .. Height(b) - 1 : Anc(Parent(b), h) = Anc(b, h)
  BY ParentAncestors, HeightType, AncSelf
<1>2. KeyImages(t) \cap SpentOn(b) = {}
  <2>1. SpentOn(b) = SpentOn(Parent(b)) \cup ImagesOf(Txs(b))
    BY SpentParent DEF BlockKeyImages, ImagesOf
  <2> QED
    BY <2>1 DEF Valid
<1>3. ASSUME NEW s \in Ring(t) PROVE PayHeights(b, s) # {}
  <2>1. PICK h \in 0 .. Height(b) - 1 : Pays(Anc(Parent(b), h), s)
    BY <1>1 DEF Valid, PayHeights
  <2>2. h \in 0 .. Height(b)
    BY <1>1, SMTT(30)
  <2> QED
    BY <1>1, <2>1, <2>2 DEF PayHeights
<1>4. ASSUME NEW h \in 0 .. Height(b), Pays(Anc(b, h), Addr(t)) PROVE FALSE
  <2>1. CASE h = Height(b)
    <3>1. PICK u \in Txs(b) : Addr(u) = Addr(t)
      BY <1>1, <1>4, <2>1 DEF Pays
    <3>2. u \in Tx
      BY TxAssumption
    <3> QED
      BY <3>1, <3>2 DEF OneTimeAddresses
  <2>2. CASE h # Height(b)
    <3>1. h \in 0 .. Height(b) - 1
      BY <1>1, <2>2, SMTT(30)
    <3>2. Pays(Anc(Parent(b), h), Addr(t))
      BY <1>1, <1>4, <3>1
    <3>3. h \in PayHeights(Parent(b), Addr(t))
      BY <1>1, <3>1, <3>2 DEF PayHeights
    <3> QED
      BY <3>3 DEF Valid
  <2> QED
    BY <2>1, <2>2
<1> QED
  BY <1>2, <1>3, <1>4 DEF Valid, PayHeights

\* A step of a handler that has nothing to do for the pool, with the chain where it was.
LEMMA QuietHandler ==
    ASSUME MineableInv, NEW h \in Handler,
           work[h].pc \in {"idle", "process", "connect", "sweeping"},
           \A g \in Handler : g # h => work'[g] = work[g],
           UNCHANGED <<pool, tip, sweep, torn>>
    PROVE  MineableInv'
<1>1. ASSUME NEW t, Covered(t) PROVE Covered(t)'
  <2>1. Valid(t, tip) => Covered(t)'
    BY VerdictNext DEF Covered
  <2>2. ~WillSweep(h) /\ ~ToBeConfirmed(h, t)
    BY NothingToDo
  <2> QED
    BY <1>1, <2>1, <2>2, CoveredStays
<1> QED
  BY <1>1, MineableStep

\* add_block begins, keeps a fork, or takes the tip's side of the chain off.
LEMMA StayMineable ==
    ASSUME PoolInv, MineableInv, NEW h \in Handler,
           (\E b \in Block : BeginBlock(h, b)) \/ BeginKnown(h) \/ KeepFork(h) \/ Rewind(h)
    PROVE  MineableInv'
<1>1. work \in [Handler -> WorkRecord]
  BY PoolInvParts DEF NodeTypeOK
<1>2. ASSUME NEW b \in Block, BeginBlock(h, b) PROVE MineableInv'
  <2>1. /\ work[h].pc = "idle" /\ UNCHANGED <<pool, tip, sweep, torn>>
        /\ \A g \in Handler : g # h => work'[g] = work[g]
    BY <1>1, <1>2 DEF BeginBlock
  <2> QED
    BY <2>1, QuietHandler
<1>3. CASE BeginKnown(h)
  <2>1. /\ work[h].pc = "idle" /\ UNCHANGED <<pool, tip, sweep, torn>>
        /\ \A g \in Handler : g # h => work'[g] = work[g]
    BY <1>1, <1>3 DEF BeginKnown
  <2> QED
    BY <2>1, QuietHandler
<1>4. CASE KeepFork(h)
  <2>1. /\ work[h].pc = "process" /\ UNCHANGED <<pool, tip, sweep, torn>>
        /\ \A g \in Handler : g # h => work'[g] = work[g]
    BY <1>1, <1>4 DEF KeepFork
  <2> QED
    BY <2>1, QuietHandler
<1>5. CASE Rewind(h)
  <2>1. /\ work[h].pc = "process" /\ UNCHANGED <<pool, tip, sweep, torn>>
        /\ \A g \in Handler : g # h => work'[g] = work[g]
    BY <1>1, <1>5 DEF Rewind
  <2> QED
    BY <2>1, QuietHandler
<1> QED
  BY <1>2, <1>3, <1>4, <1>5

\* What the pool holds passed the pool's own checks.
LEMMA HeldIsSound == PoolInv => Held(pool) \subseteq Sound
<1> SUFFICES ASSUME PoolInv PROVE Held(pool) \subseteq Sound
  OBVIOUS
<1>1. PoolOK(pool)
  BY PoolInvParts
<1>2. pool.transactions \in UNION {[S -> Heights] : S \in SUBSET Sound}
  BY <1>1 DEF PoolOK, PoolRecord
<1>3. PICK S \in SUBSET Sound : pool.transactions \in [S -> Heights]
  BY <1>2
<1> QED
  BY <1>3 DEF Held

\* A block that extends the tip spoils only what its handler is about to remove.
LEMMA ExtendMineable ==
    ASSUME OneTimeAddresses, PoolInv, MineableInv, NEW h \in Handler, Extend(h)
    PROVE  MineableInv'
<1> DEFINE b == work[h].block
<1>1. /\ work \in [Handler -> WorkRecord] /\ work[h] \in WorkRecord
      /\ work[h].pc = "process" /\ Parent(b) = tip /\ UNCHANGED <<pool, sweep, torn>>
  BY PoolInvParts DEF NodeTypeOK, Extend
<1>2. CASE AcceptableChain(b)
  <2>1. tip' = b /\ work' = [work EXCEPT ![h] = [work[h] EXCEPT !.pc = "decide"]]
    BY <1>1, <1>2 DEF Extend
  <2>2. work'[h].pc = "decide" /\ work'[h].block = b
    <3>1. [work[h] EXCEPT !.pc = "decide"].pc = "decide" /\ [work[h] EXCEPT !.pc = "decide"].block = b
      BY <1>1 DEF WorkRecord
    <3> QED
      BY <1>1, <2>1, <3>1
  <2>3. \A g \in Handler : g # h => work'[g] = work[g]
    BY <1>1, <2>1
  <2>4. b \in Block /\ b # Genesis
    BY <1>1, Processing
  <2> HIDE DEF b
  <2>5. ASSUME NEW t \in Held(pool), Covered(t) PROVE Covered(t)'
    <3>1. ASSUME Valid(t, tip) PROVE Covered(t)'
      <4>1. CASE t \in Txs(b) \/ KeyImages(t) \cap ImagesOf(Txs(b)) # {}
        <5>1. ToBeConfirmed(h, t)'
          BY <2>2, <4>1 DEF ToBeConfirmed, ImagesOf
        <5> QED
          BY <5>1 DEF Covered
      <4>2. CASE ~(t \in Txs(b) \/ KeyImages(t) \cap ImagesOf(Txs(b)) # {})
        <5>1. t \in Sound
          BY HeldIsSound
        <5>2. Valid(t, b)
          BY <1>1, <2>4, <3>1, <4>2, <5>1, ValidOnChild
        <5> QED
          BY <2>1, <5>2, VerdictNext DEF Covered
      <4> QED
        BY <4>1, <4>2
    <3>2. ~WillSweep(h) /\ ~ToBeConfirmed(h, t)
      BY <1>1, NothingToDo
    <3>3. sweep' = sweep
      BY <1>1
    <3> QED
      BY <2>3, <2>5, <3>1, <3>2, <3>3, CoveredStays
  <2> QED
    BY <1>1, <2>5, MineableStep
<1>3. CASE ~AcceptableChain(b)
  <2>1. tip' = tip /\ \A g \in Handler : g # h => work'[g] = work[g]
    BY <1>1, <1>3 DEF Extend
  <2> QED
    BY <1>1, <2>1, QuietHandler
<1> QED
  BY <1>2, <1>3

\* After a reorg the handler sweeps the whole pool.
LEMMA ConnectMineable ==
    ASSUME PoolInv, MineableInv, NEW h \in Handler, Connect(h)
    PROVE  MineableInv'
<1> DEFINE b == work[h].block
           gone == {t \in UNION {Txs(a) : a \in Disconnected(tip, b)} : KeyImages(t) # {}}
           r == [work[h] EXCEPT !.pc = "decide", !.reorg = TRUE, !.orphaned = gone]
<1>1. /\ work \in [Handler -> WorkRecord] /\ work[h] \in WorkRecord
      /\ work[h].pc = "connect" /\ UNCHANGED <<pool, sweep, torn>>
  BY PoolInvParts DEF NodeTypeOK, Connect
<1>2. CASE AcceptableChain(b)
  <2>1. work' = [work EXCEPT ![h] = r]
    BY <1>1, <1>2 DEF Connect
  <2>2. r.pc = "decide" /\ r.reorg = TRUE
    BY <1>1 DEF WorkRecord
  <2> HIDE DEF r
  <2>3. work'[h].pc = "decide" /\ work'[h].reorg
    BY <1>1, <2>1, <2>2
  <2>4. WillSweep(h)'
    BY <2>3 DEF WillSweep
  <2>5. \A t : Covered(t)'
    BY <2>4 DEF Covered
  <2> QED
    BY <1>1, <2>5, MineableStep
<1>3. CASE ~AcceptableChain(b)
  <2>1. tip' = tip /\ \A g \in Handler : g # h => work'[g] = work[g]
    BY <1>1, <1>3 DEF Connect
  <2> QED
    BY <1>1, <2>1, QuietHandler
<1> QED
  BY <1>2, <1>3

\* The handler decides on a sweep whenever the transactions of its block do not tell
\* what the block spoils.
LEMMA DecideMineable ==
    ASSUME PoolInv, MineableInv, NEW h \in Handler, Decide(h)
    PROVE  MineableInv'
<1>1. work[h].pc = "decide" /\ UNCHANGED <<pool, tip, sweep, torn>>
  BY DEF Decide, chain
<1>2. \A g \in Handler : g # h => work'[g] = work[g]
  BY HandlerMoves
<1>3. work'[h].pc = "confirm" /\ work'[h].block = work[h].block /\ work'[h].full = NeedsSweep(h)
  BY DecideInv
<1>4. WillSweep(h) => WillSweep(h)'
  BY <1>1, <1>3 DEF WillSweep, NeedsSweep
<1>5. \A t : ToBeConfirmed(h, t) => ToBeConfirmed(h, t)'
  BY <1>3 DEF ToBeConfirmed
<1>6. ASSUME NEW t, Covered(t) PROVE Covered(t)'
  <2>1. Valid(t, tip) => Covered(t)'
    BY <1>1, VerdictNext DEF Covered
  <2>2. (WillSweep(h) => Covered(t)') /\ (ToBeConfirmed(h, t) => Covered(t)')
    BY <1>4, <1>5 DEF Covered
  <2>3. sweep' = sweep
    BY <1>1
  <2> QED
    BY <1>2, <1>6, <2>1, <2>2, <2>3, CoveredStays
<1> QED
  BY <1>1, <1>6, MineableStep

\* remove_confirmed removes what the handler's block holds or conflicts with.
LEMMA ConfirmMineable ==
    ASSUME PoolInv, MineableInv, NEW h \in Handler, Confirm(h)
    PROVE  MineableInv'
<1>1. /\ work[h].pc = "confirm" /\ UNCHANGED <<tip, sweep, torn>>
      /\ pool' = remove_confirmed(pool, Txs(work[h].block))
  BY DEF Confirm, chain
<1>2. /\ work'[h].pc = "restore" /\ work'[h].full = work[h].full
      /\ \A g \in Handler : g # h => work'[g] = work[g]
  BY HandlerMoves
<1>3. Held(pool') = {u \in Held(pool) \ Txs(work[h].block) :
                        KeyImages(u) \cap ImagesOf(Txs(work[h].block)) = {}}
  <2>1. PoolOK(pool)
    BY PoolInvParts
  <2>2. Held(remove_confirmed(pool, Txs(work[h].block))) =
            {u \in Held(pool) \ Txs(work[h].block) :
                KeyImages(u) \cap ImagesOf(Txs(work[h].block)) = {}}
    BY <2>1, ConfirmKeeps
  <2> QED
    BY <1>1, <2>2
<1>4. ASSUME NEW t \in Held(pool'), Covered(t) PROVE Covered(t)'
  <2>1. Valid(t, tip) => Covered(t)'
    BY <1>1, VerdictNext DEF Covered
  <2>2. WillSweep(h) => WillSweep(h)'
    BY <1>1, <1>2 DEF WillSweep
  <2>3. WillSweep(h) => Covered(t)'
    BY <2>2 DEF Covered
  <2>4. ~ToBeConfirmed(h, t)
    BY <1>3 DEF ToBeConfirmed
  <2>5. sweep' = sweep
    BY <1>1
  <2> QED
    BY <1>2, <1>4, <2>1, <2>3, <2>4, <2>5, CoveredStays
<1>5. \A t \in Held(pool') : t \in Held(pool)
  BY <1>3
<1> QED
  BY <1>1, <1>4, <1>5, MineableStep

\* Between the removal and the sweep the handler keeps its mind.
LEMMA AlignMineable ==
    ASSUME PoolInv, MineableInv, NEW h \in Handler,
           (\E t \in Tx : Restore(h, t)) \/ ReadHeight(h) \/ SetHeight(h)
    PROVE  MineableInv'
<1>1. /\ work[h].pc \in {"restore", "set_height"} /\ UNCHANGED <<tip, sweep, torn>>
      /\ Held(pool') \subseteq Held(pool)
  <2>1. CASE \E t \in Tx : Restore(h, t)
    BY <2>1 DEF Restore, chain
  <2>2. CASE ReadHeight(h)
    BY <2>2 DEF ReadHeight, chain
  <2>3. CASE SetHeight(h)
    <3>1. /\ work[h].pc = "set_height" /\ UNCHANGED <<tip, sweep, torn>>
          /\ pool' = set_height(pool, work[h].height)
      BY <2>3 DEF SetHeight, chain
    <3>2. PoolOK(pool) /\ work[h].height \in Heights
      BY PoolInvParts DEF NodeTypeOK, WorkRecord
    <3>3. Held(set_height(pool, work[h].height)) \subseteq Held(pool)
      BY <3>2, SetHeightKeeps
    <3> QED
      BY <3>1, <3>3
  <2> QED
    BY <2>1, <2>2, <2>3
<1>2. \A g \in Handler : g # h => work'[g] = work[g]
  BY HandlerMoves
<1>3. WillSweep(h) => WillSweep(h)'
  <2>1. WillSweep(h) => work[h].full
    BY <1>1 DEF WillSweep
  <2>2. CASE \E t \in Tx : Restore(h, t)
    <3>1. work'[h].pc = work[h].pc /\ work'[h].full = work[h].full
      BY <2>2, HandlerMoves
    <3> QED
      BY <1>1, <2>1, <3>1 DEF WillSweep
  <2>3. CASE ReadHeight(h)
    <3>1. work'[h].pc = "set_height" /\ work'[h].full = work[h].full
      BY <2>3, HandlerMoves
    <3> QED
      BY <2>1, <3>1 DEF WillSweep
  <2>4. CASE SetHeight(h)
    <3>1. work[h].full => work'[h].pc = "sweep"
      BY <2>4, HandlerMoves
    <3> QED
      BY <2>1, <3>1 DEF WillSweep
  <2> QED
    BY <2>2, <2>3, <2>4
<1>4. ASSUME NEW t, Covered(t) PROVE Covered(t)'
  <2>1. Valid(t, tip) => Covered(t)'
    BY <1>1, VerdictNext DEF Covered
  <2>2. WillSweep(h) => Covered(t)'
    BY <1>3 DEF Covered
  <2>3. ~ToBeConfirmed(h, t)
    BY <1>1 DEF ToBeConfirmed
  <2>4. sweep' = sweep
    BY <1>1
  <2> QED
    BY <1>2, <1>4, <2>1, <2>2, <2>3, <2>4, CoveredStays
<1> QED
  BY <1>1, <1>4, MineableStep

\* A sweep has everything that is held before it.
LEMMA BeginSweepMineable ==
    ASSUME PoolInv, NEW h \in Handler, BeginSweep(h)
    PROVE  MineableInv'
<1>1. sweep'.by = h /\ sweep'.left = Held(pool) /\ h # NoThread
  BY BeginSweepInv, NodeAssumption
<1>2. pool' = pool
  BY DEF BeginSweep
<1>3. ASSUME NEW t \in Held(pool') PROVE Covered(t)'
  <2>1. BeingSwept(t)'
    BY <1>1, <1>2, <1>3 DEF BeingSwept
  <2> QED
    BY <2>1 DEF Covered
<1> QED
  BY <1>3 DEF MineableInv, Held

\* The sweep keeps a transaction only if it is valid on the chain it reads, which is
\* the tip's unless the sweep is torn.
LEMMA SweepOneMineable ==
    ASSUME PoolInv, MineableInv, NEW x \in Tx, SweepOne(x)
    PROVE  MineableInv'
<1>1. sweep.by # NoThread /\ x \in sweep.left /\ UNCHANGED <<pool, tip, work, torn>>
  BY DEF SweepOne, chain
<1>2. /\ sweep'.by = sweep.by /\ sweep'.left = sweep.left \ {x}
      /\ sweep'.invalid = IF ~Valid(x, applied) \/ Unminable(x, applied)
                            THEN sweep.invalid \cup {x} ELSE sweep.invalid
      /\ sweep'.torn = (sweep.torn \/ applied # tip)
  BY SweepOneInv
<1>3. SweepSound' => SweepSound /\ applied = tip
  BY <1>1, <1>2 DEF SweepSound
<1>4. ASSUME NEW t, Covered(t), applied = tip PROVE Covered(t)'
  <2>1. CASE Valid(t, tip)
    BY <1>1, <2>1, VerdictNext DEF Covered
  <2>2. CASE BeingSwept(t)
    <3>1. CASE t = x
      <4>1. CASE Valid(x, applied)
        BY <1>1, <1>4, <3>1, <4>1, VerdictNext DEF Covered
      <4>2. CASE ~Valid(x, applied)
        <5>1. x \in sweep'.invalid
          BY <1>2, <4>2
        <5>2. BeingSwept(t)'
          BY <1>1, <1>2, <3>1, <5>1 DEF BeingSwept
        <5> QED
          BY <5>2 DEF Covered
      <4> QED
        BY <4>1, <4>2
    <3>2. CASE t # x
      <4>1. sweep.invalid \subseteq sweep'.invalid
        BY <1>2
      <4>2. BeingSwept(t)'
        BY <1>2, <2>2, <3>2, <4>1 DEF BeingSwept
      <4> QED
        BY <4>2 DEF Covered
    <3> QED
      BY <3>1, <3>2
  <2>3. ASSUME NEW g \in Handler, WillSweep(g) \/ ToBeConfirmed(g, t) PROVE Covered(t)'
    <3>1. (WillSweep(g) => WillSweep(g)') /\ (ToBeConfirmed(g, t) => ToBeConfirmed(g, t)')
      BY <1>1 DEF WillSweep, ToBeConfirmed
    <3> QED
      BY <2>3, <3>1 DEF Covered
  <2> QED
    BY <1>4, <2>1, <2>2, <2>3 DEF Covered
<1>5. Held(pool') = Held(pool)
  BY <1>1
<1>6. MineableInv' <=> (SweepSound' => \A t \in Held(pool') : Covered(t)')
  BY DEF MineableInv, Held
<1> QED
  BY <1>3, <1>4, <1>5, <1>6 DEF MineableInv

\* The sweep ends: what it did not find valid leaves the pool.
LEMMA EndSweepMineable ==
    ASSUME PoolInv, MineableInv, EndSweep
    PROVE  MineableInv'
<1>1. /\ sweep.by \in Handler /\ work[sweep.by].pc = "sweeping"
      /\ sweep' = NoSweep /\ torn' = sweep.torn
      /\ \A g \in Handler : g # sweep.by => work'[g] = work[g]
  BY EndSweepInv
<1>2. sweep.by # NoThread /\ sweep.left = {} /\ tip' = tip /\ pool' = Remove(pool, sweep.invalid)
  BY DEF EndSweep, chain
<1>3. Held(pool') = Held(pool) \ sweep.invalid
  <2>1. Held(Remove(pool, sweep.invalid)) = Held(pool) \ sweep.invalid
    BY PoolInvParts, RemoveKeeps
  <2> QED
    BY <1>2, <2>1
<1>4. SweepSound' => SweepSound
  BY <1>1, <1>2 DEF SweepSound, NoSweep
<1>5. ASSUME NEW t \in Held(pool'), Covered(t) PROVE Covered(t)'
  <2>1. ~BeingSwept(t)
    BY <1>2, <1>3 DEF BeingSwept
  <2>2. CASE Valid(t, tip)
    BY <1>2, <2>2, VerdictNext DEF Covered
  <2>3. ASSUME NEW g \in Handler, WillSweep(g) \/ ToBeConfirmed(g, t) PROVE Covered(t)'
    <3>1. g # sweep.by
      BY <1>1, <2>3, NothingToDo
    <3>2. (WillSweep(g) => WillSweep(g)') /\ (ToBeConfirmed(g, t) => ToBeConfirmed(g, t)')
      BY <1>1, <3>1 DEF WillSweep, ToBeConfirmed
    <3> QED
      BY <2>3, <3>2 DEF Covered
  <2> QED
    BY <1>5, <2>1, <2>2, <2>3 DEF Covered
<1>6. MineableInv' <=> (SweepSound' => \A t \in Held(pool') : Covered(t)')
  BY DEF MineableInv, Held
<1> QED
  BY <1>3, <1>4, <1>5, <1>6 DEF MineableInv

\* With the handlers and the chain where they were, only what is new in the pool counts.
LEMMA IdleMineable ==
    ASSUME MineableInv, UNCHANGED <<tip, work, sweep, torn>>,
           \A t \in Held(pool') : t \in Held(pool) \/ Valid(t, tip)
    PROVE  MineableInv'
<1>1. ASSUME NEW t, Covered(t) PROVE Covered(t)'
  <2>1. BeingSwept(t) => BeingSwept(t)'
    BY DEF BeingSwept
  <2>2. \A g \in Handler : (WillSweep(g) => WillSweep(g)') /\ (ToBeConfirmed(g, t) => ToBeConfirmed(g, t)')
    BY DEF WillSweep, ToBeConfirmed
  <2> QED
    BY <1>1, <2>1, <2>2, VerdictNext DEF Covered
<1>2. \A t : Valid(t, tip) => Covered(t)'
  BY VerdictNext DEF Covered
<1> QED
  BY <1>1, <1>2, MineableStep

\* Every step keeps the pool mineable once the handlers are done.
LEMMA MineableNext ==
    ASSUME OneTimeAddresses
    PROVE  PoolInv /\ MineableInv /\ [Next]_vars => MineableInv'
<1> SUFFICES ASSUME PoolInv, MineableInv, [Next]_vars PROVE MineableInv'
  OBVIOUS
<1>1. ASSUME NEW h \in Handler,
             (\E b \in Block : BeginBlock(h, b)) \/ BeginKnown(h) \/ KeepFork(h) \/ Rewind(h)
      PROVE  MineableInv'
  BY <1>1, StayMineable
<1>2. ASSUME NEW h \in Handler, Extend(h) PROVE MineableInv'
  BY <1>2, ExtendMineable
<1>3. ASSUME NEW h \in Handler, Connect(h) PROVE MineableInv'
  BY <1>3, ConnectMineable
<1>4. ASSUME NEW h \in Handler, Decide(h) PROVE MineableInv'
  BY <1>4, DecideMineable
<1>5. ASSUME NEW h \in Handler, Confirm(h) PROVE MineableInv'
  BY <1>5, ConfirmMineable
<1>6. ASSUME NEW h \in Handler, (\E t \in Tx : Restore(h, t)) \/ ReadHeight(h) \/ SetHeight(h)
      PROVE  MineableInv'
  BY <1>6, AlignMineable
<1>7. ASSUME NEW h \in Handler, BeginSweep(h) PROVE MineableInv'
  BY <1>7, BeginSweepMineable
<1>8. ASSUME NEW t \in Tx, SweepOne(t) PROVE MineableInv'
  BY <1>8, SweepOneMineable
<1>9. CASE EndSweep
  BY <1>9, EndSweepMineable
<1>10. ASSUME NEW c \in Client, NEW t \in Tx, Submit(c, t) PROVE MineableInv'
  <2>1. UNCHANGED <<pool, tip, work, sweep, torn>>
    BY <1>10 DEF Submit, chain
  <2> QED
    BY <2>1, IdleMineable
<1>11. ASSUME NEW th \in Thread, ReadGeneration(th) \/ ValidateTx(th) PROVE MineableInv'
  <2>1. UNCHANGED <<pool, tip, work, sweep, torn>>
    BY <1>11 DEF ReadGeneration, ValidateTx, chain
  <2> QED
    BY <2>1, IdleMineable
<1>12. ASSUME NEW th \in Thread, InsertTx(th) PROVE MineableInv'
  <2>1. UNCHANGED <<tip, work, sweep, torn>>
    BY <1>12 DEF InsertTx, chain
  <2>2. pool' = pool \/ (Admitted(pool, adm[th].tx, pool') /\ Valid(adm[th].tx, tip))
    BY <1>12, InsertEffect
  <2>3. \A t \in Held(pool') : t \in Held(pool) \/ Valid(t, tip)
    BY <2>2 DEF Admitted
  <2> QED
    BY <2>1, <2>3, IdleMineable
<1>13. ASSUME NEW S \in SUBSET Held(pool), ExpireOld(S) PROVE MineableInv'
  <2>1. UNCHANGED <<tip, work, sweep, torn>>
    BY <1>13 DEF ExpireOld, chain
  <2>2. Held(pool') \subseteq Held(pool)
    BY <1>13, ExpireInv
  <2> QED
    BY <2>1, <2>2, IdleMineable
<1>14. CASE Restart
  <2>1. Held(pool') = {}
    BY <1>14, RestartInv
  <2> QED
    BY <2>1 DEF MineableInv, Held
<1>15. CASE UNCHANGED vars
  <2>1. UNCHANGED <<pool, tip, work, sweep, torn>>
    BY <1>15 DEF vars, chain
  <2> QED
    BY <2>1, IdleMineable
<1> QED
  BY <1>1, <1>2, <1>3, <1>4, <1>5, <1>6, <1>7, <1>8, <1>9, <1>10, <1>11, <1>12, <1>13, <1>14, <1>15
  DEF Next

\* Once the handlers are done, every pending transaction could be mined on the tip,
\* unless the last sweep read a rewound UTXO set: whatever blocks, reorgs, admissions
\* and sweeps raced before (add_with_chain, mempool.rs; the handlers of bin/node.rs).
\* The hypothesis is what lets a block that extends the tip do without a sweep.
THEOREM PoolStaysMineable ==
    ASSUME OneTimeAddresses
    PROVE  Spec => []PoolMineable
<1>1. Init => MineableInv
  <2>1. Held(EmptyPool) = {}
    BY DEF Held, EmptyPool
  <2> QED
    BY <2>1 DEF Init, MineableInv
<1>2. PoolInv /\ MineableInv /\ [Next]_vars => MineableInv'
  BY MineableNext
<1>3. PoolInv /\ MineableInv => PoolMineable
  <2> SUFFICES ASSUME PoolInv, MineableInv, Settled, ~torn, NEW t \in Held(pool)
               PROVE  Valid(t, tip)
    BY DEF PoolMineable
  <2>1. sweep.by = NoThread
    <3>1. sweep.by \in Handler \cup {NoThread} /\ SweepOK
      BY PoolInvParts DEF NodeTypeOK, SweepRecord
    <3> QED
      BY <3>1 DEF SweepOK, Settled
  <2>2. Covered(t)
    BY <2>1 DEF MineableInv, SweepSound
  <2>3. \A h \in Handler : ~WillSweep(h) /\ ~ToBeConfirmed(h, t)
    BY NothingToDo DEF Settled
  <2> QED
    BY <2>1, <2>2, <2>3 DEF Covered, BeingSwept
<1> QED
  BY <1>1, <1>2, <1>3, PoolInvariant, PTL DEF Spec
=============================================================================
