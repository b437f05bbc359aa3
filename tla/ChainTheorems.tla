--------------------------- MODULE ChainTheorems ----------------------------
(***************************************************************************)
(* The theorems about module Chain: its tip, its indexes and its key       *)
(* images stay consistent whatever fails; its UTXO set is the replay of the *)
(* applied chain; its statistics and its disk describe the committed chain; *)
(* and that chain moves as CanonicalChain allows.                          *)
(***************************************************************************)
EXTENDS ChainLemmas

\* Leaves are first-order and left to Zenon, unless they cite the SMT solver.
USE ZenonT(40)

-----------------------------------------------------------------------------
(* What every step keeps.                                                  *)

\* The steps of a node whose disconnect loop finds its blocks.  The UTXO set stays the
\* replay of the applied chain.  If no write fails, the ancestors of what is stored stay
\* stored, and, if no crash falls into a reorg, so does the output index that of the
\* committed chain.  If no read fails either, so do the statistics and the indexes on
\* disk; the chain that wins is the better one; and the cache keeps its window.
LEMMA LedgerNext ==
    ASSUME HeightFacts, ChainInv, ChainInv', LedgerInv, [Next]_vars, [DisconnectsCached]_vars
    PROVE  /\ LedgerInv'
           /\ ~WriteErrors /\ StoredOK => StoredOK'
           /\ ~WriteErrors /\ StoredOK /\ RowsOK /\ CrashesOutsideReorg => RowsOK'
           /\ Reliable /\ StoredOK /\ BooksInv => BooksInv'
           /\ Reliable /\ StoredOK /\ BooksInv /\ ChoiceInv => ChoiceInv'
           /\ Reliable /\ StoredOK /\ BooksInv /\ ChoiceInv /\ WindowInv => WindowInv'
<1> DEFINE U(b) == key_images = SpentOn(b) /\ outputs = OutputsOn(b) /\ stealth_index = OwnerOn(b)
           Kept == /\ LedgerInv'
                   /\ ~WriteErrors /\ StoredOK => StoredOK'
                   /\ ~WriteErrors /\ StoredOK /\ RowsOK /\ CrashesOutsideReorg => RowsOK'
                   /\ Reliable /\ StoredOK /\ BooksInv => BooksInv'
                   /\ Reliable /\ StoredOK /\ BooksInv /\ ChoiceInv => ChoiceInv'
                   /\ Reliable /\ StoredOK /\ BooksInv /\ ChoiceInv /\ WindowInv => WindowInv'
<1> SUFFICES Kept
  OBVIOUS
<1>0. phase # "down" => U(Applied)
  BY DEF LedgerInv, UtxoMatchesChain
<1> HIDE DEF U, Kept
<1>T. /\ T \in Block /\ Height(T) \in Nat /\ CumWork(T) \in Nat /\ CumWork(T) <= CumWork(T)
      /\ phase \notin {"down", "commit", "commit_reorg"} => tip.hash = T
      /\ phase \notin {"down", "boot", "commit", "commit_reorg"} => tip.height = Height(T)
  <2>1. phase \notin {"down", "commit", "commit_reorg"} => tip = Tip(T, db_state.height)
    BY DEF ChainInv, TipOK
  <2>2. phase \notin {"down", "boot"} => db_state.height = Height(T)
    BY DEF ChainInv, DiskOK
  <2>3. T \in Block /\ Height(T) \in Nat /\ CumWork(T) \in Nat
    BY Fields, HeightType, WorkAssumption DEF ChainInv, T
  <2>4. CumWork(T) <= CumWork(T)
    BY <2>3, SMTT(30)
  <2>5. ASSUME phase \notin {"down", "commit", "commit_reorg"}
        PROVE  tip.hash = T /\ tip.height = db_state.height
    <3>1. tip = Tip(T, db_state.height)
      BY <2>1, <2>5
    <3> QED
      BY <3>1 DEF Tip
  <2> QED
    BY <2>2, <2>3, <2>4, <2>5
\* Storing a block, commits and boot leave the UTXO set and the applied block alone.
<1>Same. ASSUME phase # "down", UNCHANGED <<outputs, stealth_index, key_images>>,
                Applied' = Applied, ~MidReorg'
         PROVE  LedgerInv'
  BY <1>0, <1>Same DEF LedgerInv, UtxoMatchesChain, DisconnectedOK, U
<1>StoredSame. ASSUME UNCHANGED <<db_blocks, db_state>>, cache' \subseteq cache,
                      phase' \in {"extend", "commit"} \/ MidReorg' =>
                        (phase \in {"extend", "commit"} \/ MidReorg) /\ job'.block = job.block
               PROVE  StoredOK => StoredOK'
  BY <1>StoredSame DEF StoredOK, T
<1>Stores. ASSUME NEW b \in Block, Offered(b), cache' = cache \cup {b},
                  db_blocks' = db_blocks \cup {b}, T' = T,
                  phase' \in {"extend", "commit"} \/ MidReorg' => job'.block = b
           PROVE  b # Genesis /\ Parent(b) \in Block
                  /\ (StoredOK => StoredOK' /\ Branch(Parent(b)) \subseteq db_blocks)
  <2>1. b # Genesis /\ Parent(b) \in Block /\ Branch(b) = Branch(Parent(b)) \cup {b}
    <3>1. b # Genesis
      BY <1>Stores DEF Offered, Known, ChainInv, DiskOK
    <3> QED
      BY <3>1, ParentAncestors, BranchParent
  <2>2. ASSUME StoredOK PROVE Branch(Parent(b)) \subseteq db_blocks
    BY <1>Stores, <2>2 DEF StoredOK, Offered, Known
  <2>3. ASSUME StoredOK PROVE StoredOK'
    BY <1>Stores, <2>1, <2>2, <2>3 DEF StoredOK
  <2> QED
    BY <2>1, <2>2, <2>3
<1>DiskSame. ASSUME UNCHANGED <<db_heights, db_state, db_txs>>, db_blocks \subseteq db_blocks'
             PROVE  DiskDescribesOneChain => DiskDescribesOneChain'
  BY <1>DiskSame DEF DiskDescribesOneChain
<1>RowsSame. ASSUME db_outputs' = db_outputs, RowBase' = RowBase
             PROVE  (RowsOK => RowsOK') /\ (RowsOnChain => RowsOnChain')
  BY <1>RowsSame DEF RowsOK, RowsOnChain
\* The window: the index below is as before, and what is new in it is cached.
<1>Window. ASSUME phase # "down", cache \subseteq cache',
                  tip.hash \in Block, tip'.hash \in Block, CumWork(tip.hash) <= CumWork(tip'.hash),
                  phase' \in {"extend", "commit"} \/ MidReorg' => job'.block \in cache',
                  \A h \in 1 .. Reach' :
                    \/ /\ h \in 1 .. Reach /\ height_to_hash'[h] = height_to_hash[h]
                       /\ phase = "connect" /\ h = job.at /\ job.fork < h /\ height_to_hash[h] # NoBlock
                            => height_to_hash[h] \in cache
                    \/ /\ height_to_hash'[h] # NoBlock
                       /\ height_to_hash'[h] \in cache \/ (phase' = "connect" /\ h = job'.at /\ job'.fork < h)
           PROVE  WindowInv => WindowInv'
  <2> SUFFICES ASSUME WindowInv PROVE WindowInv'
    OBVIOUS
  <2> USE <1>Window
  <2>1. PICK top \in Block :
          /\ CumWork(top) <= CumWork(tip.hash)
          /\ \A h \in 1 .. Reach : h + KeepBlocks >= Height(top) =>
              /\ height_to_hash[h] # NoBlock
              /\ height_to_hash[h] \in cache \/ (phase = "connect" /\ h = job.at /\ job.fork < h)
    BY DEF WindowInv
  <2>2. CumWork(top) <= CumWork(tip'.hash)
    <3>1. CumWork(top) \in Nat /\ CumWork(tip.hash) \in Nat /\ CumWork(tip'.hash) \in Nat
      BY WorkAssumption
    <3> QED
      BY <2>1, <3>1, SMTT(30)
  <2>3. ASSUME NEW h \in 1 .. Reach', h + KeepBlocks >= Height(top)
        PROVE  /\ height_to_hash'[h] # NoBlock
               /\ height_to_hash'[h] \in cache' \/ (phase' = "connect" /\ h = job'.at /\ job'.fork < h)
    <3>1. CASE /\ height_to_hash'[h] # NoBlock
               /\ height_to_hash'[h] \in cache \/ (phase' = "connect" /\ h = job'.at /\ job'.fork < h)
      BY <3>1
    <3>2. CASE /\ h \in 1 .. Reach /\ height_to_hash'[h] = height_to_hash[h]
               /\ phase = "connect" /\ h = job.at /\ job.fork < h /\ height_to_hash[h] # NoBlock
                    => height_to_hash[h] \in cache
      BY <2>1, <2>3, <3>2
    <3> QED
      BY <3>1, <3>2
  <2> QED
    BY <2>2, <2>3 DEF WindowInv
<1>Store. ASSUME NEW b \in Block, StoreMain(b) \/ StoreFork(b) \/ StoreFails(b)
          PROVE  Kept
  <2>1. /\ phase = "idle" /\ phase' \in {"idle", "extend"} /\ Offered(b)
        /\ UNCHANGED <<outputs, stealth_index, key_images, tip, stats, height_to_hash>>
        /\ UNCHANGED <<db_heights, db_state, db_outputs, db_txs>>
        /\ cache' = cache \cup {b}
        /\ ~WriteErrors => db_blocks' = db_blocks \cup {b}
        /\ phase' = "extend" => Parent(b) = tip.hash /\ ContextValid(b) /\ b \in ShieldedOk
    BY <1>Store DEF StoreMain, StoreFork, StoreFails, Store, Offered, utxos, disk
  <2>2. phase' = "extend" => job'.block = b
    <3>1. phase' = "extend" => job' = [NoJob EXCEPT !.block = b]
      BY <1>Store, <2>1 DEF StoreMain, StoreFork, StoreFails
    <3> QED
      BY <3>1, NoJobType DEF JobType
  <2>3. ~MidReorg' /\ ~MidReorg /\ T' = T /\ Applied = tip.hash /\ Applied' = Applied
    BY <2>1 DEF MidReorg, Reorging, T, Applied
  <2>4. tip.hash = T
    BY <1>T, <2>1
  <2>Ledger. LedgerInv'
    BY <1>Same, <2>1, <2>3
  <2>Stored. ASSUME ~WriteErrors, StoredOK PROVE StoredOK'
    BY <1>Stores, <2>1, <2>2, <2>3, <2>Stored
  <2>base. RowBase = T /\ RowBase' = T
    BY <2>1, <2>3 DEF RowBase
  <2>Rows. (RowsOK => RowsOK') /\ (RowsOnChain => RowsOnChain')
    BY <1>RowsSame, <2>1, <2>base
  <2>Books. ASSUME Reliable, BooksInv PROVE BooksInv'
    <3>1. StatsOK'
      BY <2>1, <2>3, <2>Books DEF BooksInv, StatsOK, MidReorg
    <3> QED
      BY <1>DiskSame, <2>1, <2>Books, <3>1 DEF BooksInv, Reliable
  <2>Choice. ASSUME Reliable, StoredOK, ChoiceInv PROVE ChoiceInv'
    <3>1. phase' = "extend" => AcceptableChain(b)
      <4>1. SUFFICES ASSUME phase' = "extend" PROVE AcceptableChain(b)
        OBVIOUS
      <4>2. b # Genesis /\ Parent(b) = T
        BY <1>Stores, <2>1, <2>2, <2>3, <2>4, <2>Choice, <4>1 DEF Reliable
      <4>3. U(T)
        BY <1>0, <2>1, <2>3, <2>4
      <4>4. \A s \in Address : db_outputs[s] # NoRow => PayHeights(T, s) # {}
        BY <2>base, <2>Choice DEF ChoiceInv, RowsOnChain
      <4> QED
        BY <2>1, <2>Choice, <4>1, <4>2, <4>3, <4>4, ValidIsAcceptable DEF U, ChoiceInv, Offered
    <3> QED
      BY <2>1, <2>2, <2>3, <2>Rows, <2>Choice, <3>1 DEF ChoiceInv
  <2>Wind. WindowInv => WindowInv'
    <3>1. Reach = tip.height /\ Reach' = tip.height
      BY <2>1 DEF Reach
    <3>2. phase' \in {"extend", "commit"} \/ MidReorg' => job'.block \in cache'
      BY <2>1, <2>2, <2>3
    <3> QED
      BY <1>T, <1>Window, <2>1, <2>4, <3>1, <3>2
  <2> QED
    BY <2>Ledger, <2>Stored, <2>Rows, <2>Books, <2>Choice, <2>Wind DEF Kept
<1>Boot. ASSUME Boot
         PROVE  Kept
  <2>1. /\ phase = "boot" /\ phase' = "idle" /\ cache \subseteq cache' /\ cache' \subseteq cache
        /\ UNCHANGED <<outputs, stealth_index, key_images, tip, stats, height_to_hash>>
        /\ UNCHANGED <<db_blocks, db_heights, db_outputs, db_txs, db_state>>
    BY <1>Boot DEF Boot, memory, utxos, disk
  <2>2. /\ ~MidReorg' /\ ~Reorging' /\ T' = T /\ Applied = tip.hash /\ Applied' = Applied /\ tip.hash = T
        /\ RowBase = T /\ RowBase' = T /\ Reach = tip.height /\ Reach' = tip.height
    BY <1>T, <2>1 DEF MidReorg, Reorging, T, Applied, RowBase, Reach
  <2>Ledger. LedgerInv'
    BY <1>Same, <2>1, <2>2
  <2>Stored. StoredOK => StoredOK'
    BY <1>StoredSame, <2>1, <2>2
  <2>Rows. (RowsOK => RowsOK') /\ (RowsOnChain => RowsOnChain')
    BY <1>RowsSame, <2>1, <2>2
  <2>Books. BooksInv => BooksInv'
    BY <1>DiskSame, <2>1, <2>2 DEF BooksInv, StatsOK
  <2>Choice. ChoiceInv => ChoiceInv'
    BY <2>1, <2>2, <2>Rows DEF ChoiceInv
  <2>Wind. WindowInv => WindowInv'
    BY <1>T, <1>Window, <2>1, <2>2
  <2> QED
    BY <2>Ledger, <2>Stored, <2>Rows, <2>Books, <2>Choice, <2>Wind DEF Kept
\* The tip and its child.
<1>ExtendTip. ASSUME ExtendTip
              PROVE  Kept
  <2> DEFINE b == job.block
  <2>1. /\ phase = "extend" /\ phase' = "commit" /\ UtxoConnect(b)
        /\ tip' = Tip(b, Height(b))
        /\ stats' = [Minted(stats, b) EXCEPT !.total_difficulty = @ + Difficulty(b),
                                             !.total_blocks = @ + 1]
        /\ UNCHANGED <<db_blocks, db_heights, db_state, db_outputs, db_txs, job>>
    BY <1>ExtendTip DEF ExtendTip, disk
  <2>2. b \in Block /\ b # Genesis /\ Parent(b) = T /\ T' = T /\ tip.hash = T /\ tip.height = Height(T)
    BY <1>T, <2>1 DEF ChainInv, JobOK, T
  <2>3. Applied = T /\ Applied' = b /\ ~MidReorg' /\ tip'.hash = b /\ tip'.height = Height(b)
    BY <2>1, <2>2 DEF Tip, Applied, MidReorg, Reorging
  <2>4. U(T)
    BY <1>0, <2>1, <2>3
  <2>5. key_images' = SpentOn(b) /\ outputs' = OutputsOn(b) /\ stealth_index' = OwnerOn(b)
    BY <2>1, <2>2, <2>4, ConnectsLedger DEF U
  <2>6. cache' \subseteq cache
    BY <1>ExtendTip DEF ExtendTip
  <2>Ledger. LedgerInv'
    BY <2>3, <2>5 DEF LedgerInv, UtxoMatchesChain, DisconnectedOK
  <2>Stored. StoredOK => StoredOK'
    BY <1>StoredSame, <2>1, <2>3, <2>6
  <2>Rows. (RowsOK => RowsOK') /\ (RowsOnChain => RowsOnChain')
    <3>1. RowBase = T /\ RowBase' = T
      BY <2>1, <2>2 DEF RowBase
    <3> QED
      BY <1>RowsSame, <2>1, <3>1
  <2>7. Height(b) = Height(T) + 1 /\ Height(b) \in Nat /\ CumWork(b) = CumWork(T) + Difficulty(b)
        /\ CumWork(b) \in Nat /\ Difficulty(b) \in Nat
    <3>1. Height(T) = Height(b) - 1 /\ Height(b) \in Nat
      BY <2>2, ParentAncestors, HeightType
    <3>2. Height(b) = Height(T) + 1
      BY <1>T, <3>1, SMTT(30)
    <3> QED
      BY <2>2, <3>1, <3>2, WorkAssumption
  <2>Books. ASSUME BooksInv PROVE BooksInv'
    <3> DEFINE m == Minted(stats, b)
    <3>1. stats = StatsOf(T)
      BY <2>1, <2>Books DEF BooksInv, StatsOK
    <3>2. Height(T) + 1 \in Int /\ CumWork(T) \in Int
      BY <1>T, SMTT(30)
    <3>3. m = Stats(CumWork(T), CumSupply(b), CumBurn(b), Height(T) + 1)
      <4>1. Minted(Stats(CumWork(T), CumSupply(Parent(b)), CumBurn(Parent(b)), Height(T) + 1), b)
              = Stats(CumWork(T), CumSupply(b), CumBurn(b), Height(T) + 1)
        BY <2>2, <3>2, MintsParent
      <4> QED
        BY <2>2, <3>1, <4>1 DEF StatsOf
    <3>4. stats' = [m EXCEPT !.total_difficulty = @ + Difficulty(b), !.total_blocks = @ + 1]
      BY <2>1
    <3> HIDE DEF m
    <3>5. m \in StatsType
      <4>1. CumSupply(b) \in Int /\ CumBurn(b) \in Int
        BY <2>2, SumsType
      <4> QED
        BY <3>2, <3>3, <4>1 DEF Stats, StatsType
    <3>6. /\ m.total_difficulty = CumWork(T) /\ m.total_blocks = Height(b)
          /\ m.total_supply = CumSupply(b) /\ m.total_burned = CumBurn(b)
      BY <2>7, <3>3 DEF Stats
    <3>7. stats' = StatsOf(b)
      <4>1. stats' = [m EXCEPT !.total_difficulty = CumWork(b), !.total_blocks = Height(b) + 1]
        BY <2>7, <3>4, <3>6
      <4>2. CumWork(b) \in Int /\ Height(b) + 1 \in Int
        BY <2>7, SMTT(30)
      <4>3. [m EXCEPT !.total_difficulty = CumWork(b), !.total_blocks = Height(b) + 1]
              = Stats(CumWork(b), m.total_supply, m.total_burned, Height(b) + 1)
        BY <3>5, <4>2, StatsOfTip
      <4> QED
        BY <3>6, <4>1, <4>3 DEF StatsOf
    <3>8. StatsOK'
      BY <2>1, <2>2, <2>3, <3>7 DEF StatsOK, MidReorg
    <3> QED
      BY <1>DiskSame, <2>1, <2>Books, <3>8 DEF BooksInv
  <2>Choice. ASSUME ChoiceInv PROVE ChoiceInv'
    BY <2>1, <2>2, <2>3, <2>Rows, <2>Choice DEF ChoiceInv
  <2>Wind. ASSUME WindowInv PROVE WindowInv'
    <3> DEFINE index == [height_to_hash EXCEPT ![Height(b)] = b]
               gone == Evicted(cache, index, Height(b))
    <3>0. height_to_hash' = [h \in Heights |-> IF h \in gone THEN NoBlock ELSE index[h]]
      BY <1>ExtendTip DEF ExtendTip
    <3>1. cache' = cache \ {index[h] : h \in gone}
      BY <1>ExtendTip DEF ExtendTip
    <3>2. \A h \in gone : h \in Heights /\ index[h] # NoBlock /\ h + KeepBlocks < Height(b)
      BY DEF Evicted
    <3>3. /\ \A h \in Heights : index[h] = IF h = Height(b) THEN b ELSE height_to_hash[h]
          /\ b \in cache
      BY <2>1, <2>Wind DEF ChainInv, TypeOK, WindowInv
    <3> HIDE DEF index, gone
    <3>4. \A h \in Heights : index[h] # NoBlock => Height(index[h]) = h
      <4>1. \A h \in Heights : height_to_hash[h] # NoBlock => Height(height_to_hash[h]) = h
        <5>1. \A h \in Heights : height_to_hash[h] # NoBlock => h <= Height(T) /\ height_to_hash[h] = Anc(T, h)
          BY <2>1, <2>3 DEF ChainInv, IndexOK
        <5>2. \A h \in Heights : h <= Height(T) => h \in 0 .. Height(T)
          BY <1>T, TreeAssumption, SMTT(30) DEF Heights
        <5> QED
          BY <1>T, <5>1, <5>2, AncType
      <4> QED
        BY <3>3, <4>1
    <3>5. PICK top \in Block :
            /\ CumWork(top) <= CumWork(T)
            /\ \A h \in 1 .. Height(T) : h + KeepBlocks >= Height(top) =>
                height_to_hash[h] # NoBlock /\ height_to_hash[h] \in cache
      BY <2>1, <2>2, <2>Wind DEF WindowInv, Reach
    <3>6. PICK new \in Block : CumWork(new) <= CumWork(b) /\ Height(new) >= Height(b) /\ Height(new) >= Height(top)
      <4>1. Height(top) \in Nat /\ CumWork(top) \in Nat
        BY HeightType, WorkAssumption
      <4>2. CumWork(top) <= CumWork(b) /\ CumWork(b) <= CumWork(b) /\ Height(b) >= Height(b)
            /\ Height(top) >= Height(top) /\ (Height(b) >= Height(top) \/ Height(top) >= Height(b))
        BY <1>T, <2>7, <3>5, <4>1, SMTT(30)
      <4> QED
        BY <2>2, <4>2
    <3>7. ASSUME NEW h \in 1 .. Height(b), h + KeepBlocks >= Height(new)
          PROVE  height_to_hash'[h] # NoBlock /\ height_to_hash'[h] \in cache'
      <4>1. Height(new) \in Nat /\ Height(top) \in Nat /\ h \in Heights
        BY <2>2, <2>7, HeightType, AncType, SMTT(30)
      <4>2. /\ h + KeepBlocks >= Height(top) /\ ~(h + KeepBlocks < Height(b))
            /\ h # Height(b) => h \in 1 .. Height(T)
        BY <1>T, <2>7, <3>6, <3>7, <4>1, ChainAssumption, SMTT(30)
      <4>3. index[h] # NoBlock /\ index[h] \in cache
        BY <2>2, <3>3, <3>5, <4>1, <4>2, TreeAssumption
      <4>4. h \notin gone /\ height_to_hash'[h] = index[h]
        BY <3>0, <3>2, <4>1, <4>2
      <4>5. \A k \in gone : index[k] # index[h]
        BY <3>2, <3>4, <4>1, <4>3, <4>4
      <4>6. index[h] \in cache'
        BY <3>1, <4>3, <4>5
      <4> QED
        BY <4>3, <4>4, <4>6
    <3>8. b \in cache'
      <4>1. \A k \in gone : k # Height(b)
        BY <2>7, <3>2, ChainAssumption, SMTT(30)
      <4>2. \A k \in gone : index[k] # b
        BY <3>2, <3>4, <4>1
      <4> QED
        BY <3>1, <3>3, <4>2
    <3>9. Reach' = Height(b) /\ job'.block = b
      BY <2>1, <2>3 DEF Reach
    <3> QED
      BY <2>1, <2>3, <3>6, <3>7, <3>8, <3>9 DEF WindowInv
  <2> QED
    BY <2>Ledger, <2>Stored, <2>Rows, <2>Books, <2>Choice, <2>Wind DEF Kept
\* A commit makes the block at the tip the committed one.
<1>Commits. ASSUME NEW b \in Block, NEW c, db_state' = State(b, Height(b), stats, c), phase' = "idle",
                   stats' = stats, b \in db_blocks', StoredOK', stats = StatsOf(b),
                   \A x \in Tx : LET on == {h \in 0 .. Height(b) : x \in Txs(Anc(b, h))}
                                 IN  IF on = {} THEN db_txs'[x] = NoHeight ELSE db_txs'[x] \in on
            PROVE  BooksInv'
  <2>1. /\ T' = b /\ db_state'.height = Height(b) /\ db_state'.total_difficulty = CumWork(b)
        /\ db_state'.total_supply = CumSupply(b) /\ db_state'.total_burned = CumBurn(b)
    BY <1>Commits DEF State, StatsOf, Stats, T
  <2>2. Branch(b) \subseteq db_blocks'
    BY <1>Commits DEF StoredOK
  <2>3. /\ \A h \in 0 .. Height(b) : db_heights'[h] = Anc(b, h)
        /\ \A h \in Heights : h > Height(b) => db_heights'[h] = NoBlock
    BY <2>1 DEF ChainInv, DiskOK
  <2>4. \A h \in Heights : (h <= Height(b) => h \in 0 .. Height(b)) /\ (~(h <= Height(b)) => h > Height(b))
    BY HeightType, TreeAssumption, SMTT(30) DEF Heights
  <2>5. DiskDescribesOneChain'
    <3>1. \A h \in Heights : db_heights'[h] = IF h <= Height(b) THEN Anc(b, h) ELSE NoBlock
      BY <2>3, <2>4
    <3> QED
      BY <1>Commits, <2>1, <2>2, <3>1 DEF DiskDescribesOneChain, T
  <2>6. StatsOK'
    BY <1>Commits, <2>1 DEF StatsOK, Reorging
  <2> QED
    BY <2>5, <2>6 DEF BooksInv
<1>CommitBlock. ASSUME CommitBlock
                PROVE  Kept
  <2> DEFINE b == job.block
  <2>1. /\ phase = "commit" /\ phase' = "idle"
        /\ UNCHANGED <<outputs, stealth_index, key_images, tip, stats, cache, height_to_hash, db_blocks>>
        /\ db_outputs' = PersistOutputs(db_outputs, b)
        /\ db_txs' = [t \in Tx |-> IF t \in Txs(b) THEN Height(b) ELSE db_txs[t]]
        /\ db_state' = State(b, Height(b), stats, Checkpoint(Height(b)))
    BY <1>CommitBlock DEF CommitBlock, memory, utxos
  <2>2. /\ b \in Block /\ b # Genesis /\ Parent(b) = T /\ tip = Tip(b, Height(b))
    BY <2>1 DEF ChainInv, JobOK, TipOK
  <2>3. /\ T' = b /\ tip.hash = b /\ ~MidReorg' /\ Applied = tip.hash /\ Applied' = tip.hash
        /\ RowBase = T /\ RowBase' = b /\ Reach = tip.height /\ Reach' = tip.height
    <3>1. T' = b /\ tip.hash = b
      BY <2>1, <2>2 DEF T, State, Tip
    <3> QED
      BY <2>1, <3>1 DEF MidReorg, Reorging, Applied, RowBase, Reach
  <2>Ledger. LedgerInv'
    BY <1>Same, <2>1, <2>3
  <2>Stored. StoredOK => StoredOK'
    BY <2>1, <2>3 DEF StoredOK
  <2>Rows. RowsOK => RowsOK'
    <3> SUFFICES ASSUME RowsOK, NEW s \in Unshared PROVE db_outputs'[s] = RowsOn(b)[s]
      BY <2>3 DEF RowsOK
    <3>1. s \in Address /\ db_outputs[s] = RowsOn(Parent(b))[s]
      BY <2>2, <2>3 DEF RowsOK, Unshared
    <3> QED
      BY <2>1, <2>2, <3>1, PersistsRow
  <2>Books. ASSUME StoredOK, BooksInv PROVE BooksInv'
    <3>1. b \in db_blocks' /\ StoredOK' /\ stats = StatsOf(b)
      BY <2>1, <2>Stored, <2>Books DEF StoredOK, BooksInv, StatsOK
    <3>2. ASSUME NEW x \in Tx
          PROVE  LET on == {h \in 0 .. Height(b) : x \in Txs(Anc(b, h))}
                 IN  IF on = {} THEN db_txs'[x] = NoHeight ELSE db_txs'[x] \in on
      <4> DEFINE on(a) == {h \in 0 .. Height(a) : x \in Txs(Anc(a, h))}
      <4>1. IF on(T) = {} THEN db_txs[x] = NoHeight ELSE db_txs[x] \in on(T)
        BY <2>Books DEF BooksInv, DiskDescribesOneChain, T
      <4>2. db_txs'[x] = IF x \in Txs(b) THEN Height(b) ELSE db_txs[x]
        BY <2>1
      <4>3. /\ Height(b) \in 0 .. Height(b) /\ Anc(b, Height(b)) = b
            /\ \A h \in 0 .. Height(T) : h \in 0 .. Height(b) /\ Anc(T, h) = Anc(b, h)
            /\ \A h \in 0 .. Height(b) : h = Height(b) \/ h \in 0 .. Height(T)
        <5>1. /\ Height(T) = Height(b) - 1 /\ Height(b) \in Nat /\ Anc(b, Height(b)) = b
              /\ \A h \in 0 .. Height(b) - 1 : Anc(T, h) = Anc(b, h)
          BY <2>2, ParentAncestors, HeightType, AncSelf
        <5>2. /\ Height(b) \in 0 .. Height(b)
              /\ \A h \in 0 .. Height(b) - 1 : h \in 0 .. Height(b)
              /\ \A h \in 0 .. Height(b) : h = Height(b) \/ h \in 0 .. Height(b) - 1
          BY <5>1, SMTT(30)
        <5> QED
          BY <5>1, <5>2
      <4>4. CASE x \in Txs(b)
        BY <4>2, <4>3, <4>4
      <4>5. CASE x \notin Txs(b)
        <5>1. on(b) = on(T)
          BY <4>3, <4>5
        <5> HIDE DEF on
        <5>2. IF on(b) = {} THEN db_txs'[x] = NoHeight ELSE db_txs'[x] \in on(b)
          BY <4>1, <4>2, <4>5, <5>1
        <5> QED
          BY <5>2 DEF on
      <4> QED
        BY <4>4, <4>5
    <3> QED
      BY <1>Commits, <2>1, <2>2, <3>1, <3>2
  <2>Choice. ASSUME ChoiceInv PROVE ChoiceInv'
    <3>1. RowsOnChain'
      <4> SUFFICES ASSUME NEW s \in Address, db_outputs'[s] # NoRow PROVE PayHeights(b, s) # {}
        BY <2>3 DEF RowsOnChain
      <4>1. db_outputs'[s] = IF db_outputs[s] = NoRow /\ Pays(b, s)
                               THEN Row(PaidBy(b, s), Height(b)) ELSE db_outputs[s]
        BY <2>1 DEF PersistOutputs
      <4>2. Pays(b, s) \/ PayHeights(T, s) # {}
        BY <2>3, <2>Choice, <4>1 DEF ChoiceInv, RowsOnChain
      <4> QED
        BY <2>2, <4>2, PayHeightsParent
    <3> QED
      BY <2>1, <2>3, <2>Choice, <3>1 DEF ChoiceInv
  <2>Wind. WindowInv => WindowInv'
    <3>1. CumWork(b) <= CumWork(b)
      BY <2>2, SumsType, SMTT(30)
    <3> QED
      BY <1>Window, <2>1, <2>2, <2>3, <3>1
  <2> QED
    BY <2>Ledger, <2>Stored, <2>Rows, <2>Books, <2>Choice, <2>Wind DEF Kept
\* The reorg commits its chain: what it disconnected is what the old one had above the fork.
<1>CommitReorg. ASSUME CommitReorg
                PROVE  Kept
  <2> DEFINE b == job.block
             gone == job.disconnected \cap cache
  <2>1. /\ phase = "commit_reorg" /\ phase' = "idle"
        /\ UNCHANGED <<outputs, stealth_index, key_images, tip, stats, cache, height_to_hash, db_blocks>>
        /\ db_outputs' = ReorgRows(b, job.fork, gone)
        /\ db_txs' = ReorgTxs(b, job.fork, gone)
        /\ db_state' = State(b, Height(b), stats, db_state.last_checkpoint)
    BY <1>CommitReorg DEF CommitReorg, memory, utxos
  <2>2. MidReorg /\ b \in Block /\ job.fork \in Nat /\ tip = Tip(b, Height(b))
    <3>1. MidReorg /\ b \in Block /\ tip = Tip(b, Height(b)) /\ job.fork \in Heights
      BY <2>1, Fields DEF ChainInv, JobOK, TipOK, MidReorg
    <3> QED
      BY <3>1, TreeAssumption, SMTT(30) DEF Heights
  <2>3. /\ T' = b /\ tip.hash = b /\ ~MidReorg' /\ Applied = tip.hash /\ Applied' = tip.hash
        /\ RowBase = Anc(T, job.fork) /\ RowBase' = b /\ Reach = tip.height /\ Reach' = tip.height
    <3>1. T' = b /\ tip.hash = b
      BY <2>1, <2>2 DEF T, State, Tip
    <3> QED
      BY <2>1, <3>1 DEF MidReorg, Reorging, Applied, RowBase, Reach
  <2>4. Switches(T, b, job.fork, gone)
    <3>1. /\ job.fork <= Height(T) /\ job.fork < Height(b) /\ Anc(b, job.fork) = Anc(T, job.fork)
      BY <2>1 DEF ChainInv, JobOK
    <3>2. \A h \in 0 .. job.fork : Anc(b, h) = Anc(T, h)
      <4>1. job.fork <= Height(b)
        BY <2>2, <3>1, HeightType, SMTT(30)
      <4> QED
        BY <1>T, <2>2, <3>1, <4>1, SharedPrefix
    <3>3. gone = {Anc(T, h) : h \in job.fork + 1 .. Height(T)}
      BY <2>1, <2>2 DEF LedgerInv, DisconnectedOK, Floor
    <3>4. (\A a \in Branch(T) : SpendsOnce(a)) /\ (\A a \in Branch(b) : SpendsOnce(a))
      BY <2>1, <2>3 DEF ChainInv, NoDoubleSpend, T
    <3> HIDE DEF b, gone
    <3> QED
      BY <1>T, <2>2, <3>1, <3>2, <3>3, <3>4 DEF Switches, b
  <2> HIDE DEF gone
  <2>5. \A s \in Address :
          /\ /\ ReorgRows(b, job.fork, gone)[s] # NoRow
             /\ db_outputs[s] # NoRow => PayHeights(Anc(T, job.fork), s) # {}
             => PayHeights(b, s) # {}
          /\ s \in Unshared /\ db_outputs[s] = RowsOn(Anc(T, job.fork))[s] =>
               ReorgRows(b, job.fork, gone)[s] = RowsOn(b)[s]
    BY <2>4, SwitchesRows, SMTT(30)
  <2>Ledger. LedgerInv'
    BY <1>Same, <2>1, <2>3
  <2>Stored. StoredOK => StoredOK'
    BY <2>1, <2>2, <2>3 DEF StoredOK
  <2>Rows. RowsOK => RowsOK'
    <3> SUFFICES ASSUME RowsOK, NEW s \in Unshared PROVE db_outputs'[s] = RowsOn(b)[s]
      BY <2>3 DEF RowsOK
    <3>1. s \in Address /\ db_outputs[s] = RowsOn(Anc(T, job.fork))[s]
      BY <2>3 DEF RowsOK, Unshared
    <3> QED
      BY <2>1, <2>5, <3>1
  <2>Books. ASSUME StoredOK, BooksInv PROVE BooksInv'
    <3>1. b \in db_blocks' /\ StoredOK' /\ stats = StatsOf(b)
      BY <2>1, <2>2, <2>Stored, <2>Books DEF StoredOK, BooksInv, StatsOK
    <3>2. ASSUME NEW x \in Tx
          PROVE  LET on == {h \in 0 .. Height(b) : x \in Txs(Anc(b, h))}
                 IN  IF on = {} THEN db_txs'[x] = NoHeight ELSE db_txs'[x] \in on
      <4>1. LET on == {h \in 0 .. Height(T) : x \in Txs(Anc(T, h))}
            IN  IF on = {} THEN db_txs[x] = NoHeight ELSE db_txs[x] \in on
        BY <2>Books DEF BooksInv, DiskDescribesOneChain, T
      <4>2. LET on == {h \in 0 .. Height(b) : x \in Txs(Anc(b, h))}
            IN  IF on = {} THEN ReorgTxs(b, job.fork, gone)[x] = NoHeight
                           ELSE ReorgTxs(b, job.fork, gone)[x] \in on
        BY <2>4, <4>1, SwitchesTxs
      <4> QED
        BY <2>1, <4>2
    <3> QED
      BY <1>Commits, <2>1, <2>2, <3>1, <3>2
  <2>Choice. ASSUME ChoiceInv PROVE ChoiceInv'
    <3>1. RowsOnChain'
      <4> SUFFICES ASSUME NEW s \in Address, db_outputs'[s] # NoRow PROVE PayHeights(b, s) # {}
        BY <2>3 DEF RowsOnChain
      <4>1. db_outputs[s] # NoRow => PayHeights(Anc(T, job.fork), s) # {}
        BY <2>3, <2>Choice DEF ChoiceInv, RowsOnChain
      <4> QED
        BY <2>1, <2>5, <4>1
    <3> QED
      BY <2>1, <2>3, <2>Choice, <3>1 DEF ChoiceInv
  <2>Wind. WindowInv => WindowInv'
    <3>1. CumWork(b) <= CumWork(b)
      BY <2>2, SumsType, SMTT(30)
    <3> QED
      BY <1>Window, <2>1, <2>2, <2>3, <3>1
  <2> QED
    BY <2>Ledger, <2>Stored, <2>Rows, <2>Books, <2>Choice, <2>Wind DEF Kept
\* A reorg starts at the tip, with nothing disconnected.
<1>BeginReorg. ASSUME NEW b \in Block, BeginReorg(b)
               PROVE  Kept
  <2>1. /\ phase = "idle" /\ Offered(b)
        /\ UNCHANGED <<outputs, stealth_index, key_images, tip, stats, height_to_hash>>
        /\ UNCHANGED <<db_heights, db_state, db_outputs, db_txs>>
        /\ cache' = cache \cup {b} /\ db_blocks' = db_blocks \cup {b}
    BY <1>BeginReorg DEF BeginReorg, Store, Offered, utxos
  <2>2. PICK work \in ForkWorks(b), f \in Heights :
          /\ Reorganises(b, work, f)
          /\ job' = [block |-> b, work |-> work, fork |-> f, at |-> tip.height, pre_tip |-> tip,
                     pre_stats |-> stats, disconnected |-> {}]
          /\ phase' = IF tip.height > f THEN "disconnect" ELSE "connect"
    BY <1>BeginReorg DEF BeginReorg
  <2>3. T \in Block /\ T' = T /\ tip.hash = T /\ tip.height = Height(T) /\ Height(T) \in Nat
    BY <1>T, <2>1 DEF T
  <2>4. Reorging' /\ phase' \in {"disconnect", "connect"}
    BY <2>2 DEF Reorging
  <2>5. f <= Height(T) /\ Anc(b, f) = Anc(T, f)
    BY <2>2, <2>3, <2>4 DEF ChainInv, JobOK
  <2>6. phase' = "connect" => f = Height(T)
    BY <2>2, <2>3, <2>5, TreeAssumption, SMTT(30) DEF Heights
  <2>7. Applied' = T /\ Applied = T
    <3>1. CASE phase' = "disconnect"
      BY <2>1, <2>2, <2>3, <3>1, AncSelf DEF Applied
    <3>2. CASE phase' = "connect"
      BY <2>1, <2>2, <2>3, <2>5, <2>6, <3>2, AncSelf DEF Applied
    <3> QED
      BY <2>4, <3>1, <3>2
  <2>8. Floor' = Height(T)
    BY <2>2, <2>3, <2>4, <2>6 DEF Floor
  <2>9. Height(T) + 1 .. Height(T) = {}
    BY <2>3, SMTT(30)
  <2>10. DisconnectedOK'
    BY <2>2, <2>3, <2>8, <2>9 DEF DisconnectedOK
  <2>11. /\ job'.block = b /\ job'.work = work /\ job'.fork = f /\ job'.at = Height(T)
         /\ job'.pre_stats = stats /\ MidReorg'
    BY <2>2, <2>3, <2>4 DEF MidReorg
  <2>12. RowBase = T /\ RowBase' = T
    <3>1. CASE phase' = "disconnect"
      BY <2>1, <2>3, <2>11, <3>1, AncSelf DEF RowBase
    <3>2. CASE phase' = "connect"
      BY <2>1, <2>3, <2>6, <2>11, <3>2, AncSelf DEF RowBase
    <3> QED
      BY <2>4, <3>1, <3>2
  <2>Ledger. LedgerInv'
    BY <1>0, <2>1, <2>7, <2>10 DEF LedgerInv, UtxoMatchesChain, U
  <2>Stored. b # Genesis /\ (StoredOK => StoredOK' /\ Branch(Parent(b)) \subseteq db_blocks)
    BY <1>Stores, <2>1, <2>3, <2>11
  <2>Rows. (RowsOK => RowsOK') /\ (RowsOnChain => RowsOnChain')
    BY <1>RowsSame, <2>1, <2>12
  <2>work. Reliable /\ StoredOK => work = CumWork(b)
    BY <2>2, <2>Stored, ForkWorkExact DEF Reliable
  <2>Books. ASSUME Reliable, StoredOK, BooksInv PROVE BooksInv' /\ stats = StatsOf(T)
    <3>1. stats = StatsOf(T)
      BY <2>1, <2>Books DEF BooksInv, StatsOK
    <3>2. StatsOK'
      BY <2>1, <2>3, <2>4, <2>7, <2>11, <2>work, <2>Books, <3>1 DEF StatsOK, StatsOf
    <3> QED
      BY <1>DiskSame, <2>1, <2>Books, <3>1, <3>2 DEF BooksInv
  <2>Choice. ASSUME Reliable, StoredOK, BooksInv, ChoiceInv PROVE ChoiceInv'
    <3>1. Better(b, T)
      <4>1. stats.total_difficulty = CumWork(T)
        <5>1. stats = StatsOf(T)
          BY <2>Books, <2>Choice
        <5> QED
          BY <5>1 DEF StatsOf, Stats
      <4> QED
        BY <2>2, <2>3, <2>work, <2>Choice, <4>1 DEF Reorganises, Better
    <3>2. FinalityFloor(Height(T)) <= f
      BY <2>2, <2>3, PolicyAssumption, TreeAssumption, SMTT(30) DEF Reorganises, BelowFloor, FinalityFloor, SatSub, Heights
    <3>3. phase' = "connect" => Anc(b, Height(T)) = T
      BY <2>3, <2>5, <2>6, AncSelf
    <3> QED
      BY <2>3, <2>4, <2>11, <2>Rows, <2>Choice, <3>1, <3>2, <3>3 DEF ChoiceInv
  <2>Wind. WindowInv => WindowInv'
    <3>1. Reach = tip.height /\ Reach' = tip.height
      BY <2>1, <2>3, <2>4, <2>11 DEF Reach
    <3> QED
      BY <1>T, <1>Window, <2>1, <2>3, <2>11, <3>1
  <2> QED
    BY <2>Ledger, <2>Stored, <2>Rows, <2>Books, <2>Choice, <2>Wind DEF Kept
\* The disconnect loop takes the applied block back, one at a time.
<1>Disconnect. ASSUME Disconnect
               PROVE  Kept
  <2> DEFINE h == job.at
             o == height_to_hash[h]
  <2>1. /\ phase = "disconnect" /\ Reorging /\ o \in cache
        /\ UtxoDisconnect(o)
        /\ job' = [job EXCEPT !.at = h - 1, !.disconnected = @ \cup ({o} \ {NoBlock})]
        /\ phase' = IF h - 1 > job.fork THEN "disconnect" ELSE "connect"
        /\ stats' = Unminted(stats, o)
        /\ height_to_hash' = [height_to_hash EXCEPT ![h] = NoBlock]
        /\ UNCHANGED <<cache, tip, db_blocks, db_heights, db_state, db_txs>>
    <3>1. vars' # vars
      <4>1. job \in JobType /\ job' = [job EXCEPT !.at = h - 1, !.disconnected = @ \cup ({o} \ {NoBlock})]
        BY <1>Disconnect DEF Disconnect, ChainInv, TypeOK
      <4>2. job'.at = job.at - 1 /\ job.at \in Nat
        BY <4>1, TreeAssumption, SMTT(30) DEF JobType, Heights
      <4>3. job' # job
        BY <4>2, SMTT(30)
      <4> QED
        BY <4>3 DEF vars
    <3>2. o \in cache
      BY <1>Disconnect, <3>1 DEF DisconnectsCached
    <3> QED
      BY <1>Disconnect, <3>2 DEF Disconnect, Reorging
  <2>2. /\ T \in Block /\ job.pre_tip.hash = T /\ job.block \in Block
        /\ Height(T) \in Nat /\ job.fork \in Nat /\ h \in Nat
        /\ job.fork < h /\ h <= Height(T)
        /\ \A k \in 0 .. job.fork : Anc(job.block, k) = Anc(T, k)
    BY <2>1, ReorgFacts DEF ChainInv, JobOK
  <2>3. /\ h \in 1 .. Height(T) /\ h \in 0 .. Height(T) /\ job.fork \in 0 .. job.fork /\ (h - 1) + 1 = h
        /\ h - 1 \in Nat /\ h - 1 < Height(T)
        /\ phase' \in {"disconnect", "connect"} /\ (phase' = "connect" => h - 1 = job.fork)
        /\ \A k : k \in h .. Height(T) <=> k = h \/ k \in h + 1 .. Height(T)
    BY <2>1, <2>2, SMTT(30)
  <2>4. /\ Anc(T, h) \in Block /\ Anc(T, h) # Genesis /\ Parent(Anc(T, h)) = Anc(T, h - 1)
        /\ h \in Heights /\ Anc(Anc(T, h), h) = Anc(T, h)
    BY <2>2, <2>3, CursorStep, SMTT(30)
  <2>5. Applied = Anc(T, h)
    BY <2>1, <2>2 DEF Applied
  <2>6. o = Anc(T, h)
    <3>1. o # NoBlock
      BY <2>1, TreeAssumption DEF ChainInv, TypeOK
    <3> QED
      BY <2>1, <2>4, <2>5, <3>1 DEF ChainInv, IndexOK
  <2> HIDE DEF o, h
  <2>7. /\ job'.at = h - 1 /\ job'.fork = job.fork /\ job'.block = job.block
        /\ job'.pre_stats = job.pre_stats /\ job'.work = job.work
        /\ job'.pre_tip = job.pre_tip /\ job'.disconnected = job.disconnected \cup {o}
        /\ T' = T
    <3>1. job \in JobType /\ o # NoBlock
      BY <2>4, <2>6, TreeAssumption DEF ChainInv, TypeOK
    <3> QED
      BY <2>1, <3>1 DEF JobType, T
  <2>8. Applied' = Anc(T, h - 1)
    <3>1. CASE phase' = "disconnect"
      BY <2>2, <2>7, <3>1 DEF Applied
    <3>2. CASE phase' = "connect"
      BY <2>2, <2>3, <2>7, <3>2 DEF Applied
    <3> QED
      BY <2>3, <3>1, <3>2
  <2>9. \A a \in Branch(o) : SpendsOnce(a)
    <3>1. \A a \in Branch(T) : SpendsOnce(a)
      BY DEF ChainInv, NoDoubleSpend, T
    <3>2. \A k \in 0 .. h : Anc(o, k) = Anc(T, k) /\ k \in 0 .. Height(T)
      BY <2>2, <2>3, <2>6, AncAnc, SMTT(30)
    <3>3. Height(o) = h
      BY <2>2, <2>3, <2>6, AncType
    <3> QED
      BY <3>1, <3>2, <3>3 DEF Branch
  <2>10. /\ key_images' = SpentOn(Anc(T, h - 1)) /\ outputs' = OutputsOn(Anc(T, h - 1))
         /\ stealth_index' = OwnerOn(Anc(T, h - 1))
         /\ \A s \in Address : db_outputs'[s] = IF PayHeights(Parent(o), s) = {} /\ Pays(o, s)
                                                  THEN NoRow ELSE db_outputs[s]
    <3>1. U(o)
      BY <1>0, <2>1, <2>5, <2>6
    <3> QED
      BY <2>1, <2>4, <2>6, <2>9, <3>1, DisconnectsLedger DEF U
  <2>11. DisconnectedOK'
    <3>1. Floor = h /\ Floor' = h - 1
      BY <2>1, <2>3, <2>7 DEF Floor, h
    <3>2. job.disconnected = {Anc(T, k) : k \in h + 1 .. Height(T)} /\ job.disconnected \subseteq cache
      BY <2>1, <3>1 DEF LedgerInv, DisconnectedOK, MidReorg
    <3>3. job'.disconnected = {Anc(T, k) : k \in h .. Height(T)}
      BY <2>3, <2>6, <2>7, <3>2
    <3> QED
      BY <2>1, <2>3, <2>7, <3>1, <3>2, <3>3 DEF DisconnectedOK
  <2>12. RowBase = o /\ RowBase' = Parent(o) /\ o \in Block /\ o # Genesis
    <3>1. CASE phase' = "disconnect"
      BY <2>1, <2>4, <2>6, <2>7, <3>1 DEF RowBase, h
    <3>2. CASE phase' = "connect"
      BY <2>1, <2>3, <2>4, <2>6, <2>7, <3>2 DEF RowBase, h
    <3> QED
      BY <2>3, <3>1, <3>2
  <2>13. MidReorg /\ MidReorg' /\ Reorging'
    BY <2>1, <2>3 DEF MidReorg, Reorging
  <2>Ledger. LedgerInv'
    BY <2>8, <2>10, <2>11 DEF LedgerInv, UtxoMatchesChain
  <2>Stored. StoredOK => StoredOK'
    BY <1>StoredSame, <2>1, <2>7, <2>13
  <2>Rows. RowsOK => RowsOK'
    <3> SUFFICES ASSUME RowsOK, NEW s \in Unshared PROVE db_outputs'[s] = RowsOn(Parent(o))[s]
      BY <2>12 DEF RowsOK
    <3>1. s \in Address /\ db_outputs[s] = RowsOn(o)[s]
      BY <2>12 DEF RowsOK, Unshared
    <3>2. /\ PayHeights(Parent(o), s) # {} => RowsOn(o)[s] = RowsOn(Parent(o))[s]
          /\ PayHeights(Parent(o), s) = {} /\ ~Pays(o, s) => RowsOn(o)[s] = NoRow
      BY <2>12, <3>1, OwnerParent
    <3>3. PayHeights(Parent(o), s) = {} => RowsOn(Parent(o))[s] = NoRow
      BY <3>1 DEF RowsOn
    <3>4. CASE PayHeights(Parent(o), s) # {}
      BY <2>10, <3>1, <3>2, <3>4
    <3>5. CASE PayHeights(Parent(o), s) = {}
      <4>1. db_outputs'[s] = NoRow
        BY <2>10, <3>1, <3>2, <3>5
      <4> QED
        BY <3>3, <3>5, <4>1
    <3> QED
      BY <3>4, <3>5
  <2>Books. ASSUME BooksInv PROVE BooksInv'
    <3>1. stats = Stats(CumWork(T), CumSupply(o), CumBurn(o), Height(T) + 1)
      BY <2>1, <2>5, <2>6, <2>Books DEF BooksInv, StatsOK
    <3>2. CumWork(T) \in Int /\ Height(T) + 1 \in Int
      BY <1>T, SMTT(30)
    <3>3. Unminted(Stats(CumWork(T), CumSupply(o), CumBurn(o), Height(T) + 1), o)
            = Stats(CumWork(T), CumSupply(Parent(o)), CumBurn(Parent(o)), Height(T) + 1)
      BY <2>12, <3>2, MintsParent
    <3>4. Applied' = Parent(o)
      BY <2>4, <2>6, <2>8
    <3>5. StatsOK'
      BY <2>1, <2>3, <2>7, <2>Books, <3>1, <3>3, <3>4 DEF BooksInv, StatsOK
    <3> QED
      BY <1>DiskSame, <2>1, <2>Books, <3>5 DEF BooksInv
  <2>Choice. ASSUME ChoiceInv PROVE ChoiceInv'
    <3>1. RowsOnChain'
      <4> SUFFICES ASSUME NEW s \in Address, db_outputs'[s] # NoRow PROVE PayHeights(Parent(o), s) # {}
        BY <2>12 DEF RowsOnChain
      <4>1. db_outputs[s] # NoRow /\ (PayHeights(Parent(o), s) # {} \/ ~Pays(o, s))
        BY <2>10
      <4>2. PayHeights(o, s) # {}
        BY <2>12, <2>Choice, <4>1 DEF ChoiceInv, RowsOnChain
      <4>3. /\ Height(o) \in PayHeights(o, s) <=> Pays(o, s)
            /\ PayHeights(Parent(o), s) = PayHeights(o, s) \ {Height(o)}
        BY <2>12, PayHeightsParent
      <4> QED
        BY <4>1, <4>2, <4>3
    <3>2. phase' = "connect" => AcceptableChain(Anc(job.block, h - 1))
      <4>1. Parent(o) \in Branch(T)
        <5>1. h - 1 \in 0 .. Height(T)
          BY <2>2, <2>3, SMTT(30)
        <5> QED
          BY <2>4, <2>6, <5>1 DEF Branch
      <4>2. AcceptableChain(Parent(o))
        BY <1>T, <2>Choice, <4>1, AcceptableBelow DEF ChoiceInv
      <4> QED
        BY <2>2, <2>3, <2>4, <2>6, <4>2
    <3> QED
      BY <2>1, <2>3, <2>7, <2>13, <2>Choice, <3>1, <3>2 DEF ChoiceInv
  <2>Wind. WindowInv => WindowInv'
    <3>1. Reach = h /\ Reach' = h - 1
      BY <2>1, <2>3, <2>7 DEF Reach, h
    <3>2. \A k \in 1 .. h - 1 : k \in 1 .. h /\ k # h /\ k \in Heights
      BY <2>2, <2>4, TreeAssumption, SMTT(30) DEF Heights
    <3>3. \A k \in 1 .. h - 1 : height_to_hash'[k] = height_to_hash[k]
      BY <2>1, <3>2 DEF ChainInv, TypeOK
    <3>4. WindowInv => job.block \in cache
      BY <2>13 DEF WindowInv
    <3> QED
      <4>1. phase = "disconnect" /\ cache' = cache /\ tip'.hash = T /\ tip.hash = T
        BY <1>T, <2>1
      <4>2. WindowInv => job'.block \in cache'
        BY <2>7, <3>4, <4>1
      <4> QED
        BY <1>T, <1>Window, <3>1, <3>2, <3>3, <4>1, <4>2
  <2> QED
    BY <2>Ledger, <2>Stored, <2>Rows, <2>Books, <2>Choice, <2>Wind DEF Kept
\* Each fork block is connected to the one below it; the last becomes the tip.
<1>Connect. ASSUME ConnectFork \/ AdoptTip
            PROVE  Kept
  <2> DEFINE n == NextForkBlock
  <2>1. /\ phase = "connect" /\ Reorging /\ MidReorg /\ UtxoConnect(n) /\ ValidInReorg(n)
        /\ UNCHANGED <<cache, db_blocks, db_heights, db_state, db_outputs, db_txs>>
        /\ n \in Block /\ n # Genesis /\ Parent(n) = Anc(job.block, job.at) /\ Height(n) = job.at + 1
    <3>1. /\ phase = "connect" /\ UtxoConnect(n) /\ ValidInReorg(n)
          /\ UNCHANGED <<cache, db_blocks, db_heights, db_state, db_outputs, db_txs>>
      BY <1>Connect DEF ConnectFork, AdoptTip, disk
    <3> QED
      BY <3>1, NextForkFacts DEF MidReorg
  <2>2. /\ job'.fork = job.fork /\ job'.disconnected = job.disconnected /\ job'.block = job.block
        /\ job'.work = job.work /\ job'.pre_stats = job.pre_stats
        /\ phase' \in {"connect", "commit_reorg"} /\ Applied' = n /\ T' = T
        /\ phase' = "connect" => job'.at = job.at + 1 /\ tip' = tip /\ stats' = Minted(stats, n)
        /\ phase' = "commit_reorg" =>
             /\ n = job.block /\ tip'.hash = n /\ tip'.height = job.at + 1
             /\ stats' = [Minted(stats, n) EXCEPT
                            !.total_difficulty = job.work,
                            !.total_blocks = @ - Cardinality(job.disconnected \cap cache)
                                               + (Height(n) - job.fork)]
        /\ height_to_hash' = [height_to_hash EXCEPT ![job.at + 1] = n]
    <3>1. CASE ConnectFork
      <4>1. job \in JobType /\ job.at + 1 \in Heights
        BY <2>1, NextForkFacts DEF ChainInv, TypeOK
      <4>2. /\ job' = [job EXCEPT !.at = @ + 1] /\ phase' = "connect" /\ db_state' = db_state
            /\ tip' = tip /\ stats' = Minted(stats, n)
            /\ height_to_hash' = [height_to_hash EXCEPT ![job.at + 1] = n]
        BY <2>1, <3>1 DEF ConnectFork
      <4>3. /\ job'.fork = job.fork /\ job'.disconnected = job.disconnected
            /\ job'.at = job.at + 1 /\ job'.block = job.block
            /\ job'.work = job.work /\ job'.pre_stats = job.pre_stats
        BY <4>1, <4>2 DEF JobType
      <4>4. Applied' = n
        BY <4>2, <4>3 DEF Applied, NextForkBlock
      <4> QED
        BY <4>2, <4>3, <4>4 DEF T
    <3>2. CASE AdoptTip
      <4>1. /\ n = job.block /\ tip' = Tip(n, Height(n)) /\ phase' = "commit_reorg" /\ job' = job
            /\ stats' = [Minted(stats, n) EXCEPT
                           !.total_difficulty = job.work,
                           !.total_blocks = @ - Cardinality(job.disconnected \cap cache)
                                              + (Height(n) - job.fork)]
            /\ height_to_hash' = [height_to_hash EXCEPT ![Height(n)] = n]
        BY <3>2 DEF AdoptTip
      <4>2. tip'.hash = n /\ tip'.height = job.at + 1 /\ Applied' = n
        BY <2>1, <4>1 DEF Tip, Applied
      <4> HIDE DEF n
      <4> QED
        BY <2>1, <4>1, <4>2 DEF T
    <3> QED
      BY <1>Connect, <3>1, <3>2
  <2>0. Applied = Parent(n)
    BY <2>1 DEF Applied
  <2>3. key_images' = SpentOn(n) /\ outputs' = OutputsOn(n) /\ stealth_index' = OwnerOn(n)
    <3>1. U(Parent(n))
      BY <1>0, <2>0, <2>1
    <3> HIDE DEF n
    <3> QED
      <4>1. /\ n \in Block /\ n # Genesis /\ UtxoConnect(n)
            /\ key_images = SpentOn(Parent(n)) /\ outputs = OutputsOn(Parent(n))
            /\ stealth_index = OwnerOn(Parent(n))
        BY <2>1, <3>1 DEF U
      <4> QED
        BY <4>1, ConnectsLedger
  <2>4. DisconnectedOK'
    BY <2>1, <2>2 DEF LedgerInv, DisconnectedOK, MidReorg, Reorging, Floor
  <2> HIDE DEF n
  <2>5. /\ job.block \in Block /\ job.fork \in Nat /\ job.at \in Nat /\ job.fork <= job.at
        /\ job.fork <= Height(T) /\ job.at + 1 <= Height(job.block)
        /\ job.disconnected = {Anc(T, h) : h \in job.fork + 1 .. Height(T)}
        /\ job.disconnected \subseteq cache
        /\ \A h \in 0 .. job.fork : Anc(job.block, h) = Anc(T, h)
    BY <2>1, ReorgFacts, NextForkFacts DEF LedgerInv, DisconnectedOK, Floor
  <2>6. MidReorg' /\ (phase' # "connect" => ~Reorging')
    BY <2>2 DEF MidReorg, Reorging
  <2>Ledger. LedgerInv'
    BY <2>2, <2>3, <2>4 DEF LedgerInv, UtxoMatchesChain
  <2>Stored. StoredOK => StoredOK'
    BY <1>StoredSame, <2>1, <2>2
  <2>base. RowBase = Anc(T, job.fork) /\ RowBase' = Anc(T, job.fork)
    BY <2>1, <2>2 DEF RowBase
  <2>Rows. (RowsOK => RowsOK') /\ (RowsOnChain => RowsOnChain')
    BY <1>RowsSame, <2>1, <2>base
  <2>Books. ASSUME BooksInv PROVE BooksInv'
    <3> DEFINE m == Minted(stats, n)
    <3>1. stats = Stats(CumWork(T), CumSupply(Parent(n)), CumBurn(Parent(n)), Height(T) + 1)
      BY <2>0, <2>1, <2>Books DEF BooksInv, StatsOK
    <3>2. CumWork(T) \in Int /\ Height(T) + 1 \in Int
      BY <1>T, SMTT(30)
    <3>3. m = Stats(CumWork(T), CumSupply(n), CumBurn(n), Height(T) + 1)
      BY <2>1, <3>1, <3>2, MintsParent
    <3>4. phase' = "commit_reorg" => stats' = StatsOf(n)
      <4>1. SUFFICES ASSUME phase' = "commit_reorg" PROVE stats' = StatsOf(n)
        OBVIOUS
      <4>2. stats' = [m EXCEPT !.total_difficulty = job.work,
                               !.total_blocks = @ - Cardinality(job.disconnected \cap cache)
                                                  + (Height(n) - job.fork)]
        BY <2>2, <4>1
      <4>3. job.work = CumWork(n)
        BY <2>1, <2>2, <2>Books, <4>1 DEF BooksInv, StatsOK
      <4>4. Cardinality(job.disconnected \cap cache) = Height(T) - job.fork
        <5>1. job.disconnected \cap cache = {Anc(T, h) : h \in job.fork + 1 .. Height(T)}
          BY <2>5
        <5> QED
          BY <1>T, <2>5, <5>1, BlocksAbove
      <4> HIDE DEF m
      <4>5. m \in StatsType
        <5>1. CumSupply(n) \in Int /\ CumBurn(n) \in Int
          BY <2>1, SumsType
        <5> QED
          BY <3>2, <3>3, <5>1 DEF Stats, StatsType
      <4>6. /\ m.total_blocks = Height(T) + 1
            /\ m.total_supply = CumSupply(n) /\ m.total_burned = CumBurn(n)
        BY <3>3 DEF Stats
      <4>7. /\ (Height(T) + 1) - (Height(T) - job.fork) + (Height(n) - job.fork) = Height(n) + 1
            /\ Height(n) + 1 \in Int
        BY <1>T, <2>1, <2>5, SMTT(30)
      <4>8. stats' = [m EXCEPT !.total_difficulty = CumWork(n), !.total_blocks = Height(n) + 1]
        BY <4>2, <4>3, <4>4, <4>6, <4>7
      <4>9. [m EXCEPT !.total_difficulty = CumWork(n), !.total_blocks = Height(n) + 1]
              = Stats(CumWork(n), m.total_supply, m.total_burned, Height(n) + 1)
        BY <2>1, <4>5, <4>7, SumsType, StatsOfTip
      <4> QED
        BY <4>6, <4>8, <4>9 DEF StatsOf
    <3>5. phase' = "connect" =>
            stats' = Stats(CumWork(T), CumSupply(Applied'), CumBurn(Applied'), Height(T) + 1)
      BY <2>2, <3>3
    <3>6. job.pre_stats = StatsOf(T) /\ job.work = CumWork(job.block)
      BY <2>1, <2>Books DEF BooksInv, StatsOK
    <3>7. StatsOK'
      BY <2>2, <2>6, <3>4, <3>5, <3>6 DEF StatsOK
    <3> QED
      BY <1>DiskSame, <2>1, <2>Books, <3>7 DEF BooksInv
  <2>Choice. ASSUME ChoiceInv PROVE ChoiceInv'
    <3>1. \A s \in Address : db_outputs[s] # NoRow => PayHeights(Parent(n), s) # {}
      BY <2>1, <2>Choice, ConnectRows DEF ChoiceInv, n
    <3>2. AcceptableChain(n)
      <4>1. NoDuplicateKeyImages(n)
        <5>1. job.at + 1 \in job.fork + 1 .. Height(job.block)
          BY <2>5, HeightType, SMTT(30)
        <5> QED
          BY <2>1, <5>1 DEF ChainInv, JobOK, n, NextForkBlock
      <4>2. AcceptableChain(Parent(n))
        BY <2>1, <2>Choice DEF ChoiceInv
      <4>3. U(Parent(n))
        BY <1>0, <2>0, <2>1
      <4> QED
        BY <2>1, <3>1, <4>1, <4>2, <4>3, ValidIsAcceptable DEF U, ValidInReorg
    <3>3. phase' = "connect" => Anc(job'.block, job'.at) = n
      BY <2>2 DEF n, NextForkBlock
    <3> QED
      BY <2>1, <2>2, <2>6, <2>Rows, <2>Choice, <3>2, <3>3 DEF ChoiceInv
  <2>Wind. ASSUME ChoiceInv, WindowInv PROVE WindowInv'
    <3>1. Reach = job.at /\ Reach' = job.at + 1
      BY <2>1, <2>2 DEF Reach
    <3>2. /\ \A k \in 1 .. job.at + 1 : k \in Heights /\ (k # job.at + 1 => k \in 1 .. job.at)
          /\ job.at + 1 \in Heights /\ job.fork < job.at + 1
      <4>1. job.at + 1 \in Heights
        BY <2>1, NextForkFacts
      <4>2. job.at \in Nat /\ job.fork \in Nat /\ job.fork <= job.at /\ MaxHeight \in Nat
        BY <2>5, TreeAssumption
      <4>3. job.at + 1 <= MaxHeight
        BY <4>1, <4>2, SMTT(30) DEF Heights
      <4> QED
        BY <4>1, <4>2, <4>3, SMTT(30) DEF Heights
    <3>3. \A k \in Heights : height_to_hash'[k] = IF k = job.at + 1 THEN n ELSE height_to_hash[k]
      <4>1. height_to_hash \in [Heights -> Block \cup {NoBlock}]
        BY DEF ChainInv, TypeOK
      <4> QED
        BY <2>2, <4>1
    <3>4. height_to_hash[job.at] # NoBlock => height_to_hash[job.at] \in cache
      <4>1. job.at \in 0 .. Height(job.block) /\ job.at \in Heights
        BY <2>1, <2>5, ReorgFacts, HeightType, SMTT(30)
      <4>2. Anc(Parent(n), job.at) = Parent(n)
        BY <2>1, <2>5, <4>1, AncType, AncSelf
      <4>3. height_to_hash[job.at] # NoBlock => height_to_hash[job.at] = Anc(Applied, job.at)
        BY <2>1, <4>1 DEF ChainInv, IndexOK
      <4>4. Parent(n) \in cache
        BY <2>1 DEF ValidInReorg
      <4> QED
        BY <2>0, <4>2, <4>3, <4>4
    <3>5. /\ tip.hash = T /\ tip'.hash \in Block /\ CumWork(T) <= CumWork(tip'.hash)
      <4>1. tip.hash = T
        BY <1>T, <2>1
      <4>2. phase' = "connect" => tip'.hash = T
        BY <2>2, <4>1
      <4>3. phase' = "commit_reorg" => tip'.hash = n /\ Better(n, T)
        BY <2>1, <2>2, <2>Wind DEF ChoiceInv
      <4>4. Better(n, T) => CumWork(T) <= CumWork(n)
        BY <1>T, <2>1, SumsType, SMTT(30) DEF Better, TakeFork
      <4> QED
        BY <1>T, <2>1, <2>2, <4>1, <4>2, <4>3, <4>4
    <3>6. job.block \in cache /\ job'.block \in cache' /\ cache' = cache /\ n # NoBlock
      BY <2>1, <2>2, <2>Wind, TreeAssumption DEF WindowInv
    <3>7. ASSUME NEW k \in 1 .. Reach'
          PROVE  \/ /\ k \in 1 .. Reach /\ height_to_hash'[k] = height_to_hash[k]
                    /\ phase = "connect" /\ k = job.at /\ job.fork < k /\ height_to_hash[k] # NoBlock
                         => height_to_hash[k] \in cache
                 \/ /\ height_to_hash'[k] # NoBlock
                    /\ height_to_hash'[k] \in cache \/ (phase' = "connect" /\ k = job'.at /\ job'.fork < k)
      <4>1. CASE k = job.at + 1
        <5>1. height_to_hash'[k] = n
          BY <3>2, <3>3, <4>1
        <5>2. phase' = "connect" => k = job'.at /\ job'.fork < k
          BY <2>2, <3>2, <4>1
        <5>3. phase' = "commit_reorg" => n \in cache
          BY <2>2, <3>6
        <5> QED
          BY <2>2, <3>6, <5>1, <5>2, <5>3
      <4>2. CASE k # job.at + 1
        BY <3>1, <3>2, <3>3, <3>4, <4>2
      <4> QED
        BY <4>1, <4>2
    <3> QED
      BY <1>T, <1>Window, <2>1, <2>Wind, <3>5, <3>6, <3>7
  <2> QED
    BY <2>Ledger, <2>Stored, <2>Rows, <2>Books, <2>Choice, <2>Wind DEF Kept
\* A failed reorg turns round where it stands ...
<1>BeginUndo. ASSUME ConnectFails \/ RecheckFails
              PROVE  Kept
  <2>1. /\ phase = "connect" /\ Reorging
        /\ phase' = IF job.at > job.fork THEN "undo" ELSE "reapply"
        /\ UNCHANGED <<cache, tip, outputs, stealth_index, key_images, height_to_hash, job>>
        /\ UNCHANGED <<db_blocks, db_heights, db_state, db_outputs, db_txs>>
    BY <1>BeginUndo DEF ConnectFails, RecheckFails, BeginUndo, Reorging, memory, utxos, disk
  <2>2. /\ job.pre_tip.hash = T /\ job.fork \in Nat /\ job.at \in Nat /\ job.fork <= job.at
        /\ \A h \in 0 .. job.fork : Anc(job.block, h) = Anc(T, h)
    BY <2>1, ReorgFacts
  <2>3. /\ phase' \in {"undo", "reapply"} /\ (phase' = "reapply" => job.at = job.fork)
        /\ job.fork \in 0 .. job.fork
    BY <2>1, <2>2, SMTT(30)
  <2>4. Applied' = Applied
    <3>1. Applied = Anc(job.block, job.at)
      BY <2>1 DEF Applied
    <3>2. CASE phase' = "undo"
      BY <2>1, <3>1, <3>2 DEF Applied
    <3>3. CASE phase' = "reapply"
      <4>1. Applied' = Anc(T, job.fork)
        BY <2>1, <2>2, <2>3, <3>3 DEF Applied
      <4> QED
        BY <2>2, <2>3, <3>1, <3>3, <4>1
    <3> QED
      BY <2>3, <3>2, <3>3
  <2>5. DisconnectedOK'
    BY <2>1, <2>3 DEF LedgerInv, DisconnectedOK, MidReorg, Reorging, Floor, T
  <2>6. /\ MidReorg /\ MidReorg' /\ Reorging' /\ T' = T
        /\ RowBase = Anc(T, job.fork) /\ RowBase' = Anc(T, job.fork)
        /\ Reach = job.at /\ Reach' = job.fork
    BY <2>1, <2>3 DEF MidReorg, Reorging, T, RowBase, Reach
  <2>Ledger. LedgerInv'
    BY <1>0, <2>1, <2>4, <2>5 DEF LedgerInv, UtxoMatchesChain, U
  <2>Stored. StoredOK => StoredOK'
    BY <1>StoredSame, <2>1, <2>6
  <2>Rows. (RowsOK => RowsOK') /\ (RowsOnChain => RowsOnChain')
    BY <1>RowsSame, <2>1, <2>6
  <2>Books. BooksInv => BooksInv'
    <3>1. StatsOK => StatsOK'
      BY <2>1, <2>3, <2>6 DEF StatsOK
    <3> QED
      BY <1>DiskSame, <2>1, <3>1 DEF BooksInv
  <2>Choice. ChoiceInv => ChoiceInv'
    BY <2>1, <2>3, <2>6, <2>Rows DEF ChoiceInv
  <2>Wind. WindowInv => WindowInv'
    <3>1. \A k \in 1 .. job.fork : k \in 1 .. job.at /\ ~(job.fork < k)
      BY <2>2, SMTT(30)
    <3>2. WindowInv => job.block \in cache
      BY <2>6 DEF WindowInv
    <3> QED
      BY <1>T, <1>Window, <2>1, <2>6, <3>1, <3>2
  <2> QED
    BY <2>Ledger, <2>Stored, <2>Rows, <2>Books, <2>Choice, <2>Wind DEF Kept
\* ... takes back the fork blocks ...
<1>Undo. ASSUME Undo
         PROVE  Kept
  <2> DEFINE h == job.at
             b == job.block
             n == Anc(b, h)
  <2>1. /\ phase = "undo" /\ Reorging /\ UtxoDisconnect(n)
        /\ job' = [job EXCEPT !.at = h - 1]
        /\ phase' = IF h - 1 > job.fork THEN "undo" ELSE "reapply"
        /\ height_to_hash' = [height_to_hash EXCEPT ![h] = NoBlock]
        /\ UNCHANGED <<cache, tip, db_blocks, db_heights, db_state, db_txs>>
    BY <1>Undo DEF Undo, Reorging
  <2>2. /\ b \in Block /\ job.pre_tip.hash = T /\ h \in Nat /\ job.fork \in Nat /\ Height(b) \in Nat
        /\ job.fork < h /\ h < Height(b) /\ h \in Heights
        /\ \A k \in 0 .. job.fork : Anc(b, k) = Anc(T, k)
    BY <2>1, ReorgFacts DEF ChainInv, JobOK
  <2>3. /\ h - 1 \in Nat /\ h - 1 < Height(b) /\ (h - 1) + 1 = h /\ job.fork \in 0 .. job.fork
        /\ phase' \in {"undo", "reapply"} /\ (phase' = "reapply" => h - 1 = job.fork)
    BY <2>1, <2>2, SMTT(30)
  <2>4. n \in Block /\ n # Genesis /\ Parent(n) = Anc(b, h - 1) /\ h - 1 \in Heights
    <3>1. /\ Anc(b, (h - 1) + 1) \in Block /\ Anc(b, (h - 1) + 1) # Genesis
          /\ Parent(Anc(b, (h - 1) + 1)) = Anc(b, h - 1) /\ h - 1 \in Heights
      <4>1. b \in Block /\ h - 1 \in Nat /\ h - 1 < Height(b)
        BY <2>2, <2>3
      <4> QED
        BY <4>1, CursorStep
    <3> QED
      BY <2>3, <3>1
  <2>5. /\ job'.at = h - 1 /\ job'.fork = job.fork /\ job'.block = b
        /\ job'.pre_stats = job.pre_stats /\ job'.work = job.work
        /\ job'.pre_tip = job.pre_tip /\ job'.disconnected = job.disconnected /\ T' = T
    <3>1. job \in JobType
      BY DEF ChainInv, TypeOK
    <3> QED
      BY <2>1, <2>4, <3>1 DEF JobType, T
  <2>6. Applied' = Anc(b, h - 1)
    <3>1. CASE phase' = "undo"
      BY <2>5, <3>1 DEF Applied
    <3>2. CASE phase' = "reapply"
      BY <2>2, <2>3, <2>5, <3>2 DEF Applied
    <3> QED
      BY <2>3, <3>1, <3>2
  <2>7. /\ key_images' = SpentOn(Anc(b, h - 1)) /\ outputs' = OutputsOn(Anc(b, h - 1))
        /\ stealth_index' = OwnerOn(Anc(b, h - 1))
        /\ \A s \in Address : db_outputs'[s] = IF PayHeights(Parent(n), s) = {} /\ Pays(n, s)
                                                 THEN NoRow ELSE db_outputs[s]
    <3>1. U(n)
      BY <1>0, <2>1 DEF Applied
    <3>2. \A a \in Branch(n) : SpendsOnce(a)
      BY <2>1, CursorSpent
    <3> HIDE DEF n
    <3> QED
      BY <2>1, <2>4, <3>1, <3>2, DisconnectsLedger DEF U
  <2>8. DisconnectedOK'
    BY <2>1, <2>3, <2>5 DEF LedgerInv, DisconnectedOK, MidReorg, Reorging, Floor
  <2>9. /\ MidReorg /\ MidReorg' /\ Reorging'
        /\ RowBase = Anc(T, job.fork) /\ RowBase' = Anc(T, job.fork)
    <3>1. CASE phase' = "undo"
      BY <2>1, <2>5, <3>1 DEF MidReorg, Reorging, RowBase
    <3>2. CASE phase' = "reapply"
      BY <2>1, <2>3, <2>5, <3>2 DEF MidReorg, Reorging, RowBase
    <3> QED
      BY <2>3, <3>1, <3>2
  <2>10. Anc(T, job.fork) \in Branch(Parent(n)) /\ Anc(b, h - 1) \in Branch(n) /\ Parent(n) \in Block
    <3>1. /\ job.fork \in 0 .. job.fork /\ job.fork \in 0 .. h - 1 /\ h - 1 \in 0 .. Height(b)
          /\ h - 1 \in 0 .. h /\ h \in 0 .. Height(b)
      BY <2>2, <2>3, SMTT(30)
    <3>2. Parent(n) \in Block /\ Height(Parent(n)) = h - 1 /\ Height(n) = h
      BY <2>2, <2>4, <3>1, AncType
    <3>3. Anc(Parent(n), job.fork) = Anc(T, job.fork) /\ Anc(n, h - 1) = Anc(b, h - 1)
      BY <2>2, <2>4, <3>1, AncAnc
    <3> QED
      BY <3>1, <3>2, <3>3 DEF Branch
  <2> HIDE DEF n
  <2>Ledger. LedgerInv'
    BY <2>6, <2>7, <2>8 DEF LedgerInv, UtxoMatchesChain
  <2>Stored. StoredOK => StoredOK'
    BY <1>StoredSame, <2>1, <2>5, <2>9
\* The rows are those of the chain below the fork, and none of them is the fork block's.
  <2>Rows. RowsOK => RowsOK'
    <3> SUFFICES ASSUME RowsOK, NEW s \in Unshared PROVE db_outputs'[s] = RowsOn(Anc(T, job.fork))[s]
      BY <2>9 DEF RowsOK
    <3>1. s \in Address /\ db_outputs[s] = RowsOn(Anc(T, job.fork))[s]
      BY <2>9 DEF RowsOK, Unshared
    <3>2. CASE PayHeights(Parent(n), s) = {}
      <4>1. PayHeights(Anc(T, job.fork), s) = {}
        BY <2>10, <3>2, PaidAbove
      <4>2. RowsOn(Anc(T, job.fork))[s] = NoRow
        BY <3>1, <4>1 DEF RowsOn
      <4> QED
        BY <2>7, <3>1, <4>2
    <3>3. CASE PayHeights(Parent(n), s) # {}
      BY <2>7, <3>1, <3>3
    <3> QED
      BY <3>2, <3>3
  <2>Books. BooksInv => BooksInv'
    <3>1. StatsOK => StatsOK'
      BY <2>1, <2>3, <2>5, <2>9 DEF StatsOK
    <3> QED
      BY <1>DiskSame, <2>1, <3>1 DEF BooksInv
  <2>Choice. ASSUME ChoiceInv PROVE ChoiceInv'
    <3>1. RowsOnChain'
      <4> SUFFICES ASSUME NEW s \in Address, db_outputs'[s] # NoRow PROVE PayHeights(Anc(T, job.fork), s) # {}
        BY <2>9 DEF RowsOnChain
      <4>1. db_outputs[s] # NoRow
        BY <2>7
      <4> QED
        BY <2>9, <2>Choice, <4>1 DEF ChoiceInv, RowsOnChain
    <3>2. AcceptableChain(Anc(b, h - 1))
      <4>1. AcceptableChain(n)
        BY <2>1, <2>Choice DEF ChoiceInv, n
      <4> QED
        BY <2>4, <2>10, <4>1, AcceptableBelow
    <3> QED
      BY <2>3, <2>5, <2>9, <2>Choice, <3>1, <3>2 DEF ChoiceInv
  <2>Wind. WindowInv => WindowInv'
    <3>1. Reach = job.fork /\ Reach' = job.fork
      BY <2>1, <2>3, <2>5 DEF Reach
    <3>2. \A k \in 1 .. job.fork : k # h /\ k \in Heights
      BY <2>2, TreeAssumption, SMTT(30) DEF Heights
    <3>3. \A k \in 1 .. job.fork : height_to_hash'[k] = height_to_hash[k]
      BY <2>1, <3>2 DEF ChainInv, TypeOK
    <3>4. phase = "undo" /\ cache' = cache /\ tip'.hash = T /\ tip.hash = T
      BY <1>T, <2>1
    <3>5. WindowInv => job.block \in cache
      BY <2>9 DEF WindowInv
    <3>6. WindowInv => job'.block \in cache'
      BY <2>5, <3>4, <3>5
    <3> QED
      BY <1>T, <1>Window, <3>1, <3>3, <3>4, <3>6
  <2> QED
    BY <2>Ledger, <2>Stored, <2>Rows, <2>Books, <2>Choice, <2>Wind DEF Kept
\* ... connects the old ones again, each on the one below it ...
<1>Reapply. ASSUME Reapply
            PROVE  Kept
  <2>1. PICK o \in Remaining :
          /\ \A p \in Remaining : Height(o) <= Height(p)
          /\ height_to_hash' = [height_to_hash EXCEPT ![Height(o)] = o]
          /\ o \in cache => UtxoConnect(o) /\ db_outputs' = PersistOutputs(db_outputs, o)
          /\ job' = [job EXCEPT !.at = Height(o)]
    BY <1>Reapply DEF Reapply, RestoredRows
  <2>2. phase = "reapply" /\ phase' = "reapply" /\ Reorging /\ MidReorg /\ MidReorg' /\ Reorging'
        /\ UNCHANGED <<cache, tip, db_blocks, db_heights, db_state, db_txs>>
    BY <1>Reapply DEF Reapply, Reorging, MidReorg
  <2>3. /\ T \in Block /\ job.pre_tip.hash = T /\ Height(T) \in Nat
        /\ job.at \in Nat /\ job.fork \in Nat /\ job.fork <= job.at /\ job.at <= Height(T)
        /\ job.disconnected = {Anc(T, h) : h \in job.fork + 1 .. Height(T)}
        /\ job.disconnected \subseteq cache
    BY <2>2, ReorgFacts DEF ChainInv, JobOK, LedgerInv, DisconnectedOK, MidReorg, Floor
  <2>4. /\ o \in job.disconnected /\ Height(o) > job.at /\ o \in Block /\ Height(o) \in Nat
        /\ Height(o) <= Height(T) /\ o = Anc(T, Height(o)) /\ Height(o) \in Heights
    <3>1. o \in job.disconnected /\ Height(o) > job.at
      BY DEF Remaining
    <3>2. o \in Branch(T)
      BY <2>2, <3>1, ReorgFacts
    <3> QED
      BY <2>3, <3>1, <3>2, BranchBlocks, HeightType
  <2>5. job.at + 1 \in job.fork + 1 .. Height(T) /\ job.at < Height(T)
    BY <2>3, <2>4, SMTT(30)
  <2>6. /\ Anc(T, job.at + 1) # Genesis /\ Height(Anc(T, job.at + 1)) = job.at + 1
        /\ Parent(Anc(T, job.at + 1)) = Anc(T, job.at)
    <3>1. T \in Block /\ job.at \in Nat /\ job.at < Height(T)
      BY <2>3, <2>5
    <3> QED
      BY <3>1, CursorStep
  <2>7. o = Anc(T, job.at + 1)
    <3>1. job.at + 1 > job.at
      BY <2>3, SMTT(30)
    <3>2. Anc(T, job.at + 1) \in Remaining
      BY <2>3, <2>5, <2>6, <3>1 DEF Remaining
    <3>3. Height(o) <= job.at + 1
      BY <2>1, <2>6, <3>2
    <3>4. Height(o) = job.at + 1
      BY <2>3, <2>4, <3>3, SMTT(30)
    <3> QED
      BY <2>4, <3>4
  <2>8. /\ job'.at = Height(o) /\ job'.fork = job.fork /\ job'.pre_tip = job.pre_tip
        /\ job'.disconnected = job.disconnected /\ T' = T /\ job'.block = job.block
        /\ job'.pre_stats = job.pre_stats /\ job'.work = job.work
    <3>1. job \in JobType
      BY DEF ChainInv, TypeOK
    <3> QED
      BY <2>1, <2>2, <2>4, <3>1 DEF JobType, T
  <2>9. Applied = Parent(o) /\ Applied' = o
    BY <2>2, <2>3, <2>4, <2>6, <2>7, <2>8 DEF Applied
  <2>10. key_images' = SpentOn(o) /\ outputs' = OutputsOn(o) /\ stealth_index' = OwnerOn(o)
    <3>1. U(Parent(o)) /\ UtxoConnect(o) /\ o # Genesis
      BY <1>0, <2>1, <2>2, <2>3, <2>4, <2>6, <2>7, <2>9
    <3> QED
      BY <2>4, <3>1, ConnectsLedger DEF U
  <2>11. DisconnectedOK'
    BY <2>2, <2>8 DEF LedgerInv, DisconnectedOK, MidReorg, Reorging, Floor
  <2>12. RowBase = Parent(o) /\ RowBase' = o /\ o # Genesis
    BY <2>2, <2>4, <2>6, <2>7, <2>8 DEF RowBase
  <2>13. db_outputs' = PersistOutputs(db_outputs, o) /\ o \in cache
    BY <2>1, <2>3, <2>4
  <2>Ledger. LedgerInv'
    BY <2>9, <2>10, <2>11 DEF LedgerInv, UtxoMatchesChain
  <2>Stored. StoredOK => StoredOK'
    BY <1>StoredSame, <2>2, <2>8
  <2>Rows. RowsOK => RowsOK'
    <3> SUFFICES ASSUME RowsOK, NEW s \in Unshared PROVE db_outputs'[s] = RowsOn(o)[s]
      BY <2>12 DEF RowsOK
    <3>1. s \in Address /\ db_outputs[s] = RowsOn(Parent(o))[s]
      BY <2>12 DEF RowsOK, Unshared
    <3> QED
      BY <2>4, <2>12, <2>13, <3>1, PersistsRow
  <2>Books. BooksInv => BooksInv'
    <3>1. StatsOK => StatsOK'
      BY <2>2, <2>8 DEF StatsOK
    <3> QED
      BY <1>DiskSame, <2>2, <3>1 DEF BooksInv
  <2>Choice. ASSUME ChoiceInv PROVE ChoiceInv'
    <3>1. RowsOnChain'
      <4> SUFFICES ASSUME NEW s \in Address, db_outputs'[s] # NoRow PROVE PayHeights(o, s) # {}
        BY <2>12 DEF RowsOnChain
      <4>1. db_outputs'[s] = IF db_outputs[s] = NoRow /\ Pays(o, s)
                               THEN Row(PaidBy(o, s), Height(o)) ELSE db_outputs[s]
        BY <2>13 DEF PersistOutputs
      <4>2. Pays(o, s) \/ PayHeights(Parent(o), s) # {}
        BY <2>12, <2>Choice, <4>1 DEF ChoiceInv, RowsOnChain
      <4> QED
        BY <2>4, <2>12, <4>2, PayHeightsParent
    <3> QED
      BY <2>2, <2>8, <2>Choice, <3>1 DEF ChoiceInv
  <2>Wind. WindowInv => WindowInv'
    <3>1. Reach = job.at /\ Reach' = Height(o)
      BY <2>2, <2>8 DEF Reach
    <3>2. \A k \in 1 .. Height(o) : k \in Heights /\ (k # Height(o) => k \in 1 .. job.at)
      <4>1. Height(o) = job.at + 1 /\ Height(o) \in Heights /\ job.at \in Nat /\ MaxHeight \in Nat
        BY <2>3, <2>4, <2>6, <2>7, TreeAssumption
      <4> QED
        BY <4>1, SMTT(30) DEF Heights
    <3>3. \A k \in Heights : height_to_hash'[k] = IF k = Height(o) THEN o ELSE height_to_hash[k]
      <4>1. height_to_hash \in [Heights -> Block \cup {NoBlock}]
        BY DEF ChainInv, TypeOK
      <4> QED
        BY <2>1, <4>1
    <3>4. tip.hash = T /\ tip'.hash = T /\ o # NoBlock /\ (WindowInv => job'.block \in cache')
      BY <1>T, <2>2, <2>4, <2>8, TreeAssumption DEF WindowInv
    <3>5. ASSUME NEW k \in 1 .. Reach'
          PROVE  \/ k \in 1 .. Reach /\ height_to_hash'[k] = height_to_hash[k]
                 \/ height_to_hash'[k] # NoBlock /\ height_to_hash'[k] \in cache
      <4>1. k \in 1 .. Height(o) /\ k \in Heights
        BY <3>1, <3>2
      <4>2. CASE k = Height(o)
        BY <2>13, <3>3, <3>4, <4>1, <4>2
      <4>3. CASE k # Height(o)
        BY <3>1, <3>2, <3>3, <4>1, <4>3
      <4> QED
        BY <4>2, <4>3
    <3> QED
      BY <1>T, <1>Window, <2>2, <3>4, <3>5
  <2> QED
    BY <2>Ledger, <2>Stored, <2>Rows, <2>Books, <2>Choice, <2>Wind DEF Kept
\* ... and ends at the old tip.
<1>RestoreTip. ASSUME RestoreTip
               PROVE  Kept
  <2>1. /\ phase = "reapply" /\ Reorging /\ Remaining = {} /\ tip' = job.pre_tip /\ phase' = "idle"
        /\ stats' = job.pre_stats
        /\ UNCHANGED <<outputs, stealth_index, key_images, cache, height_to_hash>>
        /\ UNCHANGED <<db_blocks, db_heights, db_state, db_outputs, db_txs>>
    BY <1>RestoreTip DEF RestoreTip, Reorging, utxos, disk
  <2>2. /\ T \in Block /\ job.pre_tip = Tip(T, Height(T)) /\ Height(T) \in Nat
        /\ job.at \in Nat /\ job.fork \in Nat /\ job.fork <= job.at /\ job.at <= Height(T)
        /\ job.disconnected = {Anc(T, h) : h \in job.fork + 1 .. Height(T)}
    BY <2>1, ReorgFacts DEF ChainInv, JobOK, LedgerInv, DisconnectedOK, MidReorg, Floor
  <2>3. job.at = Height(T)
    <3> SUFFICES ASSUME job.at # Height(T) PROVE FALSE
      OBVIOUS
    <3>1. Height(T) \in job.fork + 1 .. Height(T) /\ Height(T) > job.at
      BY <2>2, SMTT(30)
    <3>2. T \in job.disconnected
      BY <2>2, <3>1, AncSelf
    <3> QED
      BY <2>1, <3>1, <3>2 DEF Remaining
  <2>4. tip'.hash = T /\ tip'.height = Height(T) /\ job.pre_tip.hash = T
    <3>1. tip' = Tip(T, Height(T)) /\ job.pre_tip = Tip(T, Height(T))
      BY <2>1, <2>2
    <3>2. tip'.hash = T /\ tip'.height = Height(T)
      BY <3>1, SMTT(30) DEF Tip
    <3>3. job.pre_tip.hash = T
      BY <3>1, SMTT(30) DEF Tip
    <3> QED
      BY <3>2, <3>3
  <2>5. /\ Applied = T /\ Applied' = T /\ T' = T /\ ~MidReorg' /\ ~Reorging'
        /\ RowBase = T /\ RowBase' = T /\ Reach = Height(T) /\ Reach' = Height(T)
    BY <2>1, <2>2, <2>3, <2>4, AncSelf DEF Applied, T, MidReorg, Reorging, RowBase, Reach
  <2>Ledger. LedgerInv'
    BY <1>Same, <2>1, <2>5
  <2>Stored. StoredOK => StoredOK'
    BY <1>StoredSame, <2>1, <2>5
  <2>Rows. (RowsOK => RowsOK') /\ (RowsOnChain => RowsOnChain')
    BY <1>RowsSame, <2>1, <2>5
  <2>Books. BooksInv => BooksInv'
    <3>1. StatsOK => StatsOK'
      BY <2>1, <2>5 DEF StatsOK
    <3> QED
      BY <1>DiskSame, <2>1, <3>1 DEF BooksInv
  <2>Choice. ChoiceInv => ChoiceInv'
    BY <2>1, <2>5, <2>Rows DEF ChoiceInv
  <2>Wind. WindowInv => WindowInv'
    BY <1>T, <1>Window, <2>1, <2>4, <2>5
  <2> QED
    BY <2>Ledger, <2>Stored, <2>Rows, <2>Books, <2>Choice, <2>Wind DEF Kept
\* The memory is lost; the disk is what it was ...
<1>Down. ASSUME Crash \/ BootRefused
         PROVE  Kept
  <2>1. /\ phase # "down" /\ phase' = "down" /\ cache' = {}
        /\ UNCHANGED <<db_blocks, db_heights, db_state, db_outputs, db_txs>>
    BY <1>Down DEF Crash, BootRefused, NoMemory, disk
  <2>2. T' = T /\ ~MidReorg' /\ ~Reorging' /\ RowBase' = T
    BY <2>1 DEF T, MidReorg, Reorging, RowBase
  <2>3. RowBase \in Branch(T) /\ (~MidReorg => RowBase = T)
    <3>1. job.fork \in Nat /\ job.at \in Nat
      BY Fields, TreeAssumption, SMTT(30) DEF ChainInv, Heights
    <3>2. MidReorg => job.fork \in 0 .. Height(T)
      <4>1. MidReorg => job.fork <= Height(T)
        BY DEF ChainInv, JobOK, MidReorg
      <4> QED
        BY <1>T, <3>1, <4>1, SMTT(30)
    <3>3. phase \in {"disconnect", "reapply"} => job.at \in 0 .. Height(T)
      <4>1. phase \in {"disconnect", "reapply"} => job.at <= Height(T)
        BY DEF ChainInv, JobOK
      <4> QED
        BY <1>T, <3>1, <4>1, SMTT(30)
    <3>4. T \in Branch(T)
      BY <1>T, BranchBlocks
    <3> QED
      BY <1>T, <3>2, <3>3, <3>4, BranchBlocks DEF RowBase, MidReorg, Reorging
  <2>Ledger. LedgerInv'
    BY <2>1, <2>2 DEF LedgerInv, UtxoMatchesChain, DisconnectedOK
  <2>Stored. StoredOK => StoredOK'
    BY <1>StoredSame, <2>1, <2>2
  <2>Rows. CrashesOutsideReorg /\ RowsOK => RowsOK'
    <3>1. CrashesOutsideReorg => ~MidReorg
      BY <1>Down DEF CrashesOutsideReorg, BootRefused, MidReorg, Reorging
    <3> QED
      BY <1>RowsSame, <2>1, <2>2, <2>3, <3>1
  <2>Books. BooksInv => BooksInv'
    BY <1>DiskSame, <2>1, <2>2 DEF BooksInv, StatsOK
  <2>Choice. ASSUME ChoiceInv PROVE ChoiceInv'
    <3>1. RowsOnChain'
      BY <1>T, <2>1, <2>2, <2>3, <2>Choice, PaidAbove DEF ChoiceInv, RowsOnChain
    <3> QED
      BY <2>1, <2>2, <2>Choice, <3>1 DEF ChoiceInv
  <2>Wind. WindowInv'
    BY <2>1, <2>2 DEF WindowInv
  <2> QED
    BY <2>Ledger, <2>Stored, <2>Rows, <2>Books, <2>Choice, <2>Wind DEF Kept
\* ... and a start rebuilds it by replaying the stored chain.
<1>Start. ASSUME Start
          PROVE  Kept
  <2>1. /\ Loadable /\ phase = "down" /\ phase' = "boot"
        /\ T \in Block /\ Height(T) \in Nat /\ db_state.height = Height(T)
        /\ DiskBlock(Height(T)) # NoBlock
        /\ \A h \in 0 .. Height(T) : DiskBlock(h) # NoBlock => DiskBlock(h) = Anc(T, h)
    BY <1>Start, StoredBlocks DEF Start, Load, LoadTruncated
  <2>2. PICK last \in 0 .. Height(T), n \in 0 .. Height(T) :
          /\ n \in 0 .. last /\ Replay(last) /\ tip'.hash = Anc(T, n)
          /\ \A h \in 0 .. n : DiskBlock(h) # NoBlock
          /\ \A h \in n + 1 .. last : DiskBlock(h) = NoBlock
    <3>1. CASE Load
      <4>1. /\ Replay(Height(T)) /\ tip' = Tip(T, Height(T)) /\ BrokenLinks = {}
        BY <2>1, <3>1 DEF Load, T
      <4>2. Height(T) \in 0 .. Height(T) /\ Height(T) + 1 .. Height(T) = {}
        BY <2>1, SMTT(30)
      <4>3. \A h \in 0 .. Height(T) : DiskBlock(h) # NoBlock
        BY <2>1, <4>1, <4>2, StoredChain
      <4>4. tip'.hash = Anc(T, Height(T))
        BY <2>1, <4>1, AncSelf DEF Tip
      <4> QED
        BY <4>1, <4>2, <4>3, <4>4
    <3>2. CASE LoadTruncated
      <4>1. PICK h \in BrokenLinks :
              /\ \A k \in BrokenLinks : h <= k
              /\ Replay(h - 1)
              /\ tip' = Tip(DiskBlock(LastBelow(h)), h - 1)
        BY <3>2 DEF LoadTruncated
      <4> DEFINE n == LastBelow(h)
      <4>2. h \in 1 .. Height(T)
        BY <2>1 DEF BrokenLinks
      <4>3. /\ n \in 0 .. h - 1 /\ DiskBlock(n) # NoBlock
            /\ \A j \in n + 1 .. h - 1 : DiskBlock(j) = NoBlock
        BY <2>1, <4>2, LastBelowFacts
      <4> HIDE DEF n
      <4>4. /\ h - 1 \in 0 .. Height(T) /\ n \in 0 .. Height(T)
            /\ \A k \in 1 .. Height(T) : h <= k => k > n
        BY <2>1, <4>2, <4>3, SMTT(30)
      <4>5. \A k \in BrokenLinks : k > n
        BY <2>1, <4>1, <4>4 DEF BrokenLinks
      <4>6. \A j \in 0 .. n : DiskBlock(j) # NoBlock
        BY <2>1, <4>3, <4>4, <4>5, StoredChain
      <4>7. tip'.hash = Anc(T, n)
        BY <2>1, <4>1, <4>3, <4>4 DEF Tip, n
      <4> QED
        BY <4>1, <4>3, <4>4, <4>6, <4>7
    <3> QED
      BY <1>Start, <3>1, <3>2 DEF Start
  <2>3. /\ key_images' = SpentOn(Anc(T, n)) /\ outputs' = OutputsOn(Anc(T, n))
        /\ stealth_index' = OwnerOn(Anc(T, n))
    BY <2>1, <2>2, ReplaysLedger
  <2>4. Applied' = Anc(T, n)
    BY <2>1, <2>2 DEF Applied
  <2>Ledger. LedgerInv'
    BY <2>1, <2>3, <2>4 DEF LedgerInv, UtxoMatchesChain, DisconnectedOK, MidReorg, Reorging
\* With every body stored, no link is broken and all of the chain is replayed.
  <2>5. ASSUME StoredOK
        PROVE  /\ Load /\ Replay(Height(T)) /\ tip' = Tip(T, Height(T)) /\ RecomputedWork = CumWork(T)
               /\ \A h \in 0 .. Height(T) : DiskBlock(h) # NoBlock
    BY <1>Start, <2>1, <2>5, AllStored DEF Start, Load, LoadTruncated, T
  <2>6. ASSUME StoredOK
        PROVE  /\ \/ db_outputs' = db_outputs
                  \/ db_outputs' = RowsOn(T) /\ \A s \in Address : db_outputs[s] = NoRow
               /\ stats' = Stats(CumWork(T), db_state.total_supply, db_state.total_burned, Height(T) + 1)
               /\ \A h \in 1 .. Height(T) : h + KeepBlocks >= Height(T) =>
                    height_to_hash'[h] = Anc(T, h) /\ height_to_hash'[h] \in cache'
    <3>1. Height(T) \in 0 .. Height(T) /\ Height(T) + 1 .. Height(T) = {} /\ Anc(T, Height(T)) = T
      BY <2>1, AncSelf, SMTT(30)
    <3>2. \A h \in Height(T) + 1 .. Height(T) : DiskBlock(h) = NoBlock
      BY <3>1
    <3>3. Replay(Height(T)) /\ RecomputedWork = CumWork(T) /\ \A h \in 0 .. Height(T) : DiskBlock(h) # NoBlock
      BY <2>5, <2>6
    <3> QED
      BY <2>1, <3>1, <3>2, <3>3, ReplaysLedger
  <2>7. ASSUME StoredOK
        PROVE  /\ UNCHANGED <<db_blocks, db_heights, db_state, db_txs>> /\ cache' \subseteq db_blocks
               /\ T' = T /\ tip'.hash = T /\ tip'.height = Height(T)
               /\ RowBase = T /\ RowBase' = T /\ Reach' = Height(T) /\ ~MidReorg' /\ ~Reorging'
    <3>1. UNCHANGED <<db_blocks, db_heights, db_state, db_txs>> /\ tip' = Tip(T, Height(T))
      BY <2>5, <2>7 DEF Load
    <3>2. cache' \subseteq db_blocks
      <4>1. \A x \in cache' : \E h \in 0 .. Height(T) : x = DiskBlock(h) /\ DiskBlock(h) # NoBlock
        <5>1. Replay(Height(T))
          BY <2>5, <2>7
        <5>2. cache' = {DiskBlock(h) : h \in {k \in {j \in 0 .. Height(T) : DiskBlock(j) # NoBlock} :
                                               k >= SatSub(db_state.height, KeepBlocks)}}
          BY <5>1 DEF Replay
        <5> QED
          BY <5>2
      <4>2. \A h \in 0 .. Height(T) : DiskBlock(h) # NoBlock => DiskBlock(h) \in db_blocks
        BY DEF DiskBlock
      <4> QED
        BY <4>1, <4>2
    <3>3. T' = T /\ tip'.hash = T /\ tip'.height = Height(T)
      BY <3>1 DEF T, Tip
    <3> QED
      BY <2>1, <3>1, <3>2, <3>3 DEF RowBase, Reach, MidReorg, Reorging
  <2>Stored. ASSUME StoredOK PROVE StoredOK'
    <3>1. phase' = "boot" /\ db_blocks' = db_blocks /\ cache' \subseteq db_blocks /\ T' = T /\ ~MidReorg'
      BY <2>1, <2>7, <2>Stored
    <3> QED
      BY <2>Stored, <3>1 DEF StoredOK
  <2>Rows. StoredOK /\ RowsOK => RowsOK'
    BY <2>6, <2>7 DEF RowsOK
  <2>Books. ASSUME StoredOK, BooksInv PROVE BooksInv'
    <3>1. stats' = StatsOf(T)
      <4>1. db_state.total_supply = CumSupply(T) /\ db_state.total_burned = CumBurn(T)
        BY <2>Books DEF BooksInv, DiskDescribesOneChain, T
      <4> QED
        BY <2>6, <2>Books, <4>1 DEF StatsOf
    <3> QED
      BY <1>DiskSame, <2>1, <2>7, <2>Books, <3>1 DEF BooksInv, StatsOK
  <2>Choice. ASSUME StoredOK, ChoiceInv PROVE ChoiceInv'
    <3>1. RowsOnChain'
      <4> SUFFICES ASSUME NEW s \in Address, db_outputs'[s] # NoRow PROVE PayHeights(T, s) # {}
        BY <2>7, <2>Choice DEF RowsOnChain
      <4>1. db_outputs[s] # NoRow => PayHeights(T, s) # {}
        BY <2>7, <2>Choice DEF ChoiceInv, RowsOnChain
      <4>2. RowsOn(T)[s] # NoRow => PayHeights(T, s) # {}
        BY DEF RowsOn
      <4> QED
        BY <2>6, <2>Choice, <4>1, <4>2
    <3> QED
      BY <2>1, <2>7, <2>Choice, <3>1 DEF ChoiceInv
  <2>Wind. ASSUME StoredOK PROVE WindowInv'
    <3>1. \A h \in 1 .. Height(T) : Anc(T, h) # NoBlock
      <4>1. \A h \in 1 .. Height(T) : h \in 0 .. Height(T)
        BY <2>1, SMTT(30)
      <4> QED
        BY <2>1, <4>1, AncType, TreeAssumption
    <3>2. \A h \in 1 .. Height(T) : h + KeepBlocks >= Height(T) =>
            height_to_hash'[h] # NoBlock /\ height_to_hash'[h] \in cache'
      BY <2>6, <2>Wind, <3>1
    <3> QED
      BY <1>T, <2>1, <2>7, <2>Wind, <3>2 DEF WindowInv
  <2> QED
    BY <2>Ledger, <2>Stored, <2>Rows, <2>Books, <2>Choice, <2>Wind DEF Kept
<1>Stutter. ASSUME UNCHANGED vars
            PROVE  Kept
  <2>1. /\ UNCHANGED <<phase, job, tip, stats, cache, height_to_hash, outputs, stealth_index, key_images>>
        /\ UNCHANGED <<db_blocks, db_heights, db_state, db_outputs, db_txs>>
    BY <1>Stutter DEF vars, memory, utxos, disk
  <2>2. /\ T' = T /\ Applied' = Applied /\ (MidReorg' <=> MidReorg) /\ (Reorging' <=> Reorging)
        /\ Floor' = Floor /\ RowBase' = RowBase /\ Reach' = Reach
    BY <2>1 DEF T, Applied, MidReorg, Reorging, Floor, RowBase, Reach
  <2>Ledger. LedgerInv'
    BY <2>1, <2>2 DEF LedgerInv, UtxoMatchesChain, DisconnectedOK
  <2>Stored. StoredOK => StoredOK'
    BY <1>StoredSame, <2>1, <2>2
  <2>Rows. (RowsOK => RowsOK') /\ (RowsOnChain => RowsOnChain')
    BY <1>RowsSame, <2>1, <2>2
  <2>Books. BooksInv => BooksInv'
    BY <1>DiskSame, <2>1, <2>2 DEF BooksInv, StatsOK
  <2>Choice. ChoiceInv => ChoiceInv'
    BY <2>1, <2>2, <2>Rows DEF ChoiceInv
  <2>Wind. WindowInv => WindowInv'
    BY <2>1, <2>2 DEF WindowInv
  <2> QED
    BY <2>Ledger, <2>Stored, <2>Rows, <2>Books, <2>Choice, <2>Wind DEF Kept
<1> QED
  BY <1>Store, <1>Boot, <1>ExtendTip, <1>CommitBlock, <1>CommitReorg, <1>BeginReorg, <1>Disconnect,
     <1>Connect, <1>BeginUndo, <1>Undo, <1>Reapply, <1>RestoreTip, <1>Down, <1>Start, <1>Stutter
     DEF Next, AddBlock, HandlerStep

\* A node that has just created its genesis block has the ledger, the statistics, the
\* disk and the window of it.
LEMMA LedgerInit ==
    ASSUME HeightFacts, Init
    PROVE  LedgerInv /\ StoredOK /\ RowsOK /\ BooksInv /\ ChoiceInv /\ WindowInv
<1>1. /\ Genesis \in Block /\ Height(Genesis) = 0 /\ 0 \in Heights /\ Branch(Genesis) = {Genesis}
      /\ phase = "idle" /\ ~MidReorg /\ ~Reorging /\ 0 .. 0 = {0} /\ 1 .. 0 = {}
  <2>1. 0 \in Heights /\ 0 .. 0 = {0} /\ 1 .. 0 = {}
    BY TreeAssumption, SMTT(30) DEF Heights
  <2> QED
    BY <2>1, BranchGenesis, TreeAssumption DEF Init, MidReorg, Reorging
<1>2. /\ tip.hash = Genesis /\ tip.height = 0 /\ T = Genesis /\ db_state.height = 0
      /\ db_state.total_difficulty = 1 /\ db_state.total_supply = Reward(0) /\ db_state.total_burned = 0
  BY SMTT(30) DEF Init, Tip, State, GenesisStats, Stats, T
<1>3. /\ Applied = Genesis /\ RowBase = Genesis /\ Reach = 0
  BY <1>1, <1>2 DEF Applied, RowBase, Reach
<1>4. Anc(Genesis, 0) = Genesis /\ CumWork(Genesis) = 1 /\ CumWork(Genesis) <= CumWork(Genesis)
      /\ CumSupply(Genesis) = Reward(0) /\ CumBurn(Genesis) = 0 /\ 0 + 1 = 1
  <2>1. Anc(Genesis, 0) = Genesis
    BY <1>1, AncSelf
  <2>2. CumWork(Genesis) = 1 /\ CumSupply(Genesis) = Reward(0) /\ CumBurn(Genesis) = 0
    BY WorkAssumption
  <2>3. CumWork(Genesis) <= CumWork(Genesis) /\ 0 + 1 = 1
    BY <2>2, SMTT(30)
  <2> QED
    BY <2>1, <2>2, <2>3
<1>5. SpentOn(Genesis) = {} /\ OutputsOn(Genesis) = Txs(Genesis)
  BY <1>1, GenesisSpendsNothing DEF SpentOn, Images, OutputsOn
<1>6. LedgerInv
  BY <1>1, <1>3, <1>5 DEF Init, LedgerInv, UtxoMatchesChain, DisconnectedOK
<1>7. StoredOK
  BY <1>1, <1>2 DEF Init, StoredOK
<1>8. RowsOK /\ RowsOnChain
  <2>1. db_outputs = RowsOn(Genesis)
    BY DEF Init
  <2>2. \A s \in Address : RowsOn(Genesis)[s] # NoRow => PayHeights(Genesis, s) # {}
    BY DEF RowsOn
  <2> QED
    BY <1>3, <2>1, <2>2 DEF RowsOK, RowsOnChain
<1>9. StatsOK
  BY <1>1, <1>2, <1>4 DEF Init, StatsOK, StatsOf, GenesisStats
<1>10. DiskDescribesOneChain
  <2>1. \A h \in Heights : db_heights[h] = IF h <= 0 THEN Anc(Genesis, h) ELSE NoBlock
    <3>1. \A h \in Heights : db_heights[h] = IF h = 0 THEN Genesis ELSE NoBlock
      BY DEF Init
    <3>2. \A h \in Heights : h <= 0 <=> h = 0
      BY TreeAssumption, SMTT(30) DEF Heights
    <3> QED
      BY <1>4, <3>1, <3>2
  <2>2. ASSUME NEW x \in Tx
        PROVE  LET on == {h \in 0 .. 0 : x \in Txs(Anc(Genesis, h))}
               IN  IF on = {} THEN db_txs[x] = NoHeight ELSE db_txs[x] \in on
    <3> DEFINE on == {h \in 0 .. 0 : x \in Txs(Anc(Genesis, h))}
    <3>1. db_txs[x] = IF x \in Txs(Genesis) THEN 0 ELSE NoHeight
      BY DEF Init
    <3>2. on = IF x \in Txs(Genesis) THEN {0} ELSE {}
      BY <1>1, <1>4
    <3> HIDE DEF on
    <3>3. IF on = {} THEN db_txs[x] = NoHeight ELSE db_txs[x] \in on
      BY <3>1, <3>2
    <3> QED
      BY <3>3 DEF on
  <2>3. Branch(Genesis) \subseteq db_blocks
    BY <1>1 DEF Init
  <2> QED
    BY <1>1, <1>2, <1>4, <2>1, <2>2, <2>3 DEF DiskDescribesOneChain, T
<1>11. ChoiceInv
  BY <1>1, <1>2, <1>8 DEF ChoiceInv, AcceptableChain
<1>12. WindowInv
  BY <1>1, <1>2, <1>3, <1>4 DEF WindowInv
<1> QED
  BY <1>6, <1>7, <1>8, <1>9, <1>10, <1>11, <1>12 DEF BooksInv

-----------------------------------------------------------------------------
(* The window of the cache, and the canonical chain.                       *)

\* A reorg goes no deeper than the finality floor, and the cache reaches further down
\* than that: the disconnect loop, which reads the cache only, finds its blocks.
LEMMA WindowReaches ==
    ASSUME WindowCovers, ChainInv, ChoiceInv, WindowInv
    PROVE  DisconnectsCached
<1> SUFFICES ASSUME phase = "disconnect" PROVE height_to_hash[job.at] \in cache
  BY DEF DisconnectsCached, Disconnect
<1>1. /\ T \in Block /\ tip.hash = T /\ Height(T) \in Nat /\ job.at \in Nat /\ job.fork \in Nat
      /\ job.fork < job.at
  BY ReorgFacts DEF Reorging, ChainInv, JobOK
<1>2. FinalityFloor(Height(T)) <= job.fork
  BY DEF ChoiceInv, MidReorg, Reorging
<1>3. PICK top \in Block :
        /\ CumWork(top) <= CumWork(T)
        /\ \A h \in 1 .. job.at : h + KeepBlocks >= Height(top) => height_to_hash[h] \in cache
  BY <1>1 DEF WindowInv, Reach
<1>4. Height(top) + CheckpointInterval <= Height(T) + KeepBlocks + 1 /\ Height(top) \in Nat
  BY <1>1, <1>3, HeightType DEF WindowCovers
<1>5. job.at \in 1 .. job.at /\ job.at + KeepBlocks >= Height(top)
  BY <1>1, <1>2, <1>4, PolicyAssumption, ChainAssumption, SMTT(30) DEF FinalityFloor, SatSub
<1> QED
  BY <1>3, <1>5

\* The committed tip moves when a handler commits, and then as CanonicalChain allows: to
\* a better tip of an acceptable chain that shares the finalised prefix.  With every
\* body stored a restart does not move it.
LEMMA CommittedTipMoves ==
    ASSUME HeightFacts, ChainInv, StoredOK, ChoiceInv, [Next]_vars
    PROVE  [Canonical!Next]_(db_state.tip_hash)
<1>1. T \in Block /\ Height(T) \in Nat /\ CumWork(T) \in Nat
  BY Fields, HeightType, WorkAssumption DEF ChainInv
<1> DEFINE floor == FinalityFloor(Height(T))
<1>2. floor \in 0 .. Height(T)
  BY <1>1, PolicyAssumption, SMTT(30) DEF FinalityFloor, SatSub
<1> HIDE DEF floor
<1>3. ASSUME NEW b \in Block, T' = b, Better(b, T), AcceptableChain(b),
             Height(b) >= floor, Anc(b, floor) = Anc(T, floor)
      PROVE  Canonical!Next
  <2>1. Canonical!KeepsFinalised(b)
    BY <1>3 DEF Canonical!KeepsFinalised, floor, T
  <2>2. Canonical!Adopt(b)
    BY <1>3, <2>1 DEF Canonical!Adopt, T
  <2> QED
    BY <2>2 DEF Canonical!Next
<1>4. CASE CommitBlock
  <2>1. phase = "commit" /\ T' = job.block
    BY <1>4 DEF CommitBlock, State, T
  <2>2. job.block \in Block /\ job.block # Genesis /\ Parent(job.block) = T /\ AcceptableChain(job.block)
    BY <2>1 DEF ChainInv, JobOK, ChoiceInv
  <2>3. Better(job.block, T)
    <3>1. /\ CumWork(job.block) = CumWork(T) + Difficulty(job.block)
          /\ CumWork(job.block) \in Nat /\ Difficulty(job.block) \in Nat \ {0}
      BY <2>2, WorkAssumption
    <3>2. CumWork(job.block) > CumWork(T)
      BY <1>1, <3>1, SMTT(30)
    <3> QED
      BY <3>2 DEF Better, TakeFork
  <2>4. Height(job.block) >= floor /\ Anc(job.block, floor) = Anc(T, floor)
    <3>1. /\ Height(T) = Height(job.block) - 1 /\ Height(job.block) \in Nat
          /\ \A h \in 0 .. Height(job.block) - 1 : Anc(T, h) = Anc(job.block, h)
      BY <2>2, ParentAncestors, HeightType
    <3>2. Height(job.block) >= floor
      BY <1>1, <1>2, <3>1, SMTT(30)
    <3> QED
      BY <1>2, <3>1, <3>2
  <2> QED
    BY <1>3, <2>1, <2>2, <2>3, <2>4
<1>5. CASE CommitReorg
  <2>1. phase = "commit_reorg" /\ T' = job.block /\ MidReorg
    BY <1>5 DEF CommitReorg, State, T, MidReorg
  <2>2. /\ job.block \in Block /\ AcceptableChain(job.block) /\ Better(job.block, T) /\ floor <= job.fork
        /\ job.fork < Height(job.block) /\ job.fork <= Height(T)
        /\ Anc(job.block, job.fork) = Anc(T, job.fork)
    BY <2>1 DEF ChainInv, JobOK, ChoiceInv, floor
  <2>3. job.fork \in Nat /\ Height(job.block) \in Nat
    BY <2>2, Fields, HeightType, TreeAssumption, SMTT(30) DEF ChainInv, Heights
  <2>4. Height(job.block) >= floor /\ floor \in 0 .. job.fork /\ job.fork <= Height(job.block)
    BY <1>1, <1>2, <2>2, <2>3, SMTT(30)
  <2>5. Anc(job.block, floor) = Anc(T, floor)
    BY <1>1, <2>2, <2>3, <2>4, SharedPrefix
  <2> QED
    BY <1>3, <2>1, <2>2, <2>4, <2>5
<1>6. CASE Start
  <2>1. Loadable
    BY <1>6 DEF Start, Load, LoadTruncated
  <2>2. BrokenLinks = {}
    BY <2>1, AllStored
  <2> QED
    BY <1>6, <2>2 DEF Start, Load, LoadTruncated
<1>7. CASE UNCHANGED vars \/ \E b \in Block : AddBlock(b) \/ StoreFails(b)
  BY <1>7 DEF vars, disk, AddBlock, StoreMain, StoreFork, StoreFails, BeginReorg, Store
<1>8. CASE \/ ExtendTip \/ Disconnect \/ ConnectFork \/ ConnectFails \/ RecheckFails \/ AdoptTip
           \/ Undo \/ Reapply \/ RestoreTip \/ Crash \/ Boot \/ BootRefused
  <2>1. CASE ExtendTip \/ Crash \/ Boot \/ BootRefused \/ RestoreTip
    BY <2>1 DEF disk, ExtendTip, Crash, Boot, BootRefused, RestoreTip
  <2>2. CASE Disconnect \/ Undo \/ Reapply
    BY <2>2 DEF Disconnect, Undo, Reapply
  <2>3. CASE ConnectFork \/ ConnectFails \/ RecheckFails \/ AdoptTip
    BY <2>3 DEF disk, ConnectFork, ConnectFails, RecheckFails, AdoptTip, BeginUndo
  <2> QED
    BY <1>8, <2>1, <2>2, <2>3
<1> QED
  BY <1>4, <1>5, <1>6, <1>7, <1>8 DEF Next, HandlerStep

-----------------------------------------------------------------------------
(* The best chain, where no depth rule applies.                            *)

\* More work, or equal work and a smaller hash, orders the blocks strictly and totally.
LEMMA BetterOrder ==
    ASSUME NEW a \in Block, NEW b \in Block, NEW c \in Block
    PROVE  /\ ~Better(a, a)
           /\ ~(Better(a, b) /\ Better(b, a))
           /\ Better(a, b) /\ Better(b, c) => Better(a, c)
           /\ a = b \/ Better(a, b) \/ Better(b, a)
<1>1. /\ CumWork(a) \in Nat /\ CumWork(b) \in Nat /\ CumWork(c) \in Nat
      /\ Hash(a) \in Nat /\ Hash(b) \in Nat /\ Hash(c) \in Nat
      /\ Hash(a) = Hash(b) => a = b
  BY WorkAssumption
<1> QED
  BY <1>1, SMTT(30) DEF Better, TakeFork

\* find_fork_point succeeds on a block whose ancestors are stored: genesis is common.
LEMMA ForkPointFound ==
    ASSUME HeightFacts, ChainInv, phase = "idle", NEW b \in Block, b # Genesis,
           Branch(Parent(b)) \subseteq db_blocks
    PROVE  \E f \in Heights : IsForkPoint(b, f)
<1> DEFINE S == {h \in Heights : h < Height(b) /\ MainHash(h) = Anc(b, h)}
<1>1. /\ Height(b) \in Nat /\ Height(b) # 0 /\ 0 \in Heights /\ Anc(b, 0) = Genesis
      /\ Parent(b) \in Block /\ Height(Parent(b)) = Height(b) - 1
      /\ \A h \in 0 .. Height(b) - 1 : Anc(Parent(b), h) = Anc(b, h)
  BY HeightType, ParentAncestors, TreeAssumption, AncestorAssumption, SMTT(30) DEF Heights
<1>2. MainHash(0) = Genesis
  <2>1. T \in Block /\ Applied = T
    BY Fields, SMTT(30) DEF ChainInv, TipOK, Tip, Applied
  <2>2. Anc(T, 0) = Genesis /\ 0 \in 0 .. Height(T)
    BY <2>1, HeightType, AncestorAssumption, SMTT(30)
  <2>3. height_to_hash[0] # NoBlock => height_to_hash[0] = Genesis
    BY <1>1, <2>1, <2>2 DEF ChainInv, IndexOK
  <2>4. db_heights[0] = Genesis
    BY <2>2 DEF ChainInv, DiskOK
  <2> QED
    BY <2>3, <2>4 DEF MainHash
<1>3. 0 \in S
  <2>1. 0 < Height(b)
    BY <1>1, SMTT(30)
  <2> QED
    BY <1>1, <1>2, <2>1
<1>4. PICK f \in S : \A k \in S : k <= f
  <2>1. S \in SUBSET Heights /\ S # {}
    BY <1>3
  <2> QED
    BY <2>1 DEF HeightFacts
<1>5. \A k \in f .. Height(b) - 1 : k \in 0 .. Height(b) - 1 /\ k \in Heights /\ k < Height(b)
  BY <1>1, <1>4, HeightType, TreeAssumption, SMTT(30) DEF Heights
<1>6. \A k \in f + 1 .. Height(b) - 1 : k \in f .. Height(b) - 1 /\ ~(k <= f)
  BY <1>1, <1>4, TreeAssumption, SMTT(30) DEF Heights
<1>7. \A k \in f .. Height(b) - 1 : Known(Anc(b, k))
  BY <1>1, <1>5, BranchBlocks DEF Known
<1>8. \A k \in f + 1 .. Height(b) - 1 : MainHash(k) # Anc(b, k)
  BY <1>4, <1>5, <1>6
<1> QED
  BY <1>4, <1>7, <1>8 DEF IsForkPoint

\* With no depth rule every better fork is one the node reorganises to.
LEMMA BetterReorganises ==
    ASSUME NoDepthRules, ChainInv, phase = "idle", stats = StatsOf(T),
           NEW b \in Block, NEW f \in Heights, IsForkPoint(b, f), Better(b, T)
    PROVE  Reorganises(b, CumWork(b), f)
<1>1. T \in Block /\ tip.hash = T /\ tip.height = Height(T)
  <2>1. T \in Block
    BY Fields DEF ChainInv
  <2>2. tip = Tip(T, db_state.height) /\ db_state.height = Height(T)
    BY DEF ChainInv, TipOK, DiskOK
  <2> QED
    BY <2>1, <2>2 DEF Tip
<1>2. stats.total_difficulty = CumWork(T)
  BY DEF StatsOf, Stats
<1>3. TakeFork(CumWork(b), Hash(b), CumWork(T), Hash(T))
  BY DEF Better
<1>4. CumWork(b) >= CumWork(T)
  <2>1. CumWork(b) \in Nat /\ CumWork(T) \in Nat
    BY <1>1, WorkAssumption
  <2> QED
    BY <1>3, <2>1, SMTT(30) DEF TakeFork
<1>5. Height(b) \in 0 .. MaxHeight /\ Height(T) \in 0 .. MaxHeight /\ f \in 0 .. MaxHeight
  BY <1>1, HeightType DEF Heights
<1>6. Acceptable(Height(b) - f, CumWork(b), CumWork(T), Height(T))
  <2>1. Height(b) - f <= MaxReorgDepth /\ Height(T) < BootstrapHeight
    BY <1>5, TreeAssumption, PolicyAssumption, SMTT(30) DEF NoDepthRules
  <2> QED
    BY <1>4, <2>1 DEF Acceptable
<1>7. ~BelowFloor(f, Height(T))
  BY <1>5, TreeAssumption, PolicyAssumption, SMTT(30) DEF NoDepthRules, BelowFloor, FinalityFloor, SatSub
<1> QED
  BY <1>1, <1>2, <1>3, <1>6, <1>7 DEF Reorganises

\* A fork block that fails its validation is on no acceptable chain, if the cache holds
\* the one below it.
LEMMA FailedForkUnacceptable ==
    ASSUME HeightFacts, ChainInv, LedgerInv, StoredOK, ChoiceInv, db_blocks \subseteq cache,
           phase = "connect", ~ValidInReorg(NextForkBlock)
    PROVE  ~AcceptableChain(job.block)
<1> DEFINE n == NextForkBlock
<1>1. /\ n \in Block /\ n # Genesis /\ Parent(n) = Anc(job.block, job.at) /\ job.block \in Block
      /\ job.at + 1 <= Height(job.block) /\ job.at \in Nat /\ Height(job.block) \in Nat
  BY NextForkFacts, ReorgFacts
<1>2. job.at \in 0 .. Height(job.block) /\ job.at + 1 \in 0 .. Height(job.block)
  BY <1>1, SMTT(30)
<1>3. n \in Branch(job.block) /\ Parent(n) \in Branch(job.block)
  BY <1>1, <1>2, BranchBlocks DEF NextForkBlock
<1>4. Parent(n) \in cache
  BY <1>3 DEF StoredOK, MidReorg, Reorging
<1>5. Applied = Parent(n)
  BY <1>1 DEF Applied
<1>6. key_images = SpentOn(Parent(n)) /\ stealth_index = OwnerOn(Parent(n))
  BY <1>5 DEF LedgerInv, UtxoMatchesChain
<1>7. \A s \in Address : db_outputs[s] # NoRow => PayHeights(Parent(n), s) # {}
  BY ConnectRows DEF ChoiceInv
<1> HIDE DEF n
<1>8. AcceptableChain(n) => ContextValid(n) /\ n \in ShieldedOk
  BY <1>1, <1>6, <1>7, ValidIsAcceptable
<1>9. AcceptableChain(job.block) => AcceptableChain(n)
  BY <1>1, <1>3, AcceptableBelow
<1> QED
  BY <1>4, <1>8, <1>9 DEF ValidInReorg, n

\* Then no step leaves a better acceptable chain lying in the database: a fork is stored
\* only if it is not better, a reorg is given up only if its chain is not acceptable,
\* and what is adopted is better than everything the old tip was better than.
LEMMA BestNext ==
    ASSUME HeightFacts, Reliable, NoDepthRules, ChainInv, LedgerInv, StoredOK, BooksInv, ChoiceInv,
           BestInv, [Next]_vars
    PROVE  BestInv'
<1> DEFINE Handled == {"extend", "commit", "disconnect", "connect", "commit_reorg"}
<1>T. T \in Block /\ job.block \in Block \cup {NoBlock} /\ db_blocks \subseteq Block
  BY Fields DEF ChainInv, TypeOK
<1>best. \A b \in db_blocks : AcceptableChain(b) =>
            b = T \/ Better(T, b) \/ (b = job.block /\ phase \in Handled)
  BY DEF BestInv
<1> HIDE DEF Handled
\* What a step that stores and commits nothing has to keep.
<1>Same. ASSUME phase' \notin {"down", "boot"}, UNCHANGED <<db_blocks, db_state>>, cache \subseteq cache',
                phase \in Handled => \/ phase' \in Handled /\ job'.block = job.block
                                     \/ ~AcceptableChain(job.block)
         PROVE  BestInv'
  BY <1>best, <1>Same DEF BestInv, T, Handled
\* ... one that stores a block, and one that commits one.
<1>Stored. ASSUME phase = "idle", NEW b \in Block, db_blocks' = db_blocks \cup {b}, cache' = cache \cup {b},
                  db_state' = db_state,
                  \/ phase' = "idle" /\ (AcceptableChain(b) => b = T \/ Better(T, b))
                  \/ phase' \in Handled /\ job'.block = b
           PROVE  BestInv'
  <2>1. T' = T /\ phase' \notin {"down", "boot"} /\ db_blocks' \subseteq cache'
    BY <1>Stored DEF T, Handled, BestInv
  <2>2. phase \notin Handled
    BY <1>Stored DEF Handled
  <2> QED
    BY <1>best, <1>Stored, <2>1, <2>2 DEF BestInv, Handled
<1>Commits. ASSUME phase' = "idle", UNCHANGED <<db_blocks, cache>>, T' = job.block, job.block \in Block,
                   Better(job.block, T)
            PROVE  BestInv'
  <2>1. ASSUME NEW b \in db_blocks, AcceptableChain(b)
        PROVE  b = job.block \/ Better(job.block, b)
    BY <1>T, <1>best, <1>Commits, <2>1, BetterOrder
  <2> QED
    BY <1>Commits, <2>1 DEF BestInv
<1>idle. phase = "idle" => stats = StatsOf(T)
  BY DEF BooksInv, StatsOK
<1>Main. ASSUME NEW b \in Block, StoreMain(b)
         PROVE  BestInv'
  <2>1. /\ phase = "idle" /\ db_blocks' = db_blocks \cup {b} /\ cache' = cache \cup {b} /\ db_state' = db_state
        /\ Parent(b) = tip.hash /\ Offered(b)
    BY <1>Main DEF StoreMain, Store, Offered
  <2>2. CASE b \in ShieldedOk
    <3>1. phase' = "extend" /\ job' = [NoJob EXCEPT !.block = b]
      BY <1>Main, <2>2 DEF StoreMain
    <3>2. phase' = "extend" /\ job'.block = b
      BY <3>1, NoJobType DEF JobType
    <3> QED
      BY <1>Stored, <2>1, <3>2 DEF Handled
  <2>3. CASE b \notin ShieldedOk
    <3>1. phase' = "idle"
      BY <1>Main, <2>1, <2>3 DEF StoreMain
    <3>2. b # Genesis
      BY <2>1 DEF Offered, Known, ChainInv, DiskOK
    <3>3. ~AcceptableChain(b)
      BY <2>3, <3>2, BranchBlocks DEF AcceptableChain
    <3> QED
      BY <1>Stored, <2>1, <3>1, <3>3
  <2> QED
    BY <2>2, <2>3
<1>Fork. ASSUME NEW b \in Block, StoreFork(b)
         PROVE  BestInv'
  <2>1. /\ phase = "idle" /\ phase' = "idle" /\ db_blocks' = db_blocks \cup {b} /\ cache' = cache \cup {b}
        /\ db_state' = db_state /\ Offered(b)
    BY <1>Fork DEF StoreFork, Store, Offered
  <2>2. b # Genesis
    BY <2>1 DEF Offered, Known, ChainInv, DiskOK
  <2>3. Branch(Parent(b)) \subseteq db_blocks /\ Branch(b) = Branch(Parent(b)) \cup {b}
    BY <2>1, <2>2, BranchParent DEF StoredOK, Offered, Known
  <2>4. \A a \in Branch(b) \ {b} : Readable(a)
    BY <2>3 DEF Readable, Reliable
  <2>5. PICK work \in ForkWorks(b) : \A f \in Heights : ~Reorganises(b, work, f)
    BY <1>Fork, <2>4 DEF StoreFork
  <2>6. work = CumWork(b)
    BY <2>2, <2>3, <2>5, ForkWorkExact DEF Reliable
  <2>7. PICK f \in Heights : IsForkPoint(b, f)
    BY <2>1, <2>2, <2>3, ForkPointFound
  <2>8. ~Better(b, T)
    BY <1>idle, <2>1, <2>5, <2>6, <2>7, BetterReorganises
  <2>9. b = T \/ Better(T, b)
    BY <1>T, <2>8, BetterOrder
  <2> QED
    BY <1>Stored, <2>1, <2>9
<1>Begin. ASSUME NEW b \in Block, BeginReorg(b)
          PROVE  BestInv'
  <2>1. /\ phase = "idle" /\ db_blocks' = db_blocks \cup {b} /\ cache' = cache \cup {b} /\ db_state' = db_state
        /\ phase' \in {"disconnect", "connect"}
    BY <1>Begin DEF BeginReorg, Store, Offered
  <2>2. \E work, f : job' = [block |-> b, work |-> work, fork |-> f, at |-> tip.height, pre_tip |-> tip,
                            pre_stats |-> stats, disconnected |-> {}]
    BY <1>Begin DEF BeginReorg
  <2>3. job'.block = b
    BY <2>2, SMTT(30)
  <2> QED
    BY <1>Stored, <2>1, <2>3 DEF Handled
\* No block is old enough for the cache to drop it.
<1>Extend. ASSUME ExtendTip
           PROVE  BestInv'
  <2>1. phase = "extend" /\ phase' = "commit" /\ UNCHANGED <<db_blocks, db_state, job>>
    BY <1>Extend DEF ExtendTip, disk
  <2>2. job.block \in Block
    BY <2>1 DEF ChainInv, JobOK
  <2>3. PICK index : cache' = cache \ {index[h] : h \in Evicted(cache, index, Height(job.block))}
    BY <1>Extend DEF ExtendTip
  <2>4. Evicted(cache, index, Height(job.block)) = {}
    <3>1. \A h \in Heights : ~(h + KeepBlocks < Height(job.block))
      BY <2>2, HeightType, TreeAssumption, ChainAssumption, SMTT(30) DEF NoDepthRules, Heights
    <3> QED
      BY <3>1 DEF Evicted
  <2>5. cache' = cache
    BY <2>3, <2>4
  <2> QED
    BY <1>Same, <2>1, <2>5 DEF Handled
<1>Commit. ASSUME CommitBlock \/ CommitReorg
           PROVE  BestInv'
  <2>1. /\ phase \in {"commit", "commit_reorg"} /\ phase' = "idle" /\ UNCHANGED <<db_blocks, cache>>
        /\ \E h, st, c : db_state' = State(job.block, h, st, c)
    BY <1>Commit DEF CommitBlock, CommitReorg, memory
  <2>2. T' = job.block
    BY <2>1, SMTT(30) DEF State, T
  <2>3. phase = "commit" => job.block \in Block /\ Better(job.block, T)
    <3>1. ASSUME phase = "commit" PROVE job.block \in Block /\ job.block # Genesis /\ Parent(job.block) = T
      BY <3>1 DEF ChainInv, JobOK
    <3>2. ASSUME phase = "commit" PROVE CumWork(job.block) > CumWork(T)
      <4>1. /\ CumWork(job.block) = CumWork(T) + Difficulty(job.block)
            /\ Difficulty(job.block) \in Nat \ {0} /\ CumWork(T) \in Nat
        BY <1>T, <3>1, <3>2, WorkAssumption
      <4> QED
        BY <4>1, SMTT(30)
    <3> QED
      BY <3>1, <3>2 DEF Better, TakeFork
  <2>4. phase = "commit_reorg" => job.block \in Block /\ Better(job.block, T)
    BY DEF ChainInv, JobOK, ChoiceInv, MidReorg
  <2> QED
    BY <1>Commits, <2>1, <2>2, <2>3, <2>4
<1>Reorg. ASSUME Disconnect \/ ConnectFork \/ AdoptTip
          PROVE  BestInv'
  <2>1. job \in JobType
    BY DEF ChainInv, TypeOK
  <2>2. CASE Disconnect
    <3>1. /\ phase' \in {"disconnect", "connect"} /\ UNCHANGED <<cache, db_blocks, db_state>>
          /\ \E at, gone : job' = [job EXCEPT !.at = at, !.disconnected = gone]
      BY <2>2 DEF Disconnect
    <3>2. job'.block = job.block
      BY <2>1, <3>1 DEF JobType
    <3> QED
      BY <1>Same, <3>1, <3>2 DEF Handled
  <2>3. CASE ConnectFork
    <3>1. /\ phase' = "connect" /\ UNCHANGED <<cache, db_blocks, db_state>>
          /\ job' = [job EXCEPT !.at = @ + 1]
      BY <2>3 DEF ConnectFork, disk
    <3>2. job'.block = job.block
      BY <2>1, <3>1 DEF JobType
    <3> QED
      BY <1>Same, <3>1, <3>2 DEF Handled
  <2>4. CASE AdoptTip
    <3>1. phase' = "commit_reorg" /\ UNCHANGED <<cache, db_blocks, db_state, job>>
      BY <2>4 DEF AdoptTip, disk
    <3> QED
      BY <1>Same, <3>1 DEF Handled
  <2> QED
    BY <1>Reorg, <2>2, <2>3, <2>4
<1>Fails. ASSUME ConnectFails \/ RecheckFails
          PROVE  BestInv'
  <2>1. /\ phase = "connect" /\ phase' \in {"undo", "reapply"} /\ UNCHANGED <<cache, db_blocks, db_state>>
        /\ ~ValidInReorg(NextForkBlock)
    BY <1>Fails DEF ConnectFails, RecheckFails, BeginUndo, memory, disk, Reliable
  <2>2. ~AcceptableChain(job.block)
    BY <2>1, FailedForkUnacceptable DEF BestInv
  <2> QED
    BY <1>Same, <2>1, <2>2
<1>Back. ASSUME Undo \/ Reapply \/ RestoreTip
         PROVE  BestInv'
  <2>1. /\ phase \in {"undo", "reapply"} /\ phase' \in {"undo", "reapply", "idle"}
        /\ UNCHANGED <<cache, db_blocks, db_state>>
    BY <1>Back DEF Undo, Reapply, RestoreTip, disk
  <2> QED
    BY <1>Same, <2>1 DEF Handled
<1>Never. ~Crash /\ ~Start /\ ~Boot /\ ~BootRefused /\ \A b \in Block : ~StoreFails(b)
  <2>1. ~(crashes < MaxCrashes)
    <3>1. crashes \in 0 .. MaxCrashes /\ MaxCrashes = 0
      BY DEF ChainInv, TypeOK, NoDepthRules
    <3> QED
      BY <3>1, SMTT(30)
  <2> QED
    BY <2>1 DEF Crash, Start, Boot, BootRefused, StoreFails, BestInv, Reliable
<1>Stutter. ASSUME UNCHANGED vars
            PROVE  BestInv'
  BY <1>Stutter DEF vars, memory, disk, BestInv, T
<1> QED
  BY <1>Main, <1>Fork, <1>Begin, <1>Extend, <1>Commit, <1>Reorg, <1>Fails, <1>Back, <1>Never, <1>Stutter
     DEF Next, AddBlock, HandlerStep

-----------------------------------------------------------------------------
(* Sets of heights have a least and a greatest element, and are finite.    *)
(* Only from here on are the library's theorems needed.                    *)
LOCAL INSTANCE WellFoundedInduction
Finite == INSTANCE FiniteSetTheorems

\* A non-empty set of heights has a least and a greatest element, so the CHOOSEs
\* over heights (oldest owner, last writer, last stored block) are well defined.
LEMMA LeastHeight ==
    ASSUME NEW S \in SUBSET Heights, S # {}
    PROVE  \E h \in S : \A k \in S : h <= k
<1>1. S \subseteq Nat
  BY TreeAssumption, SMTT(30) DEF Heights
<1>2. IsWellFoundedOn(OpToRel(<, Nat), Nat)
  BY NatLessThanWellFounded
<1>3. PICK h \in S : \A k \in S : <<k, h>> \notin OpToRel(<, Nat)
  BY <1>1, <1>2, WFMin
<1>4. ASSUME NEW k \in S PROVE h <= k
  <2>1. h \in Nat /\ k \in Nat
    BY <1>1
  <2>2. ~(k < h)
    BY <1>3, <2>1 DEF OpToRel
  <2> QED
    BY <2>1, <2>2, SMTT(30)
<1> QED
  BY <1>4

\* A non-empty set of heights has a greatest element.
LEMMA GreatestHeight ==
    ASSUME NEW S \in SUBSET Heights, S # {}
    PROVE  \E h \in S : \A k \in S : k <= h
<1> DEFINE R == {MaxHeight - h : h \in S}
<1>1. R \in SUBSET Heights /\ R # {}
  <2>1. \A h \in Heights : MaxHeight - h \in Heights
    BY TreeAssumption, SMTT(30) DEF Heights
  <2> QED
    BY <2>1
<1> HIDE DEF R
<1>2. PICK m \in R : \A k \in R : m <= k
  BY <1>1, LeastHeight
<1>3. PICK h \in S : m = MaxHeight - h
  BY DEF R
<1>4. ASSUME NEW k \in S PROVE k <= h
  <2>1. MaxHeight - k \in R
    BY DEF R
  <2> QED
    BY <1>2, <1>3, <2>1, TreeAssumption, SMTT(30) DEF Heights
<1> QED
  BY <1>4

-----------------------------------------------------------------------------
(* Cardinalities that the statistics are computed from.                    *)

\* The Cardinality of the model is the one the library's theorems are about.
LEMMA SameCardinality == \A S : Cardinality(S) = Finite!Cardinality(S)
BY DEF Cardinality, Finite!Cardinality

\* A set of heights between two bounds is finite: total_blocks counts such sets.
LEMMA FiniteHeights ==
    ASSUME NEW m \in Int, NEW n \in Int, NEW S \in SUBSET (m .. n)
    PROVE  Finite!IsFiniteSet(S) /\ Cardinality(S) \in Nat
<1>1. Finite!IsFiniteSet(m .. n)
  BY Finite!FS_Interval
<1>2. Finite!IsFiniteSet(S)
  BY <1>1, Finite!FS_Subset
<1> QED
  BY <1>2, SameCardinality, Finite!FS_CardinalityType

\* A set of blocks of one chain is finite, so the count of undone blocks is a number.
LEMMA FiniteBranch ==
    ASSUME NEW b \in Block, NEW S \in SUBSET Branch(b)
    PROVE  Cardinality(S) \in Nat
<1> DEFINE H == {Height(a) : a \in S}
<1>1. Height(b) \in Nat
  BY HeightType
<1>2. \A a \in S : a \in Block /\ Height(a) \in 0 .. Height(b) /\ a = Anc(b, Height(a))
  BY BranchBlocks, HeightType, SMTT(30)
<1>3. H \in SUBSET (0 .. Height(b))
  BY <1>2
<1> DEFINE f == [h \in H |-> Anc(b, h)]
<1>4. f \in Finite!Surjection(H, S)
  BY <1>2 DEF Finite!Surjection
<1> HIDE DEF H, f
<1>5. 0 \in Int /\ Height(b) \in Int
  BY <1>1, SMTT(30)
<1>6. Finite!IsFiniteSet(H)
  BY <1>3, <1>5, FiniteHeights
<1>7. Finite!IsFiniteSet(S)
  BY <1>4, <1>6, Finite!FS_Surjection
<1> QED
  BY <1>7, SameCardinality, Finite!FS_CardinalityType

\* As many blocks lie above height f of a chain as there are heights above f.
LEMMA CountAbove ==
    ASSUME NEW b \in Block, NEW f \in Nat, f <= Height(b)
    PROVE  Cardinality({Anc(b, h) : h \in f + 1 .. Height(b)}) = Height(b) - f
<1> DEFINE S == {Anc(b, h) : h \in f + 1 .. Height(b)}
           g == [h \in f + 1 .. Height(b) |-> Anc(b, h)]
<1>1. Height(b) \in Nat /\ \A h \in f + 1 .. Height(b) : h \in 0 .. Height(b)
  BY HeightType, SMTT(30)
<1>2. \A h \in f + 1 .. Height(b) : Height(Anc(b, h)) = h
  BY <1>1, AncType
<1>3. g \in Finite!Bijection(f + 1 .. Height(b), S)
  <2>1. g \in [f + 1 .. Height(b) -> S]
    OBVIOUS
  <2>2. \A h, k \in f + 1 .. Height(b) : g[h] = g[k] => h = k
    BY <1>2
  <2>3. \A x \in S : \E h \in f + 1 .. Height(b) : g[h] = x
    OBVIOUS
  <2> HIDE DEF g, S
  <2> QED
    BY <2>1, <2>2, <2>3 DEF Finite!Bijection, Finite!Injection, Finite!Surjection, Finite!IsInjective
<1> HIDE DEF S, g
<1>4. Finite!IsFiniteSet(f + 1 .. Height(b)) /\ Finite!Cardinality(f + 1 .. Height(b)) = Height(b) - f
  <2>1. /\ Finite!IsFiniteSet(f + 1 .. Height(b))
        /\ Finite!Cardinality(f + 1 .. Height(b)) = IF f + 1 > Height(b) THEN 0 ELSE Height(b) - (f + 1) + 1
    <3>1. f + 1 \in Int /\ Height(b) \in Int
      BY <1>1, SMTT(30)
    <3> QED
      BY <3>1, Finite!FS_Interval
  <2> QED
    BY <1>1, <2>1, SMTT(30)
<1>5. Finite!ExistsBijection(f + 1 .. Height(b), S)
  BY <1>3 DEF Finite!ExistsBijection
<1> QED
  BY <1>4, <1>5, SameCardinality, Finite!FS_Bijection DEF S

\* The hypothesis of the lemmas about oldest owners, last writers, last stored blocks
\* and counts of blocks holds in every tree.
LEMMA HeightFactsHold == HeightFacts
<1>1. ASSUME NEW S \in SUBSET Heights, S # {}
      PROVE  /\ \E h \in S : \A k \in S : h <= k
             /\ \E h \in S : \A k \in S : k <= h
  BY <1>1, LeastHeight, GreatestHeight
<1>2. \A S \in SUBSET Heights : S # {} =>
        /\ \E h \in S : \A k \in S : h <= k
        /\ \E h \in S : \A k \in S : k <= h
  BY <1>1
<1>3. \A S \in SUBSET Heights : Cardinality(S) \in Nat
  <2>1. Heights = 0 .. MaxHeight /\ 0 \in Int /\ MaxHeight \in Int
    BY TreeAssumption, SMTT(30) DEF Heights
  <2> QED
    BY <2>1, FiniteHeights
<1>4. \A b \in Block : \A S \in SUBSET Branch(b) : Cardinality(S) \in Nat
  BY FiniteBranch
<1>5. \A n \in Nat : Cardinality(0 .. n) = n + 1
  <2>1. \A n \in Nat : Cardinality(0 .. n) = n - 0 + 1
    BY SameCardinality, Finite!FS_Interval, SMTT(30)
  <2> QED
    BY <2>1, SMTT(30)
<1>6. \A b \in Block : \A f \in Nat : f <= Height(b) =>
        Cardinality({Anc(b, h) : h \in f + 1 .. Height(b)}) = Height(b) - f
  BY CountAbove
<1> QED
  BY <1>2, <1>3, <1>4, <1>5, <1>6 DEF HeightFacts

-----------------------------------------------------------------------------
(* The theorems.                                                           *)

\* The inductive invariant holds in every behaviour of the node, whatever the block
\* tree, the transactions and the sizes of the cache and of the finality window.
THEOREM ChainInvariantHolds == Spec => []ChainInv
<1>1. Init => ChainInv
  BY HeightFactsHold, InitInv
<1>2. ChainInv /\ [Next]_vars => ChainInv'
  BY HeightFactsHold, NextInv
<1> QED
  BY <1>1, <1>2, PTL DEF Spec

\* Type correctness: every variable keeps its type through extensions, reorgs, undone
\* reorgs, crashes and restarts.
THEOREM TypeCorrect == Spec => []TypeOK
<1>1. ChainInv => TypeOK
  BY DEF ChainInv
<1> QED
  BY <1>1, ChainInvariantHolds, PTL

\* add_block, with its reorg and undo paths, and the reload after a crash never leave
\* a key image spent twice on the chain of the tip, in memory or on disk.
THEOREM ChainNeverDoubleSpends == Spec => []NoDoubleSpend
<1>1. ChainInv => NoDoubleSpend
  BY DEF ChainInv
<1> QED
  BY <1>1, ChainInvariantHolds, PTL

\* Whenever no handler runs, get_block_hash answers with the chain of the tip: the
\* memory index names only blocks of that chain, and what it does not name the index
\* on disk does.
THEOREM IndexAlwaysNamesChain == Spec => []IndexNamesChain
<1>1. ChainInv => IndexNamesChain
  <2> SUFFICES ASSUME ChainInv, phase = "idle"
               PROVE  /\ tip.height = Height(tip.hash)
                      /\ \A h \in Heights : MainHash(h) = IF h <= tip.height THEN Anc(tip.hash, h)
                                                           ELSE NoBlock
    BY DEF IndexNamesChain
  <2>1. T \in Block /\ Height(T) \in Nat
    BY Fields, HeightType DEF ChainInv
  <2>2. tip.hash = T /\ tip.height = Height(T) /\ Applied = T
    BY SMTT(30) DEF ChainInv, TipOK, DiskOK, Tip, Applied
  <2>3. ASSUME NEW h \in Heights, height_to_hash[h] # NoBlock
        PROVE  h <= Height(T) /\ height_to_hash[h] = Anc(T, h)
    BY <2>2, <2>3 DEF ChainInv, IndexOK
  <2>4. ASSUME NEW h \in Heights
        PROVE  db_heights[h] = IF h <= Height(T) THEN Anc(T, h) ELSE NoBlock
    <3>1. CASE h <= Height(T)
      <4>1. h \in 0 .. Height(T)
        BY <2>1, <3>1, TreeAssumption, SMTT(30) DEF Heights
      <4> QED
        BY <3>1, <4>1 DEF ChainInv, DiskOK
    <3>2. CASE h > Height(T)
      <4>1. db_state.height = Height(T)
        BY DEF ChainInv, DiskOK
      <4>2. db_heights[h] = NoBlock
        BY <3>2, <4>1 DEF ChainInv, DiskOK
      <4>3. ~(h <= Height(T))
        BY <2>1, <3>2, TreeAssumption, SMTT(30) DEF Heights
      <4> QED
        BY <4>2, <4>3
    <3> QED
      BY <2>1, <3>1, <3>2, TreeAssumption, SMTT(30) DEF Heights
  <2> QED
    BY <2>1, <2>2, <2>3, <2>4 DEF MainHash
<1> QED
  BY <1>1, ChainInvariantHolds, PTL

-----------------------------------------------------------------------------
(* The theorems.                                                           *)

\* As long as the disconnect loop of add_block, which reads the cache only, finds the
\* block it is at, the UTXO set is the replay of the applied chain: at every stage of
\* every handler, after every failed reorg and after every crash and truncated load,
\* and whatever reads and writes of the database fail.
THEOREM UtxoAlwaysMatchesChain ==
    Spec /\ [][DisconnectsCached]_vars => []UtxoMatchesChain
<1>1. Init => LedgerInv
  BY HeightFactsHold, LedgerInit
<1>2. ChainInv /\ ChainInv' /\ LedgerInv /\ [Next]_vars /\ [DisconnectsCached]_vars => LedgerInv'
  BY HeightFactsHold, LedgerNext
<1>3. LedgerInv => UtxoMatchesChain
  BY DEF LedgerInv
<1> QED
  BY <1>1, <1>2, <1>3, ChainInvariantHolds, PTL DEF Spec

\* If, besides, no write fails and no crash falls into a reorg, the output index on disk
\* holds, between handlers, the rows of the chain of the tip for every address that one
\* transaction only uses: commits, reorgs and undone reorgs included.
THEOREM UnsharedRowsAlwaysMatchChain ==
    ASSUME ~WriteErrors
    PROVE  Spec /\ [][DisconnectsCached]_vars /\ [][CrashesOutsideReorg]_vars => []UnsharedRowsMatchChain
<1> DEFINE Inv == LedgerInv /\ StoredOK /\ RowsOK
<1>1. Init => Inv
  BY HeightFactsHold, LedgerInit
<1>2. ChainInv /\ ChainInv' /\ Inv /\ [Next]_vars /\ [DisconnectsCached]_vars /\ [CrashesOutsideReorg]_vars => Inv'
  <2>1. UNCHANGED vars => (Crash => ~MidReorg)
    BY DEF vars, Crash, MidReorg, Reorging
  <2> QED
    BY <2>1, HeightFactsHold, LedgerNext DEF CrashesOutsideReorg
<1>3. ChainInv /\ Inv => UnsharedRowsMatchChain
  <2>1. ChainInv /\ phase = "idle" => tip.hash = T
    BY SMTT(30) DEF ChainInv, TipOK, Tip
  <2> QED
    BY <2>1 DEF RowsOK, RowBase, UnsharedRowsMatchChain, RowsMatchChain
<1> QED
  BY <1>1, <1>2, <1>3, ChainInvariantHolds, PTL DEF Spec

\* If no read and no write of the database fails, the accumulators are, between handlers,
\* the sums over the chain of the tip, which is the committed one.
THEOREM StatsAlwaysMatchChain ==
    ASSUME Reliable
    PROVE  Spec /\ [][DisconnectsCached]_vars => []StatsMatchChain
<1> DEFINE Inv == LedgerInv /\ StoredOK /\ BooksInv
<1>1. Init => Inv
  BY HeightFactsHold, LedgerInit
<1>2. ChainInv /\ ChainInv' /\ Inv /\ [Next]_vars /\ [DisconnectsCached]_vars => Inv'
  BY HeightFactsHold, LedgerNext DEF Reliable
<1>3. ChainInv /\ Inv => StatsMatchChain
  <2> SUFFICES ASSUME ChainInv, BooksInv, phase = "idle"
               PROVE  /\ tip = Tip(db_state.tip_hash, Height(tip.hash))
                      /\ stats = Stats(CumWork(tip.hash), CumSupply(tip.hash), CumBurn(tip.hash), tip.height + 1)
    BY DEF StatsMatchChain
  <2>1. tip = Tip(T, Height(T)) /\ stats = StatsOf(T)
    BY DEF ChainInv, TipOK, DiskOK, BooksInv, StatsOK
  <2>2. tip.hash = T /\ tip.height = Height(T)
    BY <2>1, SMTT(30) DEF Tip
  <2> QED
    BY <2>1, <2>2 DEF StatsOf, T
<1> QED
  BY <1>1, <1>2, <1>3, ChainInvariantHolds, PTL DEF Spec

\* Then, too, the height index, the tx index and the saved state describe one stored
\* chain at every instant, so that a crash at any point leaves such a disk.
THEOREM DiskAlwaysDescribesOneChain ==
    ASSUME Reliable
    PROVE  Spec /\ [][DisconnectsCached]_vars => []DiskDescribesOneChain
<1> DEFINE Inv == LedgerInv /\ StoredOK /\ BooksInv
<1>1. Init => Inv
  BY HeightFactsHold, LedgerInit
<1>2. ChainInv /\ ChainInv' /\ Inv /\ [Next]_vars /\ [DisconnectsCached]_vars => Inv'
  BY HeightFactsHold, LedgerNext DEF Reliable
<1>3. Inv => DiskDescribesOneChain
  BY DEF BooksInv
<1> QED
  BY <1>1, <1>2, <1>3, ChainInvariantHolds, PTL DEF Spec

\* And the node implements CanonicalChain: whatever happens in memory and however often
\* the process dies, the committed tip is only replaced by a better, acceptable one that
\* keeps the finalised prefix.
THEOREM ChainImplementsCanonicalChain ==
    ASSUME Reliable
    PROVE  Spec /\ [][DisconnectsCached]_vars => ImplementsCanonicalChain
<1> DEFINE Inv == LedgerInv /\ StoredOK /\ BooksInv /\ ChoiceInv
<1>1. Init => Inv /\ Canonical!Init
  <2>1. Init => db_state.tip_hash = Genesis
    BY SMTT(30) DEF Init, State
  <2> QED
    BY <2>1, HeightFactsHold, LedgerInit DEF Canonical!Init
<1>2. ChainInv /\ ChainInv' /\ Inv /\ [Next]_vars /\ [DisconnectsCached]_vars => Inv'
  BY HeightFactsHold, LedgerNext DEF Reliable
<1>3. ChainInv /\ Inv /\ [Next]_vars => [Canonical!Next]_(db_state.tip_hash)
  BY HeightFactsHold, CommittedTipMoves
<1> QED
  BY <1>1, <1>2, <1>3, ChainInvariantHolds, PTL DEF Spec, ImplementsCanonicalChain, Canonical!Spec

\* What the theorems above suppose of the disconnect loop holds, if no read and no write
\* fails, wherever the kept window of the cache reaches below the finality floor of every
\* chain with as much work: WindowCovers, a condition on the constants alone.
THEOREM DisconnectLoopFindsItsBlocks ==
    ASSUME Reliable, WindowCovers
    PROVE  Spec => [][DisconnectsCached]_vars
<1> DEFINE Inv == LedgerInv /\ StoredOK /\ BooksInv /\ ChoiceInv /\ WindowInv
<1>1. Init => Inv
  BY HeightFactsHold, LedgerInit
<1>2. ChainInv /\ Inv => DisconnectsCached
  BY WindowReaches
<1>3. ChainInv /\ ChainInv' /\ Inv /\ [Next]_vars => Inv'
  BY <1>2, HeightFactsHold, LedgerNext DEF Reliable
<1> QED
  BY <1>1, <1>2, <1>3, ChainInvariantHolds, PTL DEF Spec

\* So, with these constants, the chain keeps its ledger, its statistics and its disk and
\* implements CanonicalChain in every behaviour, crashes at any point included.
THEOREM ReliableChainIsCorrect ==
    ASSUME Reliable, WindowCovers
    PROVE  Spec => /\ []UtxoMatchesChain /\ []StatsMatchChain /\ []DiskDescribesOneChain
                   /\ ImplementsCanonicalChain
<1> QED
  BY UtxoAlwaysMatchesChain, StatsAlwaysMatchChain, DiskAlwaysDescribesOneChain,
     ChainImplementsCanonicalChain, DisconnectLoopFindsItsBlocks, PTL

\* And where no depth rule applies, the cache keeps every block and the process does not
\* die, the tip is between handlers the best acceptable chain of all that is stored: no
\* fork that should win is ever left in the database, in whatever order blocks arrive and
\* however many reorgs fail.
THEOREM AlwaysFollowsBestChain ==
    ASSUME Reliable, NoDepthRules
    PROVE  Spec => []FollowsBestChain
<1> DEFINE Inv == LedgerInv /\ StoredOK /\ BooksInv /\ ChoiceInv /\ WindowInv /\ BestInv
<1>1. Init => Inv
  <2>1. Init => BestInv
    BY SMTT(30) DEF Init, BestInv, T, State
  <2> QED
    BY <2>1, HeightFactsHold, LedgerInit
<1>2. ChainInv /\ Inv => DisconnectsCached
  <2> SUFFICES ASSUME ChainInv, WindowInv, phase = "disconnect" PROVE height_to_hash[job.at] \in cache
    BY DEF DisconnectsCached, Disconnect
  <2>1. job.at \in Nat /\ job.fork \in Nat /\ job.fork < job.at
    BY ReorgFacts DEF Reorging, ChainInv, JobOK
  <2>2. PICK top \in Block : \A h \in 1 .. job.at : h + KeepBlocks >= Height(top) => height_to_hash[h] \in cache
    BY DEF WindowInv, Reach
  <2>3. job.at \in 1 .. job.at /\ job.at + KeepBlocks >= Height(top)
    BY <2>1, HeightType, TreeAssumption, ChainAssumption, SMTT(30) DEF NoDepthRules, Heights
  <2> QED
    BY <2>2, <2>3
<1>3. ChainInv /\ ChainInv' /\ Inv /\ [Next]_vars => Inv'
  <2> SUFFICES ASSUME ChainInv, ChainInv', Inv, [Next]_vars PROVE Inv'
    OBVIOUS
  <2>1. (LedgerInv /\ StoredOK /\ BooksInv /\ ChoiceInv /\ WindowInv)'
    BY <1>2, HeightFactsHold, LedgerNext DEF Reliable
  <2>2. BestInv'
    BY HeightFactsHold, BestNext
  <2> QED
    BY <2>1, <2>2
<1>4. ChainInv /\ Inv => FollowsBestChain
  <2> SUFFICES ASSUME ChainInv, BooksInv, BestInv, phase = "idle", NEW b \in db_blocks, AcceptableChain(b),
                      NEW f \in Heights, Reorganises(b, CumWork(b), f)
               PROVE  FALSE
    BY DEF FollowsBestChain
  <2>1. b \in Block /\ T \in Block
    BY Fields DEF ChainInv, TypeOK
  <2>2. tip.hash = T /\ stats.total_difficulty = CumWork(T)
    <3>1. tip = Tip(T, db_state.height) /\ stats = StatsOf(T)
      BY DEF ChainInv, TipOK, BooksInv, StatsOK
    <3> QED
      BY <3>1, SMTT(30) DEF Tip, StatsOf, Stats
  <2>3. Better(b, T)
    BY <2>2 DEF Reorganises, Better
  <2>4. b = T \/ Better(T, b)
    BY DEF BestInv
  <2> QED
    BY <2>1, <2>3, <2>4, BetterOrder
<1> QED
  BY <1>1, <1>2, <1>3, <1>4, ChainInvariantHolds, PTL DEF Spec
=============================================================================
