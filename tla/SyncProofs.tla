----------------------------- MODULE SyncProofs -----------------------------
(***************************************************************************)
(* Block sync keeps its books for any number of peers, blocks and faults:   *)
(* SyncInv is inductive, and a step of the node gives up a block it tracks  *)
(* only to start over.                                                      *)
(***************************************************************************)
EXTENDS SyncProperties, SubsequenceProofs

USE ZenonT(60)

\* The bounds are positive numbers, and a height is a natural number.
LEMMA Bounds ==
  /\ LastBlock \in Nat \ {0} /\ MaxConcurrent \in Nat \ {0} /\ MaxQueue \in Nat \ {0}
  /\ MaxOrphanBlocks \in Nat \ {0} /\ StuckLimit \in Nat \ {0} /\ MaxNonce \in Nat \ {0}
  /\ Height \subseteq Nat /\ Hash \subseteq Height /\ Hash \subseteq Nat \ {0}
  /\ \A h \in Height : h \in Hash <=> h # 0
  /\ 0 \in Height /\ LastBlock \in Height
<1>1. /\ LastBlock \in Nat \ {0} /\ MaxConcurrent \in Nat \ {0} /\ MaxQueue \in Nat \ {0}
      /\ MaxOrphanBlocks \in Nat \ {0} /\ StuckLimit \in Nat \ {0} /\ MaxNonce \in Nat \ {0}
  BY ChainSyncConstants
<1> QED
  BY <1>1, SMTT(30) DEF Height, Hash

\* The greatest of some heights is one of them.
LEMMA MaxHeight ==
  ASSUME NEW S \in SUBSET Height, S # {}
  PROVE  Max(S) \in S /\ Max(S) \in Height /\ \A x \in S : x <= Max(S)
<1>1. LastBlock \in Nat /\ S \in SUBSET (0..LastBlock)
  BY Bounds DEF Height
<1> QED
  BY <1>1, Extremes

\* What is left of a queue holds the elements that are not taken away.
LEMMA WithoutProperties ==
  ASSUME NEW S, NEW q \in Seq(S), NEW gone
  PROVE  Without(q, gone) \in Seq(S) /\ Range(Without(q, gone)) = Range(q) \ gone
<1> DEFINE D == {i \in DOMAIN q : q[i] \notin gone}
<1>1. D \subseteq DOMAIN q /\ DOMAIN q = 1..Len(q) /\ Len(q) \in Nat
  BY SMTT(30)
<1>2. Pick(q, D) \in Seq(S) /\ Range(Pick(q, D)) = {q[i] : i \in D}
  BY <1>1, PickProperties
<1>3. {q[i] : i \in D} = Range(q) \ gone
  BY DEF Range
<1> QED
  BY <1>2, <1>3 DEF Without

\* Dropping repetitions drops no element.
LEMMA DistinctProperties ==
  ASSUME NEW S, NEW q \in Seq(S)
  PROVE  Distinct(q) \in Seq(S) /\ Range(Distinct(q)) = Range(q)
<1> DEFINE D == {i \in DOMAIN q : \A j \in 1..(i - 1) : q[j] # q[i]}
<1>1. D \subseteq DOMAIN q /\ DOMAIN q = 1..Len(q) /\ Len(q) \in Nat
  BY SMTT(30)
<1>2. Pick(q, D) \in Seq(S) /\ Range(Pick(q, D)) = {q[i] : i \in D}
  BY <1>1, PickProperties
<1>3. ASSUME NEW i \in DOMAIN q
      PROVE  \E k \in D : q[k] = q[i]
  <2> DEFINE T == {k \in DOMAIN q : q[k] = q[i]}
  <2>1. T \in SUBSET (0..Len(q)) /\ T # {}
    BY <1>1, SMTT(30)
  <2>2. Min(T) \in T /\ \A x \in T : Min(T) <= x
    BY <1>1, <2>1, Extremes
  <2>3. ASSUME NEW j \in 1..(Min(T) - 1)
        PROVE  q[j] # q[i]
    <3>1. j \in DOMAIN q /\ ~(Min(T) <= j)
      BY <1>1, <2>1, <2>2, SMTT(30)
    <3> QED
      BY <2>2, <3>1
  <2> QED
    BY <2>2, <2>3
<1>4. Distinct(q) = Pick(q, D)
  BY DEF Distinct
<1> HIDE DEF D
<1>5. {q[i] : i \in D} = Range(q)
  BY <1>1, <1>3 DEF Range
<1> QED
  BY <1>2, <1>4, <1>5

\* get_blocks_to_request takes the front of the queue, and requests of it what is
\* not in flight.
LEMMA WindowProperties ==
  ASSUME NEW s \in SyncRecord
  PROVE  /\ Popped(s) \in 0..Len(s.queue)
         /\ Window(s) \in Seq(Hash)
         /\ Range(Window(s)) = Range(SubSeq(s.queue, 1, Popped(s))) \ s.down
<1>1. s.queue \in Seq(Hash)
  BY DEF SyncRecord
<1>2. Len(s.queue) \in Nat
  BY <1>1, SMTT(30)
<1> DEFINE C == {k \in 0..Len(s.queue) :
                   Cardinality(Range(SubSeq(s.queue, 1, k)) \ s.down) = Slots(s)}
<1>3. {Len(s.queue)} \cup C \in SUBSET (0..Len(s.queue)) /\ {Len(s.queue)} \cup C # {}
  BY <1>2, SMTT(30)
<1>4. Popped(s) \in 0..Len(s.queue)
  <2>1. Min({Len(s.queue)} \cup C) \in {Len(s.queue)} \cup C
    BY <1>2, <1>3, Extremes
  <2> QED
    BY <1>3, <2>1 DEF Popped
<1> DEFINE front == SubSeq(s.queue, 1, Popped(s))
<1>5. front \in Seq(Hash)
  BY <1>1, <1>4, CutProperties
<1> HIDE DEF front
<1>6. Without(front, s.down) \in Seq(Hash) /\ Range(Without(front, s.down)) = Range(front) \ s.down
  BY <1>5, WithoutProperties
<1>7. Window(s) = Distinct(Without(front, s.down))
  BY DEF Window, front
<1> QED
  BY <1>4, <1>6, <1>7, DistinctProperties DEF front

---------------------------------------------------------------------------
\* The blocks a ChainSync knows it still needs.
Known(s) == Range(s.queue) \cup s.down \cup s.pool

\* The driver is about to ask for headers again.
Over(s) == s.state \in {"Idle", "Headers"} /\ ~s.asked

\* A method that leaves the record consistent, the tip it knows alone, and loses
\* none of the blocks it needs.
Grows(s, r) == Consistent(r) /\ r.local = s.local /\ Known(s) \subseteq Known(r)

\* Forget takes blocks out of flight.
LEMMA ForgetKeeps ==
  ASSUME NEW s \in SyncRecord, Consistent(s), NEW H \in SUBSET Hash
  PROVE  /\ Consistent(Forget(s, H))
         /\ Forget(s, H).down = s.down \ H
         /\ Forget(s, H).queue = s.queue /\ Forget(s, H).owned = s.owned
         /\ Forget(s, H).pool = s.pool /\ Forget(s, H).local = s.local
         /\ Forget(s, H).state = s.state /\ Forget(s, H).asked = s.asked
<1> DEFINE order == Without(s.order, H \cap s.down)
           reqs == [h \in Hash |-> IF h \in H THEN None ELSE s.reqs[h]]
           r == [s EXCEPT !.down = s.down \ H, !.order = order, !.reqs = reqs]
<1>1. s \in SyncRecord
  BY DEF Consistent
<1>2. s.order \in Seq(Hash) /\ s.reqs \in [Hash -> Peer \cup {None}] /\ s.down \in SUBSET Hash
  BY <1>1 DEF SyncRecord
<1>3. order \in Seq(Hash) /\ Range(order) = Range(s.order) \ (H \cap s.down)
  BY <1>2, WithoutProperties
<1>4. reqs \in [Hash -> Peer \cup {None}]
  BY <1>2
<1>5. Forget(s, H) = r
  BY DEF Forget
<1>6. {h \in Hash : reqs[h] # None} = Requested(s) \ H
  BY DEF Requested
<1> HIDE DEF order, reqs
<1>7. /\ r \in SyncRecord /\ r.down = s.down \ H /\ r.order = order /\ r.reqs = reqs
      /\ r.queue = s.queue /\ r.owned = s.owned /\ r.pool = s.pool
      /\ r.local = s.local /\ r.state = s.state /\ r.asked = s.asked
  BY <1>2, <1>3, <1>4 DEF SyncRecord
<1> HIDE DEF r
<1>8. Requested(r) = Requested(s) \ H
  BY <1>6, <1>7 DEF Requested
<1>9. Consistent(r)
  BY <1>3, <1>7, <1>8 DEF Consistent
<1> QED
  BY <1>5, <1>7, <1>9

\* push_front_ordered requeues every block that was in flight.
LEMMA PushFrontKeeps ==
  ASSUME NEW s \in SyncRecord, Consistent(s), NEW H \in SUBSET Hash
  PROVE  /\ Grows(s, push_front_ordered(s, H))
         /\ push_front_ordered(s, H).asked = s.asked
         /\ s.state # "Synced" => push_front_ordered(s, H).state = s.state
<1> DEFINE f == Forget(s, H)
           D == {i \in DOMAIN s.order : s.order[i] \in H}
           front == Pick(s.order, D)
           queue == front \o s.queue
           state == IF H # {} /\ f.state = "Synced" THEN "Blocks" ELSE f.state
           r == [f EXCEPT !.queue = queue, !.order = s.order, !.state = state]
<1>1. /\ Consistent(f) /\ f.down = s.down \ H /\ f.queue = s.queue /\ f.owned = s.owned
      /\ f.pool = s.pool /\ f.local = s.local /\ f.state = s.state /\ f.asked = s.asked
  BY ForgetKeeps
<1>2. f \in SyncRecord
  BY <1>1 DEF Consistent
<1>3. r = push_front_ordered(s, H)
  BY <1>1 DEF push_front_ordered
<1>4. s.order \in Seq(Hash) /\ s.queue \in Seq(Hash)
  BY DEF SyncRecord
<1>5. D \in SUBSET (1..Len(s.order))
  BY <1>4, SMTT(30)
<1>6. front \in Seq(Hash) /\ Range(front) = {s.order[i] : i \in D}
  BY <1>4, <1>5, PickProperties
<1>7. {s.order[i] : i \in D} = Range(s.order) \cap H
  BY DEF Range
<1> HIDE DEF front, D, f
<1>8. queue \in Seq(Hash) /\ Range(queue) = (Range(s.order) \cap H) \cup Range(s.queue)
  BY <1>1, <1>4, <1>6, <1>7, JoinProperties, SMTT(30)
<1>9. state \in {"Idle", "Headers", "Blocks", "ConfirmingSynced", "Synced"}
      /\ (s.state # "Synced" => state = s.state)
  BY <1>1, <1>2 DEF SyncRecord
<1> HIDE DEF queue, state
<1>10. /\ r \in SyncRecord /\ r.queue = queue /\ r.order = s.order /\ r.state = state
       /\ r.down = f.down /\ r.owned = f.owned /\ r.pool = f.pool /\ r.local = f.local
       /\ r.asked = f.asked /\ r.reqs = f.reqs
  BY <1>2, <1>4, <1>8, <1>9 DEF SyncRecord
<1> HIDE DEF r
<1>11. Requested(r) \subseteq r.down
  BY <1>1, <1>10 DEF Consistent, Requested
<1>12. Consistent(r)
  BY <1>1, <1>8, <1>10, <1>11 DEF Consistent
<1>13. Known(s) \subseteq Known(r)
  BY <1>1, <1>8, <1>10 DEF Known, Consistent
<1> QED
  BY <1>1, <1>3, <1>9, <1>10, <1>12, <1>13 DEF Grows

\* requeue_failed puts blocks at the front of the queue.
LEMMA RequeueKeeps ==
  ASSUME NEW s \in SyncRecord, Consistent(s), NEW q \in Seq(Hash)
  PROVE  /\ Grows(s, requeue_failed(s, q))
         /\ requeue_failed(s, q).asked = s.asked
         /\ s.state # "Synced" => requeue_failed(s, q).state = s.state
<1> DEFINE f == Forget(s, Range(q))
           queue == q \o s.queue
           state == IF q # <<>> /\ f.state = "Synced" THEN "Blocks" ELSE f.state
           r == [f EXCEPT !.queue = queue, !.order = s.order, !.state = state]
<1>0. Range(q) \in SUBSET Hash
  BY EndsProperties
<1>1. /\ Consistent(f) /\ f.down = s.down \ Range(q) /\ f.queue = s.queue /\ f.owned = s.owned
      /\ f.pool = s.pool /\ f.local = s.local /\ f.state = s.state /\ f.asked = s.asked
  BY <1>0, ForgetKeeps
<1>2. f \in SyncRecord
  BY <1>1 DEF Consistent
<1>3. r = requeue_failed(s, q)
  BY <1>1 DEF requeue_failed
<1>4. s.order \in Seq(Hash) /\ s.queue \in Seq(Hash)
  BY DEF SyncRecord
<1> HIDE DEF f
<1>5. queue \in Seq(Hash) /\ Range(queue) = Range(q) \cup Range(s.queue)
  BY <1>1, <1>4, JoinProperties, SMTT(30)
<1>6. state \in {"Idle", "Headers", "Blocks", "ConfirmingSynced", "Synced"}
      /\ (s.state # "Synced" => state = s.state)
  BY <1>1, <1>2 DEF SyncRecord
<1> HIDE DEF queue, state
<1>7. /\ r \in SyncRecord /\ r.queue = queue /\ r.order = s.order /\ r.state = state
      /\ r.down = f.down /\ r.owned = f.owned /\ r.pool = f.pool /\ r.local = f.local
      /\ r.asked = f.asked /\ r.reqs = f.reqs
  BY <1>2, <1>4, <1>5, <1>6 DEF SyncRecord
<1> HIDE DEF r
<1>8. Requested(r) \subseteq r.down
  BY <1>1, <1>7 DEF Consistent, Requested
<1>9. Consistent(r)
  BY <1>1, <1>5, <1>7, <1>8 DEF Consistent
<1>10. Known(s) \subseteq Known(r)
  BY <1>1, <1>5, <1>7 DEF Known, Consistent
<1> QED
  BY <1>1, <1>3, <1>6, <1>7, <1>9, <1>10 DEF Grows

\* A method that loses blocks only to start over.
Onward(s, r) ==
    /\ Consistent(r) /\ r.local = s.local
    /\ Known(s) \subseteq Known(r) \/ Over(r)
    /\ Over(s) => Over(r)

\* Such methods follow one another.
LEMMA OnwardTwice ==
  ASSUME NEW s, NEW r, NEW q, Onward(s, r), Onward(r, q)
  PROVE  Onward(s, q)
BY DEF Onward

\* A method that touches none of the block collections keeps them consistent.
LEMMA SameBooks ==
  ASSUME NEW s \in SyncRecord, Consistent(s), NEW r \in SyncRecord,
         r.queue = s.queue, r.owned = s.owned, r.down = s.down, r.order = s.order,
         r.reqs = s.reqs, r.pool = s.pool
  PROVE  Consistent(r) /\ Known(r) = Known(s)
<1>1. Requested(r) = Requested(s)
  BY DEF Requested
<1> QED
  BY <1>1 DEF Consistent, Known

\* push_front_ordered in the driver's tick.
LEMMA PushFrontOnward ==
  ASSUME NEW s \in SyncRecord, Consistent(s), NEW H \in SUBSET Hash
  PROVE  Onward(s, push_front_ordered(s, H))
<1> DEFINE r == push_front_ordered(s, H)
<1>1. Grows(s, r) /\ r.asked = s.asked /\ (s.state # "Synced" => r.state = s.state)
  BY PushFrontKeeps
<1> HIDE DEF r
<1>2. Over(s) => Over(r)
  BY <1>1 DEF Over
<1> QED
  BY <1>1, <1>2 DEF Grows, Onward, r

\* ToHeaders asks again with the books as they are.
LEMMA ToHeadersKeeps ==
  ASSUME NEW s \in SyncRecord, Consistent(s)
  PROVE  /\ ToHeaders(s) \in SyncRecord /\ Grows(s, ToHeaders(s)) /\ Over(ToHeaders(s))
         /\ ToHeaders(s).order = s.order /\ ToHeaders(s).down = s.down
         /\ ToHeaders(s).state = "Headers" /\ ToHeaders(s).reqs = s.reqs
         /\ ToHeaders(s).pool = s.pool
<1> DEFINE r == [s EXCEPT !.state = "Headers", !.asked = FALSE, !.answered = FALSE]
<1>1. /\ r \in SyncRecord /\ r.state = "Headers" /\ r.asked = FALSE /\ r.local = s.local
      /\ r.queue = s.queue /\ r.owned = s.owned /\ r.down = s.down /\ r.order = s.order
      /\ r.reqs = s.reqs /\ r.pool = s.pool
  BY DEF SyncRecord
<1>2. r = ToHeaders(s)
  BY DEF ToHeaders
<1> HIDE DEF r
<1>3. Consistent(r) /\ Known(r) = Known(s)
  BY <1>1, SameBooks
<1> QED
  BY <1>1, <1>2, <1>3 DEF Grows, Over

\* get_blocks_to_retry requeues what is late or stuck; it drops the queue only
\* together with the Blocks state.
LEMMA RetryKeeps ==
  ASSUME NEW s \in SyncRecord, Consistent(s), NEW late \in SUBSET Hash, NEW stuck \in SUBSET Hash
  PROVE  /\ Onward(s, get_blocks_to_retry(s, late, stuck))
         /\ s.state \notin {"Blocks", "Synced"} =>
              /\ Grows(s, get_blocks_to_retry(s, late, stuck))
              /\ get_blocks_to_retry(s, late, stuck).asked = s.asked
<1> DEFINE a == push_front_ordered(s, late)
           t == push_front_ordered(a, stuck)
           u == ToHeaders(t)
           order == Without(u.order, Range(u.order) \ t.down)
           r == [u EXCEPT !.queue = <<>>, !.order = order, !.owned = {}]
<1>1. /\ Onward(s, a) /\ Grows(s, a) /\ a.asked = s.asked
      /\ (s.state # "Synced" => a.state = s.state)
  BY PushFrontKeeps, PushFrontOnward
<1>2. a \in SyncRecord /\ Consistent(a)
  BY <1>1 DEF Grows, Consistent
<1> HIDE DEF a
<1>3. /\ Onward(a, t) /\ Grows(a, t) /\ t.asked = a.asked
      /\ (a.state # "Synced" => t.state = a.state)
  BY <1>2, PushFrontKeeps, PushFrontOnward
<1>4. t \in SyncRecord /\ Consistent(t)
  BY <1>3 DEF Grows, Consistent
<1>5. get_blocks_to_retry(s, late, stuck) =
        IF Cardinality(stuck) >= StuckLimit /\ t.state = "Blocks" THEN r ELSE t
  BY DEF get_blocks_to_retry, a
<1> HIDE DEF t
<1>6. Onward(s, t)
  BY <1>1, <1>3, OnwardTwice
<1>7. /\ u \in SyncRecord /\ Grows(t, u) /\ Over(u) /\ u.down = t.down /\ u.order = t.order
      /\ u.reqs = t.reqs /\ u.pool = t.pool
  BY <1>4, ToHeadersKeeps
<1> HIDE DEF u
<1>8. u.order \in Seq(Hash)
  BY <1>7 DEF SyncRecord
<1>9. order \in Seq(Hash) /\ Range(order) = Range(u.order) \ (Range(u.order) \ t.down)
  BY <1>8, WithoutProperties
<1> HIDE DEF order
<1>10. <<>> \in Seq(Hash)
  BY SMTT(30)
<1>11. /\ r \in SyncRecord /\ r.owned = {} /\ r.order = order /\ r.down = u.down
       /\ r.reqs = u.reqs /\ r.pool = u.pool /\ r.local = u.local /\ r.state = u.state
       /\ r.asked = u.asked
  BY <1>7, <1>9, <1>10 DEF SyncRecord
<1> HIDE DEF r
<1>12. Requested(r) = Requested(t)
  BY <1>7, <1>11 DEF Requested
<1>13. Consistent(r) /\ Over(r) /\ r.local = s.local
  BY <1>1, <1>3, <1>4, <1>7, <1>9, <1>11, <1>12 DEF Consistent, Over, Grows
<1>14. CASE Cardinality(stuck) >= StuckLimit /\ t.state = "Blocks"
  <2>1. s.state \in {"Blocks", "Synced"}
    BY <1>1, <1>3, <1>14
  <2> QED
    BY <1>5, <1>13, <1>14, <2>1 DEF Onward
<1>15. CASE ~(Cardinality(stuck) >= StuckLimit /\ t.state = "Blocks")
  BY <1>1, <1>3, <1>5, <1>6, <1>15 DEF Grows
<1> QED
  BY <1>14, <1>15

\* get_blocks_to_request moves the front of the queue into flight.
LEMMA RequestKeeps ==
  ASSUME NEW s \in SyncRecord, Consistent(s)
  PROVE  Onward(s, get_blocks_to_request(s))
<1> DEFINE W == Window(s)
           k == Popped(s)
           front == SubSeq(s.queue, 1, k)
           rest == SubSeq(s.queue, k + 1, Len(s.queue))
           added == Without(W, Range(s.order))
           order == s.order \o added
           owned == s.owned \ Range(front)
           down == s.down \cup Range(W)
           o == [s EXCEPT !.order = order]
           r == [o EXCEPT !.queue = rest, !.owned = owned, !.down = down]
<1>1. /\ s.order \in Seq(Hash) /\ s.queue \in Seq(Hash) /\ s.down \in SUBSET Hash
      /\ s.owned \in SUBSET Hash
  BY DEF SyncRecord
<1>2. k \in 0..Len(s.queue) /\ W \in Seq(Hash) /\ Range(W) = Range(front) \ s.down
  BY WindowProperties
<1>3. o \in SyncRecord => o.queue = s.queue /\ o.owned = s.owned /\ o.down = s.down
  BY DEF SyncRecord
<1>19. InOrder(s, W) = o
  BY DEF InOrder
<1> HIDE DEF o
<1>20. get_blocks_to_request(s) =
         [o EXCEPT !.queue = SubSeq(o.queue, k + 1, Len(o.queue)),
                   !.owned = o.owned \ Range(front), !.down = o.down \cup Range(W)]
  BY <1>19 DEF get_blocks_to_request
<1> USE DEF o
<1> HIDE DEF W, k
<1>4. /\ front \in Seq(Hash) /\ rest \in Seq(Hash)
      /\ Range(s.queue) = Range(front) \cup Range(rest)
  BY <1>1, <1>2, CutProperties
<1> HIDE DEF front, rest
<1>5. added \in Seq(Hash) /\ Range(added) = Range(W) \ Range(s.order)
  BY <1>2, WithoutProperties, SMTT(30)
<1> HIDE DEF added
<1>6. order \in Seq(Hash) /\ Range(order) = Range(s.order) \cup Range(added)
  BY <1>1, <1>5, JoinProperties, SMTT(30)
<1> HIDE DEF order
<1>7. down \in SUBSET Hash /\ owned \in SUBSET Hash
  <2>1. Range(W) \subseteq Hash
    BY <1>2, EndsProperties
  <2> QED
    BY <1>1, <2>1
<1> HIDE DEF down, owned
<1>8. o \in SyncRecord /\ o.order = order /\ o.pool = s.pool /\ o.reqs = s.reqs
      /\ o.local = s.local /\ o.state = s.state /\ o.asked = s.asked
  BY <1>6 DEF SyncRecord
<1>18. o.queue = s.queue /\ o.owned = s.owned /\ o.down = s.down
  BY <1>3, <1>8
<1> HIDE DEF o
<1>9. r = get_blocks_to_request(s)
  BY <1>18, <1>20 DEF rest, owned, down
<1>10. /\ r \in SyncRecord /\ r.queue = rest /\ r.owned = owned /\ r.down = down
       /\ r.order = o.order /\ r.pool = o.pool /\ r.reqs = o.reqs /\ r.local = o.local
       /\ r.state = o.state /\ r.asked = o.asked
  BY <1>4, <1>7, <1>8 DEF SyncRecord
<1> HIDE DEF r
<1>11. Requested(r) = Requested(s)
  BY <1>8, <1>10 DEF Requested
<1>12. Requested(r) \subseteq r.down
  BY <1>10, <1>11 DEF Consistent, down
<1>13. r.owned \subseteq Range(r.queue)
  BY <1>4, <1>10 DEF Consistent, owned
<1>14. r.down \subseteq Range(r.order)
  BY <1>5, <1>6, <1>8, <1>10 DEF Consistent, down
<1>15. Consistent(r)
  BY <1>8, <1>10, <1>12, <1>13, <1>14 DEF Consistent
<1>16. Known(s) \subseteq Known(r)
  BY <1>2, <1>4, <1>8, <1>10 DEF Known, down
<1>17. Over(s) => Over(r)
  BY <1>8, <1>10 DEF Over
<1> QED
  BY <1>8, <1>9, <1>10, <1>15, <1>16, <1>17 DEF Onward

\* The headers request is given up.
LEMMA ResetKeeps ==
  ASSUME NEW s \in SyncRecord, Consistent(s)
  PROVE  /\ reset_headers_timeout(s) \in SyncRecord
         /\ Grows(s, reset_headers_timeout(s)) /\ Onward(s, reset_headers_timeout(s))
         /\ reset_headers_timeout(s).asked = FALSE
         /\ reset_headers_timeout(s).state = s.state
<1> DEFINE none == [n \in Nonce |-> None]
           r == [s EXCEPT !.asked = FALSE, !.answered = FALSE, !.nonces = none]
<1>1. none \in [Nonce -> Peer \cup {None}]
  OBVIOUS
<1>2. r = reset_headers_timeout(s)
  BY DEF reset_headers_timeout
<1> HIDE DEF none
<1>3. /\ r \in SyncRecord /\ r.asked = FALSE /\ r.local = s.local /\ r.state = s.state
      /\ r.queue = s.queue /\ r.owned = s.owned /\ r.down = s.down /\ r.order = s.order
      /\ r.reqs = s.reqs /\ r.pool = s.pool
  BY <1>1 DEF SyncRecord
<1> HIDE DEF r
<1>4. Consistent(r) /\ Known(r) = Known(s)
  BY <1>3, SameBooks
<1> QED
  BY <1>2, <1>3, <1>4 DEF Grows, Onward, Over

\* A tick or the emergency recovery starts over.
LEMMA StartOverKeeps ==
  ASSUME NEW s \in SyncRecord, Consistent(s)
  PROVE  Onward(s, StartOver(s)) /\ Over(StartOver(s))
<1> DEFINE t == reset_headers_timeout(s)
           r == [t EXCEPT !.state = "Headers"]
<1>1. t \in SyncRecord /\ Grows(s, t) /\ t.asked = FALSE /\ Consistent(t)
  BY ResetKeeps DEF Grows
<1>2. r = StartOver(s)
  BY DEF StartOver
<1> HIDE DEF t
<1>3. /\ r \in SyncRecord /\ r.asked = t.asked /\ r.local = t.local /\ r.state = "Headers"
      /\ r.queue = t.queue /\ r.owned = t.owned /\ r.down = t.down /\ r.order = t.order
      /\ r.reqs = t.reqs /\ r.pool = t.pool
  BY <1>1 DEF SyncRecord
<1> HIDE DEF r
<1>4. Consistent(r)
  BY <1>1, <1>3, SameBooks
<1> QED
  BY <1>1, <1>2, <1>3, <1>4 DEF Grows, Onward, Over

\* The Blocks arm of the driver's tick, step after step.
LEMMA BlocksTickKeeps ==
  ASSUME sync \in SyncRecord, Consistent(sync),
         NEW late \in SUBSET Hash, NEW stuck \in SUBSET Hash, NEW stalled
  PROVE  /\ Onward(sync, BlocksTicked(late, stuck, stalled).sync)
         /\ BlocksTicked(late, stuck, stalled).window \in Seq(Hash)
<1> DEFINE a == get_blocks_to_retry(sync, late, stuck)
           s == recover_stuck_downloads(a)
           W == Window(s)
           t == get_blocks_to_request(s)
           u == CASE W = <<>> ->
                       IF t.queue = <<>> /\ t.down = {} /\ true_best_height(t) > height
                       THEN StartOver(t) ELSE t
                  [] W # <<>> /\ Connected = {} -> StartOver(requeue_failed(t, W))
                  [] OTHER -> t
           r == IF stalled /\ true_best_height(u) > height + 2 THEN StartOver(u) ELSE u
<1>1. BlocksTicked(late, stuck, stalled) = [sync |-> r, window |-> W]
  BY DEF BlocksTicked
<1>2. Onward(sync, a)
  BY RetryKeeps
<1> HIDE DEF a
<1>3. a \in SyncRecord /\ Consistent(a)
  BY <1>2 DEF Onward, Consistent
<1>4. Onward(a, s)
  <2>1. Stuck(a) \in SUBSET Hash
    BY <1>3 DEF Stuck, SyncRecord
  <2> QED
    BY <1>3, <2>1, PushFrontOnward DEF recover_stuck_downloads
<1> HIDE DEF s
<1>5. s \in SyncRecord /\ Consistent(s)
  BY <1>4 DEF Onward, Consistent
<1>6. Onward(s, t) /\ W \in Seq(Hash)
  BY <1>5, RequestKeeps, WindowProperties
<1> HIDE DEF t, W
<1>7. t \in SyncRecord /\ Consistent(t)
  BY <1>6 DEF Onward, Consistent
<1>8. Onward(t, StartOver(t))
  BY <1>7, StartOverKeeps
<1>9. Onward(t, StartOver(requeue_failed(t, W)))
  <2> DEFINE q == requeue_failed(t, W)
  <2>1. Grows(t, q) /\ q.asked = t.asked /\ (t.state # "Synced" => q.state = t.state)
    BY <1>6, <1>7, RequeueKeeps
  <2> HIDE DEF q
  <2>2. Onward(t, q) /\ q \in SyncRecord /\ Consistent(q)
    BY <2>1 DEF Grows, Onward, Over, Consistent
  <2>3. Onward(q, StartOver(q))
    BY <2>2, StartOverKeeps
  <2>4. Onward(t, StartOver(q))
    BY <2>2, <2>3, OnwardTwice
  <2> QED
    BY <2>4 DEF q
<1>10. Onward(t, t)
  BY <1>7 DEF Onward
<1>11. Onward(t, u)
  BY <1>8, <1>9, <1>10
<1> HIDE DEF u
<1>12. u \in SyncRecord /\ Consistent(u)
  BY <1>11 DEF Onward, Consistent
<1>13. Onward(u, StartOver(u)) /\ Onward(u, u)
  BY <1>12, StartOverKeeps DEF Onward
<1>14. Onward(u, r)
  BY <1>13
<1> HIDE DEF r
<1>15. Onward(sync, s)
  BY <1>2, <1>4, OnwardTwice
<1>16. Onward(s, u)
  BY <1>6, <1>11, OnwardTwice
<1>17. Onward(sync, u)
  BY <1>15, <1>16, OnwardTwice
<1>18. Onward(sync, r)
  BY <1>14, <1>17, OnwardTwice
<1>19. BlocksTicked(late, stuck, stalled).sync = r /\ BlocksTicked(late, stuck, stalled).window = W
  BY <1>1, SMTT(30)
<1> QED
  BY <1>6, <1>18, <1>19

---------------------------------------------------------------------------
\* A method that only changes heights, the state or the headers request.
LEMMA Tells ==
  ASSUME NEW s \in SyncRecord, Consistent(s), NEW r \in SyncRecord,
         r.queue = s.queue, r.owned = s.owned, r.down = s.down, r.order = s.order,
         r.reqs = s.reqs, r.pool = s.pool, r.local = s.local
  PROVE  Grows(s, r)
BY SameBooks DEF Grows

\* refresh_best_known takes the greatest of the heights known.
LEMMA RefreshKeeps ==
  ASSUME NEW s \in SyncRecord
  PROVE  /\ refresh_best_known(s) \in SyncRecord
         /\ refresh_best_known(s).queue = s.queue /\ refresh_best_known(s).owned = s.owned
         /\ refresh_best_known(s).down = s.down /\ refresh_best_known(s).order = s.order
         /\ refresh_best_known(s).reqs = s.reqs /\ refresh_best_known(s).pool = s.pool
         /\ refresh_best_known(s).local = s.local /\ refresh_best_known(s).state = s.state
         /\ refresh_best_known(s).asked = s.asked
<1> DEFINE best == Max({s.local, PeerMax(s)})
           r == [s EXCEPT !.best = best]
<1>1. s.heights \in [Peer -> Height] /\ s.local \in Height
  BY DEF SyncRecord
<1>2. Range(s.heights) \cup {0} \in SUBSET Height
  BY <1>1, Bounds DEF Range
<1>3. PeerMax(s) \in Height
  BY <1>2, MaxHeight DEF PeerMax
<1>4. best \in Height
  BY <1>1, <1>3, MaxHeight
<1>5. r = refresh_best_known(s)
  BY DEF refresh_best_known
<1> HIDE DEF best
<1>6. /\ r \in SyncRecord /\ r.local = s.local /\ r.state = s.state /\ r.asked = s.asked
      /\ r.queue = s.queue /\ r.owned = s.owned /\ r.down = s.down /\ r.order = s.order
      /\ r.reqs = s.reqs /\ r.pool = s.pool
  BY <1>4 DEF SyncRecord
<1> QED
  BY <1>5, <1>6

\* update_peer_height_for and on_peer_disconnected set what a peer claims.
LEMMA ClaimKeeps ==
  ASSUME NEW s \in SyncRecord, Consistent(s), NEW p \in Peer, NEW h \in Height
  PROVE  /\ refresh_best_known([s EXCEPT !.heights[p] = h]) \in SyncRecord
         /\ Grows(s, refresh_best_known([s EXCEPT !.heights[p] = h]))
<1> DEFINE heights == [s.heights EXCEPT ![p] = h]
           c == [s EXCEPT !.heights = heights]
           r == refresh_best_known(c)
<1>1. s.heights \in [Peer -> Height]
  BY DEF SyncRecord
<1>2. heights \in [Peer -> Height]
  BY <1>1
<1>3. [s EXCEPT !.heights[p] = h] = c
  OBVIOUS
<1> HIDE DEF heights
<1>4. /\ c \in SyncRecord /\ c.local = s.local
      /\ c.queue = s.queue /\ c.owned = s.owned /\ c.down = s.down /\ c.order = s.order
      /\ c.reqs = s.reqs /\ c.pool = s.pool
  BY <1>2 DEF SyncRecord
<1> HIDE DEF c
<1>5. /\ r \in SyncRecord /\ r.local = c.local
      /\ r.queue = c.queue /\ r.owned = c.owned /\ r.down = c.down /\ r.order = c.order
      /\ r.reqs = c.reqs /\ r.pool = c.pool
  BY <1>4, RefreshKeeps
<1> HIDE DEF r
<1>6. Grows(s, r)
  BY <1>4, <1>5, Tells
<1> QED
  BY <1>3, <1>5, <1>6 DEF r

\* A peer's height is heard of.
LEMMA PeerHeightKeeps ==
  ASSUME NEW s \in SyncRecord, Consistent(s), NEW p \in Peer, NEW h \in Height
  PROVE  /\ update_peer_height_for(s, p, h) \in SyncRecord
         /\ Grows(s, update_peer_height_for(s, p, h))
<1> DEFINE v == IF h <= s.local THEN 0 ELSE h
           c == refresh_best_known([s EXCEPT !.heights[p] = v])
<1>1. v \in Height
  BY Bounds
<1>2. update_peer_height_for(s, p, h) =
        IF h > s.local /\ s.state \in {"Synced", "Idle", "ConfirmingSynced"}
        THEN ToHeaders(c) ELSE c
  BY DEF update_peer_height_for
<1> HIDE DEF v
<1>3. c \in SyncRecord /\ Grows(s, c)
  BY <1>1, ClaimKeeps
<1> HIDE DEF c
<1>4. Consistent(c)
  BY <1>3 DEF Grows
<1>5. ToHeaders(c) \in SyncRecord /\ Grows(c, ToHeaders(c))
  BY <1>3, <1>4, ToHeadersKeeps
<1>6. Grows(s, ToHeaders(c))
  BY <1>3, <1>5 DEF Grows
<1> QED
  BY <1>2, <1>3, <1>5, <1>6

\* What a lost peer was asked for is queued again.
LEMMA DisconnectKeeps ==
  ASSUME NEW s \in SyncRecord, Consistent(s), NEW p \in Peer
  PROVE  Grows(s, on_peer_disconnected(s, p))
<1> DEFINE c == refresh_best_known([s EXCEPT !.heights[p] = 0])
           H == {h \in Hash : s.reqs[h] = p}
<1>1. c \in SyncRecord /\ Grows(s, c)
  BY Bounds, ClaimKeeps
<1>2. on_peer_disconnected(s, p) = push_front_ordered(c, H)
  BY DEF on_peer_disconnected
<1>3. H \in SUBSET Hash
  OBVIOUS
<1> HIDE DEF c, H
<1>4. Grows(c, push_front_ordered(c, H))
  BY <1>1, <1>3, PushFrontKeeps DEF Grows
<1> QED
  BY <1>1, <1>2, <1>4 DEF Grows

\* The GetHeaders exchange: the request, the answer, and the end of both.
LEMMA ExchangeKeeps ==
  ASSUME NEW s \in SyncRecord, Consistent(s), NEW n \in Nonce, NEW p \in Peer, NEW h \in Height
  PROVE  /\ Grows(s, begin_headers_request(s, p, n))
         /\ Grows(s, mark_headers_received(s))
         /\ Grows(s, validate_header_nonce(s, n))
         /\ Grows(s, update_peer_height(s, h))
<1>1. s.nonces \in [Nonce -> Peer \cup {None}] /\ s.local \in Height /\ s.best \in Height
  BY DEF SyncRecord
<1>2. Grows(s, begin_headers_request(s, p, n))
  <2> DEFINE nonces == [s.nonces EXCEPT ![n] = p]
             r == [s EXCEPT !.nonces = nonces, !.asked = TRUE, !.answered = FALSE]
  <2>1. nonces \in [Nonce -> Peer \cup {None}]
    BY <1>1
  <2>2. r = begin_headers_request(s, p, n)
    BY DEF begin_headers_request
  <2> HIDE DEF nonces
  <2>3. /\ r \in SyncRecord /\ r.local = s.local /\ r.queue = s.queue /\ r.owned = s.owned
        /\ r.down = s.down /\ r.order = s.order /\ r.reqs = s.reqs /\ r.pool = s.pool
    BY <2>1 DEF SyncRecord
  <2> HIDE DEF r
  <2> QED
    BY <2>2, <2>3, Tells
<1>3. Grows(s, mark_headers_received(s))
  <2> DEFINE r == [s EXCEPT !.answered = TRUE]
  <2>1. /\ r \in SyncRecord /\ r.local = s.local /\ r.queue = s.queue /\ r.owned = s.owned
        /\ r.down = s.down /\ r.order = s.order /\ r.reqs = s.reqs /\ r.pool = s.pool
    BY DEF SyncRecord
  <2>2. r = mark_headers_received(s)
    BY DEF mark_headers_received
  <2> HIDE DEF r
  <2> QED
    BY <2>1, <2>2, Tells
<1>4. Grows(s, validate_header_nonce(s, n))
  <2> DEFINE nonces == [s.nonces EXCEPT ![n] = None]
             r == [s EXCEPT !.nonces = nonces, !.asked = FALSE, !.answered = FALSE]
  <2>1. nonces \in [Nonce -> Peer \cup {None}]
    BY <1>1
  <2>2. r = validate_header_nonce(s, n)
    BY DEF validate_header_nonce
  <2> HIDE DEF nonces
  <2>3. /\ r \in SyncRecord /\ r.local = s.local /\ r.queue = s.queue /\ r.owned = s.owned
        /\ r.down = s.down /\ r.order = s.order /\ r.reqs = s.reqs /\ r.pool = s.pool
    BY <2>1 DEF SyncRecord
  <2> HIDE DEF r
  <2> QED
    BY <2>2, <2>3, Tells
<1>5. Grows(s, update_peer_height(s, h))
  <2> DEFINE best == Max({s.best, h, s.local})
             r == [s EXCEPT !.best = best]
  <2>1. best \in Height
    BY <1>1, MaxHeight
  <2>2. r = update_peer_height(s, h)
    BY DEF update_peer_height
  <2> HIDE DEF best
  <2>3. /\ r \in SyncRecord /\ r.local = s.local /\ r.queue = s.queue /\ r.owned = s.owned
        /\ r.down = s.down /\ r.order = s.order /\ r.reqs = s.reqs /\ r.pool = s.pool
    BY <2>1 DEF SyncRecord
  <2> HIDE DEF r
  <2> QED
    BY <2>2, <2>3, Tells
<1> QED
  BY <1>2, <1>3, <1>4, <1>5

\* A state change alone.
LEMMA StateKeeps ==
  ASSUME NEW s \in SyncRecord, Consistent(s),
         NEW to \in {"Idle", "Headers", "Blocks", "ConfirmingSynced", "Synced"}
  PROVE  [s EXCEPT !.state = to] \in SyncRecord /\ Grows(s, [s EXCEPT !.state = to])
<1> DEFINE r == [s EXCEPT !.state = to]
<1>1. /\ r \in SyncRecord /\ r.local = s.local /\ r.queue = s.queue /\ r.owned = s.owned
      /\ r.down = s.down /\ r.order = s.order /\ r.reqs = s.reqs /\ r.pool = s.pool
  BY DEF SyncRecord
<1> HIDE DEF r
<1>2. Grows(s, r)
  BY <1>1, Tells
<1> QED
  BY <1>1, <1>2 DEF r

\* An announcement re-arms the cycle.
LEMMA RearmKeeps ==
  ASSUME NEW s \in SyncRecord, Consistent(s)
  PROVE  Grows(s, trigger_resync(s)) /\ Grows(s, arm_near_tip_catchup(s))
<1>1. Grows(s, s) /\ Grows(s, ToHeaders(s))
  BY ToHeadersKeeps DEF Grows
<1> QED
  BY <1>1 DEF trigger_resync, arm_near_tip_catchup

\* What is left of a limit, if anything.
LEMMA MaxWithZero ==
  ASSUME NEW x \in Int
  PROVE  Max({0, x}) \in Nat /\ x <= Max({0, x})
<1>1. \E m \in {0, x} : \A y \in {0, x} : m >= y
  BY SMTT(30)
<1>2. Max({0, x}) \in {0, x} /\ \A y \in {0, x} : Max({0, x}) >= y
  BY <1>1 DEF Max
<1>3. Max({0, x}) >= 0 /\ Max({0, x}) >= x
  BY <1>2
<1> QED
  BY <1>2, <1>3, SMTT(30)

\* The lesser of two numbers.
LEMMA MinOfTwo ==
  ASSUME NEW a \in Nat, NEW b \in Nat
  PROVE  Min({a, b}) \in Nat /\ Min({a, b}) <= a /\ Min({a, b}) <= b
<1>1. \E m \in {a, b} : \A y \in {a, b} : m <= y
  BY SMTT(30)
<1>2. Min({a, b}) \in {a, b} /\ \A y \in {a, b} : Min({a, b}) <= y
  BY <1>1 DEF Min
<1> QED
  BY <1>2

\* queue_headers adds to the queue what it counts as queued.
LEMMA QueueKeeps ==
  ASSUME NEW s \in SyncRecord, Consistent(s), NEW q \in Seq(Hash)
  PROVE  Grows(s, queue_headers(s, q))
<1> DEFINE want == Without(q, s.down \cup s.pool \cup s.owned)
           k == Min({Len(want), Max({0, MaxQueue - Len(s.queue)})})
           new == SubSeq(want, 1, k)
           queue == s.queue \o new
           owned == s.owned \cup Range(new)
           full == [s EXCEPT !.queue = queue, !.owned = owned]
           seen == IF s.state = "ConfirmingSynced" /\ s.local > 0
                   THEN [s EXCEPT !.state = "Synced"] ELSE s
           r == IF q # <<>>
                THEN IF full.queue = <<>> THEN full ELSE [full EXCEPT !.state = "Blocks"]
                ELSE IF /\ seen.state \in {"Headers", "ConfirmingSynced"}
                        /\ true_best_height(seen) > seen.local + 2
                     THEN ToHeaders(seen)
                     ELSE seen
<1>1. s.queue \in Seq(Hash) /\ s.owned \in SUBSET Hash
  BY DEF SyncRecord
<1>2. r = queue_headers(s, q)
  BY DEF queue_headers
<1>3. want \in Seq(Hash)
  BY WithoutProperties
<1> HIDE DEF want
<1>4. k \in 0..Len(want)
  <2>1. Len(want) \in Nat /\ MaxQueue - Len(s.queue) \in Int
    BY <1>1, <1>3, Bounds, SMTT(30)
  <2>2. Max({0, MaxQueue - Len(s.queue)}) \in Nat
    BY <2>1, MaxWithZero
  <2>3. k \in Nat /\ k <= Len(want)
    BY <2>1, <2>2, MinOfTwo
  <2> HIDE DEF k
  <2> QED
    BY <2>1, <2>3, SMTT(30)
<1> HIDE DEF k
<1>5. new \in Seq(Hash)
  BY <1>3, <1>4, CutProperties
<1> HIDE DEF new
<1>6. queue \in Seq(Hash) /\ Range(queue) = Range(s.queue) \cup Range(new)
  BY <1>1, <1>5, JoinProperties, SMTT(30)
<1>7. owned \in SUBSET Hash
  BY <1>1, <1>5, EndsProperties
<1>8. s.owned \subseteq Range(s.queue)
  BY DEF Consistent
<1>9. owned \subseteq Range(queue)
  BY <1>6, <1>8
<1> HIDE DEF queue, owned
<1>10. /\ full \in SyncRecord /\ full.queue = queue /\ full.owned = owned /\ full.local = s.local
       /\ full.down = s.down /\ full.order = s.order /\ full.reqs = s.reqs /\ full.pool = s.pool
  BY <1>6, <1>7 DEF SyncRecord
<1> HIDE DEF full
<1>11. Requested(full) = Requested(s)
  BY <1>10 DEF Requested
<1>12. Consistent(full) /\ Known(s) \subseteq Known(full)
  BY <1>6, <1>9, <1>10, <1>11 DEF Consistent, Known
<1>13. Grows(s, full) /\ Grows(s, [full EXCEPT !.state = "Blocks"])
  BY <1>10, <1>12, StateKeeps DEF Grows
<1>14. seen \in SyncRecord /\ Grows(s, seen)
  <2>1. s \in SyncRecord /\ Grows(s, s)
    BY DEF Grows
  <2>2. [s EXCEPT !.state = "Synced"] \in SyncRecord /\ Grows(s, [s EXCEPT !.state = "Synced"])
    BY StateKeeps
  <2> QED
    BY <2>1, <2>2
<1> HIDE DEF seen
<1>15. Grows(s, ToHeaders(seen))
  BY <1>14, ToHeadersKeeps DEF Grows
<1>16. Grows(s, r)
  BY <1>13, <1>14, <1>15
<1> QED
  BY <1>2, <1>16

\* record_request counts what it records as being downloaded.
LEMMA RecordKeeps ==
  ASSUME NEW s \in SyncRecord, Consistent(s), NEW q \in Seq(Hash), NEW p \in Peer
  PROVE  Grows(s, record_request(s, q, p))
<1> DEFINE added == Without(q, Range(s.order))
           order == s.order \o added
           down == s.down \cup Range(q)
           reqs == [h \in Hash |-> IF h \in Range(q) THEN p ELSE s.reqs[h]]
           o == [s EXCEPT !.order = order]
           r == [o EXCEPT !.down = down, !.reqs = reqs]
<1>1. /\ s.order \in Seq(Hash) /\ s.down \in SUBSET Hash /\ s.reqs \in [Hash -> Peer \cup {None}]
      /\ Range(q) \in SUBSET Hash
  BY EndsProperties DEF SyncRecord
<1>2. added \in Seq(Hash) /\ Range(added) = Range(q) \ Range(s.order)
  BY WithoutProperties, SMTT(30)
<1>3. InOrder(s, q) = o
  BY DEF InOrder
<1> HIDE DEF added
<1>4. order \in Seq(Hash) /\ Range(order) = Range(s.order) \cup Range(added)
  BY <1>1, <1>2, JoinProperties, SMTT(30)
<1>5. reqs \in [Hash -> Peer \cup {None}]
  BY <1>1
<1>6. down \in SUBSET Hash
  BY <1>1
<1> HIDE DEF order
<1>7. /\ o \in SyncRecord /\ o.order = order /\ o.local = s.local /\ o.queue = s.queue
      /\ o.owned = s.owned /\ o.down = s.down /\ o.reqs = s.reqs /\ o.pool = s.pool
  BY <1>4 DEF SyncRecord
<1> HIDE DEF o
<1>8. record_request(s, q, p) = [o EXCEPT !.down = o.down \cup Range(q),
            !.reqs = [h \in Hash |-> IF h \in Range(q) THEN p ELSE o.reqs[h]]]
  BY <1>3 DEF record_request
<1>9. r = record_request(s, q, p)
  BY <1>7, <1>8
<1>10. {h \in Hash : reqs[h] # None} \subseteq Requested(s) \cup Range(q)
  BY DEF Requested
<1> HIDE DEF down, reqs
<1>11. /\ r \in SyncRecord /\ r.order = o.order /\ r.local = o.local /\ r.queue = o.queue
       /\ r.owned = o.owned /\ r.down = down /\ r.reqs = reqs /\ r.pool = o.pool
  BY <1>5, <1>6, <1>7 DEF SyncRecord
<1> HIDE DEF r
<1>12. Requested(r) \subseteq r.down
  BY <1>10, <1>11 DEF Requested, Consistent, down
<1>13. r.down \subseteq Range(r.order)
  BY <1>2, <1>4, <1>7, <1>11 DEF Consistent, down
<1>14. Consistent(r)
  BY <1>7, <1>11, <1>12, <1>13 DEF Consistent
<1>15. Known(s) \subseteq Known(r)
  BY <1>7, <1>11 DEF Known, down
<1> QED
  BY <1>7, <1>9, <1>11, <1>14, <1>15 DEF Grows

\* The chain's tip is published: on_block_processed and set_local_tip.
LEMMA PublishKeeps ==
  ASSUME NEW s \in SyncRecord, Consistent(s), NEW h \in Height
  PROVE  /\ Consistent(set_local_tip(on_block_processed(s, h), h))
         /\ set_local_tip(on_block_processed(s, h), h).local = h
         /\ Known(set_local_tip(on_block_processed(s, h), h)) = Known(s)
<1> DEFINE Same(x, y) == /\ x \in SyncRecord /\ x.queue = y.queue /\ x.owned = y.owned
                         /\ x.down = y.down /\ x.order = y.order /\ x.reqs = y.reqs
                         /\ x.pool = y.pool /\ x.local = h
<1>1. ASSUME NEW a \in SyncRecord
      PROVE  Same(on_block_processed(a, h), a)
  <2> DEFINE c == [a EXCEPT !.local = h]
             t == refresh_best_known(c)
  <2>1. Same(c, a)
    BY DEF SyncRecord
  <2>2. on_block_processed(a, h) =
          IF t.queue # <<>> \/ t.down # {} THEN t
          ELSE [t EXCEPT !.state = IF h < true_best_height(t) - 1 THEN "Headers"
                                                                 ELSE "ConfirmingSynced"]
    BY DEF on_block_processed
  <2> HIDE DEF c
  <2>3. Same(t, a)
    BY <2>1, RefreshKeeps
  <2> HIDE DEF t
  <2>4. Same([t EXCEPT !.state = "Headers"], a) /\ Same([t EXCEPT !.state = "ConfirmingSynced"], a)
    BY <2>3 DEF SyncRecord
  <2> QED
    BY <2>2, <2>3, <2>4
<1>2. ASSUME NEW a \in SyncRecord
      PROVE  Same(set_local_tip(a, h), a)
  <2> DEFINE heights == [p \in Peer |-> IF a.heights[p] > h THEN a.heights[p] ELSE 0]
             c == [a EXCEPT !.local = h, !.heights = heights]
             t == refresh_best_known(c)
  <2>1. heights \in [Peer -> Height]
    BY Bounds DEF SyncRecord
  <2>2. set_local_tip(a, h) =
          IF t.local >= t.best /\ t.queue = <<>> /\ t.down = {}
          THEN [t EXCEPT !.state = "Synced"] ELSE t
    BY DEF set_local_tip
  <2> HIDE DEF heights
  <2>3. Same(c, a)
    BY <2>1 DEF SyncRecord
  <2> HIDE DEF c
  <2>4. Same(t, a)
    BY <2>3, RefreshKeeps
  <2> HIDE DEF t
  <2>5. Same([t EXCEPT !.state = "Synced"], a)
    BY <2>4 DEF SyncRecord
  <2> QED
    BY <2>2, <2>4, <2>5
<1> DEFINE b == on_block_processed(s, h)
           r == set_local_tip(b, h)
<1>3. Same(b, s)
  BY <1>1
<1> HIDE DEF b
<1>4. Same(r, b)
  BY <1>2, <1>3
<1> HIDE DEF r
<1>5. Consistent(r) /\ Known(r) = Known(s)
  BY <1>3, <1>4, SameBooks
<1> QED
  BY <1>4, <1>5 DEF r, b

---------------------------------------------------------------------------
\* A block that was received is in flight no more; nothing else is lost.
LEMMA ReceivedKeeps ==
  ASSUME NEW s \in SyncRecord, Consistent(s), NEW h \in Hash
  PROVE  /\ mark_block_received(s, h) \in SyncRecord /\ Consistent(mark_block_received(s, h))
         /\ mark_block_received(s, h).local = s.local
         /\ Known(s) \subseteq Known(mark_block_received(s, h)) \cup {h}
<1> DEFINE f == Forget(s, {h})
<1>0. {h} \in SUBSET Hash
  OBVIOUS
<1>1. /\ Consistent(f) /\ f.down = s.down \ {h} /\ f.queue = s.queue
      /\ f.pool = s.pool /\ f.local = s.local
  BY <1>0, ForgetKeeps
<1>2. f = mark_block_received(s, h)
  BY DEF mark_block_received
<1> HIDE DEF f
<1>3. Known(s) \subseteq Known(f) \cup {h}
  BY <1>1 DEF Known
<1> QED
  BY <1>1, <1>2, <1>3 DEF Consistent

\* A block that failed is queued again.
LEMMA FailedKeeps ==
  ASSUME NEW s \in SyncRecord, Consistent(s), NEW h \in Hash
  PROVE  /\ Consistent(mark_block_failed(s, h)) /\ mark_block_failed(s, h).local = s.local
         /\ Known(s) \cup {h} \subseteq Known(mark_block_failed(s, h))
<1> DEFINE f == Forget(s, {h})
           one == <<h>>
           queue == one \o s.queue
           r == [f EXCEPT !.queue = queue, !.order = s.order]
<1>0. {h} \in SUBSET Hash
  OBVIOUS
<1>1. /\ Consistent(f) /\ f.down = s.down \ {h} /\ f.queue = s.queue /\ f.owned = s.owned
      /\ f.pool = s.pool /\ f.local = s.local
  BY <1>0, ForgetKeeps
<1>2. f \in SyncRecord /\ s.order \in Seq(Hash) /\ s.queue \in Seq(Hash)
  BY <1>1 DEF Consistent, SyncRecord
<1>3. r = mark_block_failed(s, h)
  BY <1>1 DEF mark_block_failed
<1> HIDE DEF f
<1>4. one \in Seq(Hash) /\ Range(one) = {h}
  BY <1>2, EndsProperties
<1> HIDE DEF one
<1>5. queue \in Seq(Hash) /\ Range(queue) = {h} \cup Range(s.queue)
  BY <1>2, <1>4, JoinProperties, SMTT(30)
<1> HIDE DEF queue
<1>6. /\ r \in SyncRecord /\ r.queue = queue /\ r.order = s.order /\ r.down = f.down
      /\ r.owned = f.owned /\ r.pool = f.pool /\ r.local = f.local /\ r.reqs = f.reqs
  BY <1>2, <1>5 DEF SyncRecord
<1> HIDE DEF r
<1>7. Requested(r) \subseteq r.down
  BY <1>1, <1>6 DEF Consistent, Requested
<1>8. Consistent(r)
  BY <1>1, <1>5, <1>6, <1>7 DEF Consistent
<1>9. Known(s) \cup {h} \subseteq Known(r)
  BY <1>1, <1>5, <1>6 DEF Known
<1> QED
  BY <1>1, <1>3, <1>6, <1>8, <1>9

\* The pool takes a block in, or is full.
LEMMA PoolKeeps ==
  ASSUME NEW pool \in SUBSET Hash, Cardinality(pool) <= MaxOrphanBlocks, NEW h \in Hash,
         h \notin pool
  PROVE  /\ Pooled(pool, h) \in SUBSET Hash
         /\ Cardinality(Pooled(pool, h)) <= MaxOrphanBlocks
         /\ \/ pool \cup {h} \subseteq Pooled(pool, h)
            \/ Cardinality(Pooled(pool, h)) = MaxOrphanBlocks
<1>1. MaxOrphanBlocks \in Nat \ {0} /\ LastBlock \in Nat
  BY Bounds
<1>2. IsFiniteSet(pool) /\ Cardinality(pool) \in Nat
  <2>1. IsFiniteSet(pool) /\ Cardinality(pool) \in 0..LastBlock
    BY <1>1, Positions DEF Hash
  <2> QED
    BY <1>1, <2>1, SMTT(30)
<1>3. CASE Cardinality(pool) < MaxOrphanBlocks
  <2>1. Pooled(pool, h) = pool \cup {h}
    BY <1>3 DEF Pooled
  <2>2. Cardinality(pool \cup {h}) = Cardinality(pool) + 1
    BY <1>2, FS_AddElement
  <2>3. Cardinality(pool) + 1 <= MaxOrphanBlocks
    BY <1>1, <1>2, <1>3, SMTT(30)
  <2> QED
    BY <2>1, <2>2, <2>3
<1>4. CASE ~(Cardinality(pool) < MaxOrphanBlocks)
  <2>1. Cardinality(pool) = MaxOrphanBlocks
    BY <1>1, <1>2, <1>4, SMTT(30)
  <2>2. MaxOrphanBlocks <= MaxOrphanBlocks
    BY <1>1, SMTT(30)
  <2>3. CASE h >= Max(pool)
    <3>1. Pooled(pool, h) = pool
      BY <1>4, <2>3 DEF Pooled
    <3> QED
      BY <2>1, <2>2, <3>1
  <2>4. CASE ~(h >= Max(pool))
    <3> DEFINE rest == pool \ {Max(pool)}
    <3>1. Pooled(pool, h) = rest \cup {h}
      BY <1>4, <2>4 DEF Pooled
    <3>2. pool # {}
      BY <1>1, <2>1, FS_EmptySet, SMTT(30)
    <3>3. Max(pool) \in pool
      BY <3>2, Bounds, MaxHeight
    <3>4. IsFiniteSet(rest) /\ Cardinality(rest) = Cardinality(pool) - 1
      BY <1>2, <3>3, FS_RemoveElement
    <3>5. h \notin rest
      OBVIOUS
    <3>6. rest \in SUBSET Hash
      OBVIOUS
    <3> HIDE DEF rest
    <3>7. Cardinality(rest \cup {h}) = Cardinality(rest) + 1
      BY <3>4, <3>5, FS_AddElement
    <3>8. Cardinality(rest \cup {h}) = MaxOrphanBlocks
      BY <1>1, <2>1, <3>4, <3>7, SMTT(30)
    <3> QED
      BY <2>2, <3>1, <3>6, <3>8
  <2> QED
    BY <2>3, <2>4
<1> QED
  BY <1>3, <1>4

\* An orphan is pooled and its parent queued, unless the pool is full.
LEMMA OrphanKeeps ==
  ASSUME NEW s \in SyncRecord, Consistent(s), NEW h \in Hash, h # 1
  PROVE  /\ Consistent(mark_block_orphan(s, h)) /\ mark_block_orphan(s, h).local = s.local
         /\ \/ Known(s) \cup {h} \subseteq Known(mark_block_orphan(s, h))
            \/ Cardinality(mark_block_orphan(s, h).pool) = MaxOrphanBlocks
<1> DEFINE f == Forget(s, {h})
           pool == IF h \in f.pool THEN f.pool ELSE Pooled(f.pool, h)
           t == [f EXCEPT !.pool = pool]
           one == <<h - 1>>
           queue == one \o t.queue
           state == IF t.state \in {"Synced", "ConfirmingSynced", "Idle"} THEN "Blocks" ELSE t.state
           u == [t EXCEPT !.queue = queue, !.state = state]
           Covered == \/ h - 1 = t.local
                      \/ h - 1 \in t.down \cup Range(t.queue) \cup t.pool
                      \/ Len(t.queue) >= MaxQueue
<1>0. {h} \in SUBSET Hash
  OBVIOUS
<1>1. /\ Consistent(f) /\ f.down = s.down \ {h} /\ f.queue = s.queue /\ f.owned = s.owned
      /\ f.pool = s.pool /\ f.local = s.local
  BY <1>0, ForgetKeeps
<1>2. f \in SyncRecord
  BY <1>1 DEF Consistent
<1>3. mark_block_orphan(s, h) = IF Covered THEN t ELSE u
  BY DEF mark_block_orphan
<1> HIDE DEF f
<1>4. f.pool \in SUBSET Hash /\ Cardinality(f.pool) <= MaxOrphanBlocks
  BY <1>1, <1>2 DEF Consistent, SyncRecord
<1>5. /\ pool \in SUBSET Hash /\ Cardinality(pool) <= MaxOrphanBlocks
      /\ f.pool \cup {h} \subseteq pool \/ Cardinality(pool) = MaxOrphanBlocks
  <2>1. CASE h \in f.pool
    BY <1>4, <2>1
  <2>2. CASE h \notin f.pool
    BY <1>4, <2>2, PoolKeeps
  <2> QED
    BY <2>1, <2>2
<1> HIDE DEF pool
<1>6. /\ t \in SyncRecord /\ t.pool = pool /\ t.queue = f.queue /\ t.order = f.order
      /\ t.down = f.down /\ t.owned = f.owned /\ t.local = f.local /\ t.reqs = f.reqs
  BY <1>2, <1>5 DEF SyncRecord
<1> HIDE DEF t
<1>7. Requested(t) = Requested(f)
  BY <1>6 DEF Requested
<1>8. Consistent(t)
  BY <1>1, <1>5, <1>6, <1>7 DEF Consistent
<1>9. Known(s) \cup {h} \subseteq Known(t) \/ Cardinality(t.pool) = MaxOrphanBlocks
  BY <1>1, <1>5, <1>6 DEF Known
<1>10. ASSUME ~Covered
       PROVE  /\ Consistent(u) /\ u.local = t.local /\ u.pool = t.pool
              /\ Known(t) \subseteq Known(u)
  <2>1. h - 1 \in Hash
    BY Bounds, SMTT(30) DEF Hash
  <2>2. t.queue \in Seq(Hash) /\ t.state \in {"Idle", "Headers", "Blocks", "ConfirmingSynced", "Synced"}
    BY <1>6 DEF SyncRecord
  <2>3. one \in Seq(Hash)
    BY <2>1, <2>2, EndsProperties
  <2> HIDE DEF one
  <2>4. queue \in Seq(Hash) /\ Range(queue) = Range(one) \cup Range(t.queue)
    BY <2>2, <2>3, JoinProperties, SMTT(30)
  <2>5. state \in {"Idle", "Headers", "Blocks", "ConfirmingSynced", "Synced"}
    BY <2>2
  <2> HIDE DEF queue, state
  <2>6. /\ u \in SyncRecord /\ u.pool = t.pool /\ u.queue = queue /\ u.order = t.order
        /\ u.down = t.down /\ u.owned = t.owned /\ u.local = t.local /\ u.reqs = t.reqs
    BY <1>6, <2>4, <2>5 DEF SyncRecord
  <2> HIDE DEF u
  <2>7. Requested(u) = Requested(t)
    BY <2>6 DEF Requested
  <2>8. Consistent(u)
    BY <1>8, <2>4, <2>6, <2>7 DEF Consistent
  <2> QED
    BY <2>4, <2>6, <2>8 DEF Known
<1> HIDE DEF u, Covered
<1> QED
  BY <1>1, <1>3, <1>6, <1>8, <1>9, <1>10

\* Pooled blocks are taken out: a child whose parent connected, or expired ones.
LEMMA PoolShrinks ==
  ASSUME NEW s \in SyncRecord, Consistent(s), NEW gone
  PROVE  /\ Consistent([s EXCEPT !.pool = @ \ gone])
         /\ [s EXCEPT !.pool = @ \ gone].local = s.local
         /\ Known(s) \subseteq Known([s EXCEPT !.pool = @ \ gone]) \cup gone
         /\ [s EXCEPT !.pool = @ \ gone] \in SyncRecord
<1> DEFINE pool == s.pool \ gone
           r == [s EXCEPT !.pool = pool]
<1>1. s.pool \in SUBSET Hash /\ Cardinality(s.pool) <= MaxOrphanBlocks
  BY DEF SyncRecord, Consistent
<1>2. pool \in SUBSET Hash /\ pool \in SUBSET s.pool
  BY <1>1
<1>3. Cardinality(pool) <= MaxOrphanBlocks
  <2>1. LastBlock \in Nat /\ MaxOrphanBlocks \in Nat
    BY Bounds
  <2>2. /\ IsFiniteSet(s.pool) /\ Cardinality(s.pool) \in 0..LastBlock
        /\ Cardinality(pool) \in 0..LastBlock
    BY <1>1, <1>2, <2>1, Positions DEF Hash
  <2>3. Cardinality(pool) <= Cardinality(s.pool)
    BY <1>2, <2>2, FS_Subset
  <2> HIDE DEF pool
  <2> QED
    BY <1>1, <2>1, <2>2, <2>3, SMTT(30)
<1> HIDE DEF pool
<1>4. /\ r \in SyncRecord /\ r.pool = pool /\ r.queue = s.queue /\ r.order = s.order
      /\ r.down = s.down /\ r.owned = s.owned /\ r.local = s.local /\ r.reqs = s.reqs
  BY <1>2 DEF SyncRecord
<1>5. [s EXCEPT !.pool = @ \ gone] = r
  BY DEF pool
<1> HIDE DEF r
<1>6. Requested(r) = Requested(s)
  BY <1>4 DEF Requested
<1>7. Consistent(r)
  BY <1>3, <1>4, <1>6 DEF Consistent
<1>8. Known(s) \subseteq Known(r) \cup gone
  BY <1>4 DEF Known, pool
<1> QED
  BY <1>4, <1>5, <1>7, <1>8

\* A restarted node has empty books.
LEMMA NewKeeps ==
  ASSUME NEW h \in Height
  PROVE  /\ New(h) \in SyncRecord /\ Consistent(New(h)) /\ New(h).local = h /\ Over(New(h))
         /\ New(h).heights \in [Peer -> Height] /\ New(h).best = h
<1> DEFINE n == New(h)
<1>1. n \in SyncRecord
  <2>1. <<>> \in Seq(Hash)
    BY SMTT(30)
  <2> QED
    BY <2>1, Bounds DEF New, SyncRecord
<1>2. /\ n.queue = <<>> /\ n.owned = {} /\ n.down = {} /\ n.pool = {} /\ n.local = h
      /\ n.reqs = [x \in Hash |-> None] /\ n.state = "Idle" /\ n.asked = FALSE /\ n.best = h
  BY DEF New
<1> HIDE DEF n
<1>3. Requested(n) = {}
  BY <1>2 DEF Requested
<1>4. Cardinality({}) <= MaxOrphanBlocks
  BY FS_EmptySet, Bounds, SMTT(30)
<1> QED
  BY <1>1, <1>2, <1>3, <1>4 DEF Consistent, Over, SyncRecord, n

---------------------------------------------------------------------------
(* The steps of the node.                                                  *)

\* What travels between the driver, the peers and the node is well formed.
WireOK ==
    /\ has \in [Peer -> Height]
    /\ gets \subseteq Span
    /\ asks \subseteq [peer : Peer, nonce : Nonce, from : Height]
    /\ verify = Nothing
         \/ verify \in [nonce : Nonce, peer : Peer, rest : Seq(Hash), max : Height]
    /\ driver \in [todo : Seq(Span), sent : Seq(Span), failed : Seq(Hash)]

\* SyncInv at a glance.
LEMMA InvParts ==
  ASSUME SyncInv
  PROVE  /\ sync \in SyncRecord /\ Consistent(sync) /\ WireOK
         /\ height \in Height /\ published \in Height
         /\ events \in Seq(Hash) /\ tasks \subseteq [kind : TaskKind, hash : Hash]
BY DEF SyncInv, SyncTypeOK, WireOK

\* A step of the driver or of a message handler leaves the event loop and its
\* tasks alone, and changes ChainSync by methods that go onward.
LEMMA StepAside ==
  ASSUME SyncInv, Consistent(sync'), sync'.local = sync.local, WireOK',
         Known(sync) \subseteq Known(sync') \/ Over(sync'),
         height' = height, events' = events, tasks' = tasks, published' = published
  PROVE  SyncInv' /\ LosesNoWork
<1>1. sync' \in SyncRecord
  BY DEF Consistent
<1>2. SyncTypeOK'
  BY <1>1 DEF SyncTypeOK, WireOK, SyncInv
<1>3. SyncInv'
  BY <1>2 DEF SyncInv
<1>4. LosesNoWork
  BY DEF LosesNoWork, Tracked, Known, Over
<1> QED
  BY <1>3, <1>4

\* A step that leaves ChainSync alone loses nothing of it.
LEMMA SameSync ==
  ASSUME SyncInv, sync' = sync
  PROVE  LosesNoWork
BY DEF LosesNoWork

\* The number of a new GetHeaders.
LEMMA NonceType ==
  ASSUME FreeNonces # {}
  PROVE  Min(FreeNonces) \in Nonce
<1>1. FreeNonces \subseteq Nonce
  BY DEF FreeNonces
<1>2. FreeNonces \in SUBSET (0..MaxNonce) /\ MaxNonce \in Nat
  BY <1>1, Bounds, SMTT(30) DEF Nonce
<1> QED
  BY <1>1, <1>2, Extremes

\* A GetHeaders is sent.
LEMMA AskKeeps ==
  ASSUME SyncInv, NEW s \in SyncRecord, Consistent(s), NEW p \in Peer, SendGetHeaders(s, p)
  PROVE  Grows(s, sync') /\ asks' \subseteq [peer : Peer, nonce : Nonce, from : Height]
<1> DEFINE n == Min(FreeNonces)
           m == [peer |-> p, nonce |-> n, from |-> height]
<1>1. n \in Nonce /\ sync' = begin_headers_request(s, p, n) /\ asks' = asks \cup {m}
  BY NonceType DEF SendGetHeaders
<1> HIDE DEF n
<1>2. m \in [peer : Peer, nonce : Nonce, from : Height]
  BY <1>1, InvParts
<1> HIDE DEF m
<1>3. Grows(s, begin_headers_request(s, p, n))
  BY <1>1, Bounds, ExchangeKeeps
<1> QED
  BY <1>1, <1>2, <1>3, InvParts DEF WireOK

\* The tick outside of the Blocks state.
LEMMA TickHeadersSafe ==
  ASSUME SyncInv, NEW late \in SUBSET Hash, NEW stuck \in SUBSET Hash, NEW expired,
         TickHeaders(late, stuck, expired)
  PROVE  SyncInv' /\ LosesNoWork
<1> DEFINE a == get_blocks_to_retry(sync, late, stuck)
           s == HeadersTicked(late, stuck, expired)
<1>0. sync \in SyncRecord /\ Consistent(sync) /\ WireOK
  BY InvParts
<1>1. /\ sync.state \notin {"Blocks", "Synced"}
      /\ \/ sync' = s /\ asks' = asks
         \/ \E p \in Connected : SendGetHeaders(s, p)
      /\ height' = height /\ has' = has /\ gets' = gets /\ verify' = verify
      /\ events' = events /\ tasks' = tasks /\ published' = published /\ driver' = driver
  BY DEF TickHeaders, peerVars, loopVars
<1>2. Grows(sync, a)
  BY <1>0, <1>1, RetryKeeps
<1>3. s = IF expired THEN reset_headers_timeout(a) ELSE a
  BY DEF HeadersTicked
<1> HIDE DEF a, s
<1>4. a \in SyncRecord /\ Consistent(a)
  BY <1>2 DEF Grows, Consistent
<1>5. Grows(a, reset_headers_timeout(a))
  BY <1>4, ResetKeeps
<1>6. Grows(sync, s)
  BY <1>2, <1>3, <1>5 DEF Grows
<1>7. s \in SyncRecord /\ Consistent(s)
  BY <1>6 DEF Grows, Consistent
<1>8. Grows(sync, sync') /\ asks' \subseteq [peer : Peer, nonce : Nonce, from : Height]
  <2>1. CASE sync' = s /\ asks' = asks
    BY <1>0, <1>6, <2>1 DEF WireOK
  <2>2. ASSUME NEW p \in Connected, SendGetHeaders(s, p)
        PROVE  Grows(sync, sync') /\ asks' \subseteq [peer : Peer, nonce : Nonce, from : Height]
    <3>1. p \in Peer
      BY DEF Connected
    <3>2. Grows(s, sync') /\ asks' \subseteq [peer : Peer, nonce : Nonce, from : Height]
      BY <1>7, <2>2, <3>1, AskKeeps
    <3> QED
      BY <1>6, <3>2 DEF Grows
  <2> QED
    BY <1>1, <2>1, <2>2
<1>9. WireOK'
  BY <1>0, <1>1, <1>8 DEF WireOK
<1> QED
  BY <1>1, <1>8, <1>9, StepAside DEF Grows

\* A part of a sequence is a sequence.
LEMMA PartType ==
  ASSUME NEW S, NEW q \in Seq(S), NEW i \in Nat \ {0}, NEW j \in Nat, j <= Len(q)
  PROVE  SubSeq(q, i, j) \in Seq(S)
BY SMTT(30)

\* The spans of a window are requests to peers.
LEMMA SpansType ==
  ASSUME NEW window \in Seq(Hash), NEW peers \in TallestFirst, Ahead # {}
  PROVE  Spans(window, peers) \in Seq(Span)
<1> DEFINE size == (Len(window) + Len(peers) - 1) \div Len(peers)
           part(i) == SubSeq(window, (i - 1) * size + 1, Min({i * size, Len(window)}))
           all == [i \in 1..Len(peers) |-> [peer |-> peers[i], hashes |-> part(i)]]
           D == {i \in DOMAIN all : all[i].hashes # <<>>}
<1>1. IsFiniteSet(Ahead) /\ Ahead \in SUBSET Peer
  <2>1. Ahead \in SUBSET Peer
    BY DEF Ahead, Connected
  <2> QED
    BY <2>1, ChainSyncConstants, FS_Subset
<1>2. Cardinality(Ahead) \in Nat /\ Cardinality(Ahead) # 0
  BY <1>1, FS_CardinalityType, FS_EmptySet
<1>3. peers \in [1..Cardinality(Ahead) -> Ahead]
  BY DEF TallestFirst, Orders, Injection
<1>4. peers \in Seq(Peer) /\ Len(peers) \in Nat /\ Len(peers) # 0
  BY <1>1, <1>2, <1>3, SMTT(30)
<1>5. Len(window) \in Nat
  BY SMTT(30)
<1>6. size \in Nat
  BY <1>4, <1>5, SMTT(30)
<1>7. Spans(window, peers) = Pick(all, D)
  BY DEF Spans
<1> HIDE DEF size
<1>8. ASSUME NEW i \in 1..Len(peers)
      PROVE  [peer |-> peers[i], hashes |-> part(i)] \in Span
  <2> DEFINE lo == (i - 1) * size
             up == i * size
  <2>1. i - 1 \in Nat /\ i \in Nat /\ peers[i] \in Peer
    BY <1>4, SMTT(30)
  <2>2. lo \in Nat /\ up \in Nat
    BY <1>6, <2>1, SMTT(30)
  <2>3. part(i) = SubSeq(window, lo + 1, Min({up, Len(window)}))
    OBVIOUS
  <2> HIDE DEF lo, up, part
  <2>4. lo + 1 \in Nat \ {0}
    BY <2>2, SMTT(30)
  <2>5. Min({up, Len(window)}) \in Nat /\ Min({up, Len(window)}) <= Len(window)
    BY <1>5, <2>2, MinOfTwo
  <2>6. part(i) \in Seq(Hash)
    BY <2>3, <2>4, <2>5, PartType
  <2> QED
    BY <2>1, <2>6 DEF Span
<1> HIDE DEF part
<1>9. all \in Seq(Span) /\ Len(all) = Len(peers)
  <2>1. all \in [1..Len(peers) -> Span]
    BY <1>8
  <2> HIDE DEF all
  <2> QED
    BY <1>4, <2>1, SMTT(30)
<1> HIDE DEF all
<1>10. D \in SUBSET (1..Len(all))
  BY <1>9, SMTT(30)
<1> HIDE DEF D
<1> QED
  BY <1>7, <1>9, <1>10, PickProperties

\* The tick in the Blocks state.
LEMMA TickBlocksSafe ==
  ASSUME SyncInv, NEW late \in SUBSET Hash, NEW stuck \in SUBSET Hash, NEW stalled,
         TickBlocks(late, stuck, stalled)
  PROVE  SyncInv' /\ LosesNoWork
<1> DEFINE b == BlocksTicked(late, stuck, stalled)
<1>0. sync \in SyncRecord /\ Consistent(sync) /\ WireOK
  BY InvParts
<1>1. /\ sync' = b.sync
      /\ \/ driver' = driver
         \/ /\ Ahead # {}
            /\ \E peers \in TallestFirst :
                 driver' = [DriverIdle EXCEPT !.todo = Spans(b.window, peers)]
      /\ height' = height /\ has' = has /\ gets' = gets /\ asks' = asks /\ verify' = verify
      /\ events' = events /\ tasks' = tasks /\ published' = published
  BY DEF TickBlocks, peerVars, wireVars, loopVars
<1>2. Onward(sync, b.sync) /\ b.window \in Seq(Hash)
  BY <1>0, BlocksTickKeeps
<1> HIDE DEF b
<1>3. driver' \in [todo : Seq(Span), sent : Seq(Span), failed : Seq(Hash)]
  <2>1. CASE driver' = driver
    BY <1>0, <2>1 DEF WireOK
  <2>2. ASSUME Ahead # {}, NEW peers \in TallestFirst,
               driver' = [DriverIdle EXCEPT !.todo = Spans(b.window, peers)]
        PROVE  driver' \in [todo : Seq(Span), sent : Seq(Span), failed : Seq(Hash)]
    <3> DEFINE todo == Spans(b.window, peers)
    <3>1. todo \in Seq(Span)
      BY <1>2, <2>2, SpansType
    <3>2. <<>> \in Seq(Span) /\ <<>> \in Seq(Hash)
      BY SMTT(30)
    <3>3. driver' = [todo |-> todo, sent |-> <<>>, failed |-> <<>>]
      BY <2>2 DEF DriverIdle
    <3> HIDE DEF todo
    <3> QED
      BY <3>1, <3>2, <3>3
  <2> QED
    BY <1>1, <2>1, <2>2
<1>4. WireOK'
  BY <1>0, <1>1, <1>3 DEF WireOK
<1> QED
  BY <1>1, <1>2, <1>4, StepAside DEF Onward

\* A tick, on time or early.
LEMMA TickSafe ==
  ASSUME SyncInv, Tick \/ TickEarly
  PROVE  SyncInv' /\ LosesNoWork
<1>1. Overdue \in SUBSET Hash /\ Requested(sync) \in SUBSET Hash /\ Stuck(sync) \in SUBSET Hash
      /\ {} \in SUBSET Hash
  <2>1. sync.down \in SUBSET Hash
    BY InvParts DEF SyncRecord
  <2> QED
    BY <2>1 DEF Overdue, Requested, Stuck
<1>2. ASSUME NEW late \in {{}, Overdue}, NEW stuck \in {{}, Stuck(sync)}, NEW expired,
             TickHeaders(late, stuck, expired)
      PROVE  SyncInv' /\ LosesNoWork
  <2>1. late \in SUBSET Hash /\ stuck \in SUBSET Hash
    BY <1>1
  <2> QED
    BY <1>2, <2>1, TickHeadersSafe
<1>3. ASSUME NEW late \in {{}, Overdue} \cup SUBSET Requested(sync),
             NEW stuck \in {{}, Stuck(sync)}, NEW stalled, TickBlocks(late, stuck, stalled)
      PROVE  SyncInv' /\ LosesNoWork
  <2>1. late \in SUBSET Hash /\ stuck \in SUBSET Hash
    BY <1>1
  <2> QED
    BY <1>3, <2>1, TickBlocksSafe
<1> QED
  BY <1>2, <1>3 DEF Tick, TickEarly

\* The end of send_block_spans requeues what was not sent.
LEMMA EndSendKeeps ==
  ASSUME NEW s \in SyncRecord, Consistent(s),
         NEW d \in [todo : Seq(Span), sent : Seq(Span), failed : Seq(Hash)], EndSend(s, d)
  PROVE  /\ Grows(s, sync')
         /\ driver' \in [todo : Seq(Span), sent : Seq(Span), failed : Seq(Hash)]
<1>1. d.failed \in Seq(Hash)
  OBVIOUS
<1>2. Grows(s, requeue_failed(s, d.failed)) /\ Grows(s, s)
  BY <1>1, RequeueKeeps DEF Grows
<1>3. DriverIdle \in [todo : Seq(Span), sent : Seq(Span), failed : Seq(Hash)]
  <2>1. <<>> \in Seq(Span) /\ <<>> \in Seq(Hash)
    BY SMTT(30)
  <2> QED
    BY <2>1 DEF DriverIdle
<1> QED
  BY <1>2, <1>3 DEF EndSend

\* A span is sent, or fails.
LEMMA SendSpanSafe ==
  ASSUME SyncInv, SendSpan
  PROVE  SyncInv' /\ LosesNoWork
<1> DEFINE span == Head(driver.todo)
           tail == Tail(driver.todo)
           failed == driver.failed \o span.hashes
<1>0. sync \in SyncRecord /\ Consistent(sync) /\ WireOK
  BY InvParts
<1>1. driver.todo \in Seq(Span) /\ driver.todo # <<>> /\ driver.sent \in Seq(Span)
      /\ driver.failed \in Seq(Hash)
      /\ driver \in [todo : Seq(Span), sent : Seq(Span), failed : Seq(Hash)]
  BY <1>0 DEF WireOK, SendSpan
<1>2. span \in Span /\ tail \in Seq(Span)
  BY <1>1, EndsProperties
<1>3. /\ \/ /\ gets' = gets \cup {span}
            /\ driver' = [driver EXCEPT !.todo = tail, !.sent = <<span>>]
            /\ sync' = sync
         \/ /\ EndSend(sync, [driver EXCEPT !.todo = tail, !.failed = failed])
            /\ gets' = gets
      /\ height' = height /\ has' = has /\ asks' = asks /\ verify' = verify
      /\ events' = events /\ tasks' = tasks /\ published' = published
  BY DEF SendSpan, peerVars, loopVars
<1> HIDE DEF tail, span
<1>4. span.hashes \in Seq(Hash)
  BY <1>2 DEF Span
<1>5. failed \in Seq(Hash)
  BY <1>1, <1>4, JoinProperties, SMTT(30)
<1>6. <<span>> \in Seq(Span)
  BY <1>1, <1>2, EndsProperties
<1> DEFINE one == <<span>>
<1> HIDE DEF failed, one
<1>7. /\ gets' \subseteq Span /\ Grows(sync, sync')
      /\ driver' \in [todo : Seq(Span), sent : Seq(Span), failed : Seq(Hash)]
  <2>1. CASE /\ gets' = gets \cup {span}
             /\ driver' = [driver EXCEPT !.todo = tail, !.sent = <<span>>]
             /\ sync' = sync
    <3>1. [driver EXCEPT !.todo = tail, !.sent = one]
             \in [todo : Seq(Span), sent : Seq(Span), failed : Seq(Hash)]
      BY <1>1, <1>2, <1>6 DEF one
    <3>2. Grows(sync, sync)
      BY <1>0 DEF Grows
    <3> QED
      BY <1>0, <1>2, <2>1, <3>1, <3>2 DEF WireOK, one
  <2>2. CASE EndSend(sync, [driver EXCEPT !.todo = tail, !.failed = failed]) /\ gets' = gets
    <3> DEFINE d == [driver EXCEPT !.todo = tail, !.failed = failed]
    <3>1. d \in [todo : Seq(Span), sent : Seq(Span), failed : Seq(Hash)]
      BY <1>1, <1>2, <1>5
    <3>2. EndSend(sync, d)
      BY <2>2
    <3> HIDE DEF d
    <3>3. /\ Grows(sync, sync')
          /\ driver' \in [todo : Seq(Span), sent : Seq(Span), failed : Seq(Hash)]
      BY <1>0, <3>1, <3>2, EndSendKeeps
    <3> QED
      BY <1>0, <2>2, <3>3 DEF WireOK
  <2> QED
    BY <1>3, <2>1, <2>2
<1>8. WireOK'
  BY <1>0, <1>3, <1>7 DEF WireOK
<1> QED
  BY <1>3, <1>7, <1>8, StepAside DEF Grows

\* A span that was sent is recorded.
LEMMA RecordSpanSafe ==
  ASSUME SyncInv, RecordSpan
  PROVE  SyncInv' /\ LosesNoWork
<1> DEFINE span == driver.sent[1]
           r == record_request(sync, span.hashes, span.peer)
           d == [driver EXCEPT !.sent = <<>>]
<1>0. sync \in SyncRecord /\ Consistent(sync) /\ WireOK
  BY InvParts
<1>1. /\ driver.sent \in Seq(Span) /\ driver.sent # <<>>
      /\ driver \in [todo : Seq(Span), sent : Seq(Span), failed : Seq(Hash)]
  BY <1>0 DEF WireOK, RecordSpan
<1>2. span \in Span
  BY <1>1, SMTT(30)
<1>3. /\ EndSend(r, d)
      /\ height' = height /\ has' = has /\ gets' = gets /\ asks' = asks /\ verify' = verify
      /\ events' = events /\ tasks' = tasks /\ published' = published
  BY DEF RecordSpan, peerVars, wireVars, loopVars
<1>4. <<>> \in Seq(Span)
  BY SMTT(30)
<1>5. d \in [todo : Seq(Span), sent : Seq(Span), failed : Seq(Hash)]
  BY <1>1, <1>4
<1> HIDE DEF span, d
<1>6. span.hashes \in Seq(Hash) /\ span.peer \in Peer
  BY <1>2 DEF Span
<1>7. Grows(sync, r)
  BY <1>0, <1>6, RecordKeeps
<1> HIDE DEF r
<1>8. r \in SyncRecord /\ Consistent(r)
  BY <1>7 DEF Grows, Consistent
<1>9. /\ Grows(r, sync')
      /\ driver' \in [todo : Seq(Span), sent : Seq(Span), failed : Seq(Hash)]
  BY <1>3, <1>5, <1>8, EndSendKeeps
<1>10. Grows(sync, sync')
  BY <1>7, <1>9 DEF Grows
<1>11. WireOK'
  BY <1>0, <1>3, <1>9 DEF WireOK
<1> QED
  BY <1>3, <1>10, <1>11, StepAside DEF Grows

\* The emergency recovery starts over, with or without the pool's old blocks.
LEMMA EmergencySafe ==
  ASSUME SyncInv, Emergency \/ EmergencyExpiry
  PROVE  SyncInv' /\ LosesNoWork
<1> DEFINE c == cleanup_expired_orphans(sync, sync.pool)
<1>0. sync \in SyncRecord /\ Consistent(sync) /\ WireOK
  BY InvParts
<1>1. /\ sync' = StartOver(sync) \/ sync' = StartOver(c)
      /\ height' = height /\ has' = has /\ gets' = gets /\ asks' = asks /\ verify' = verify
      /\ events' = events /\ tasks' = tasks /\ published' = published /\ driver' = driver
  BY DEF Emergency, EmergencyExpiry, peerVars, wireVars, loopVars
<1>2. c \in SyncRecord /\ Consistent(c) /\ c.local = sync.local
  BY <1>0, PoolShrinks DEF cleanup_expired_orphans
<1> HIDE DEF c
<1>3. Onward(sync, StartOver(sync)) /\ Over(StartOver(sync))
  BY <1>0, StartOverKeeps
<1>4. Onward(c, StartOver(c)) /\ Over(StartOver(c))
  BY <1>2, StartOverKeeps
<1>5. Consistent(sync') /\ sync'.local = sync.local /\ Over(sync')
  BY <1>1, <1>2, <1>3, <1>4 DEF Onward
<1>6. WireOK'
  BY <1>0, <1>1 DEF WireOK
<1> QED
  BY <1>1, <1>5, <1>6, StepAside

\* A peer connects.
LEMMA ConnectSafe ==
  ASSUME SyncInv, NEW p \in Peer, Connect(p)
  PROVE  SyncInv' /\ LosesNoWork
<1> DEFINE s == update_peer_height_for(sync, p, has[p])
<1>0. sync \in SyncRecord /\ Consistent(sync) /\ WireOK /\ has[p] \in Height
  BY InvParts DEF WireOK
<1>1. /\ SendGetHeaders(s, p) \/ (sync' = s /\ asks' = asks)
      /\ height' = height /\ has' = has /\ gets' = gets /\ verify' = verify
      /\ events' = events /\ tasks' = tasks /\ published' = published /\ driver' = driver
  BY DEF Connect, loopVars
<1>2. s \in SyncRecord /\ Grows(sync, s)
  BY <1>0, PeerHeightKeeps
<1> HIDE DEF s
<1>3. Grows(sync, sync') /\ asks' \subseteq [peer : Peer, nonce : Nonce, from : Height]
  <2>1. CASE SendGetHeaders(s, p)
    <3>1. Grows(s, sync') /\ asks' \subseteq [peer : Peer, nonce : Nonce, from : Height]
      BY <1>2, <2>1, AskKeeps DEF Grows
    <3> QED
      BY <1>2, <3>1 DEF Grows
  <2>2. CASE sync' = s /\ asks' = asks
    BY <1>0, <1>2, <2>2 DEF WireOK
  <2> QED
    BY <1>1, <2>1, <2>2
<1>4. WireOK'
  BY <1>0, <1>1, <1>3 DEF WireOK
<1> QED
  BY <1>1, <1>3, <1>4, StepAside DEF Grows

\* A peer disconnects, or announces its height.
LEMMA PeerSafe ==
  ASSUME SyncInv, NEW p \in Peer, Disconnect(p) \/ ChainWork(p)
  PROVE  SyncInv' /\ LosesNoWork
<1>0. sync \in SyncRecord /\ Consistent(sync) /\ WireOK /\ has[p] \in Height
  BY InvParts DEF WireOK
<1>1. /\ \/ sync' = on_peer_disconnected(sync, p)
         \/ sync' = update_peer_height_for(sync, p, has[p])
      /\ gets' \subseteq gets /\ asks' \subseteq asks
      /\ height' = height /\ has' = has /\ verify' = verify
      /\ events' = events /\ tasks' = tasks /\ published' = published /\ driver' = driver
  BY DEF Disconnect, ChainWork, wireVars, loopVars
<1>2. Grows(sync, sync')
  BY <1>0, <1>1, DisconnectKeeps, PeerHeightKeeps
<1>3. WireOK'
  BY <1>0, <1>1 DEF WireOK
<1> QED
  BY <1>1, <1>2, <1>3, StepAside DEF Grows

\* A peer announces its tip.
LEMMA InvBlockSafe ==
  ASSUME SyncInv, NEW p \in Peer, InvBlock(p)
  PROVE  SyncInv' /\ LosesNoWork
<1> DEFINE rearm(s) == IF s.state \in {"Synced", "Idle"}
                       THEN trigger_resync(s) ELSE arm_near_tip_catchup(s)
           n == Min(FreeNonces)
           m == [peer |-> p, nonce |-> n, from |-> height]
           one == <<has[p]>>
           get == [peer |-> p, hashes |-> one]
           b == begin_headers_request(sync, p, n)
<1>0. sync \in SyncRecord /\ Consistent(sync) /\ WireOK /\ has[p] \in Height
  BY InvParts DEF WireOK
<1>1. height \in Height /\ has[p] > height
  BY InvParts DEF InvBlock
<1>2. /\ \/ sync' = rearm(sync) /\ asks' = asks /\ gets' = gets
         \/ FreeNonces # {} /\ sync' = rearm(b) /\ asks' = asks \cup {m} /\ gets' = gets
         \/ sync' = record_request(sync, one, p) /\ gets' = gets \cup {get} /\ asks' = asks
      /\ height' = height /\ has' = has /\ verify' = verify
      /\ events' = events /\ tasks' = tasks /\ published' = published /\ driver' = driver
  BY DEF InvBlock, loopVars
<1>3. FreeNonces # {} => n \in Nonce
  BY NonceType
<1> HIDE DEF n
<1>4. n \in Nonce => Grows(sync, b)
  BY <1>0, Bounds, ExchangeKeeps
<1> HIDE DEF b
<1>5. ASSUME NEW s \in SyncRecord, Consistent(s)
      PROVE  Grows(s, rearm(s))
  BY <1>5, RearmKeeps
<1> HIDE DEF rearm
<1>6. has[p] \in Hash
  <2>1. has[p] \in Nat /\ height \in Nat /\ \A h \in Height : h # 0 => h \in Hash
    BY <1>0, <1>1, Bounds
  <2>2. has[p] # 0
    BY <1>1, <2>1, SMTT(30)
  <2> QED
    BY <1>0, <2>1, <2>2
<1>7. one \in Seq(Hash)
  BY <1>6, SMTT(30)
<1> HIDE DEF one
<1>8. get \in Span
  BY <1>7 DEF Span
<1> HIDE DEF get
<1>9. n \in Nonce => m \in [peer : Peer, nonce : Nonce, from : Height]
  BY <1>1
<1> HIDE DEF m
<1>10. /\ Grows(sync, sync') /\ gets' \subseteq Span
       /\ asks' \subseteq [peer : Peer, nonce : Nonce, from : Height]
  <2>1. CASE sync' = rearm(sync) /\ asks' = asks /\ gets' = gets
    BY <1>0, <1>5, <2>1 DEF WireOK
  <2>2. CASE FreeNonces # {} /\ sync' = rearm(b) /\ asks' = asks \cup {m} /\ gets' = gets
    <3>1. Grows(sync, b) /\ m \in [peer : Peer, nonce : Nonce, from : Height]
      BY <1>3, <1>4, <1>9, <2>2
    <3>2. b \in SyncRecord /\ Consistent(b)
      BY <3>1 DEF Grows, Consistent
    <3>3. Grows(b, rearm(b))
      BY <1>5, <3>2
    <3> QED
      BY <1>0, <2>2, <3>1, <3>3 DEF Grows, WireOK
  <2>3. CASE sync' = record_request(sync, one, p) /\ gets' = gets \cup {get} /\ asks' = asks
    <3>1. Grows(sync, record_request(sync, one, p))
      BY <1>0, <1>7, RecordKeeps
    <3> QED
      BY <1>0, <1>8, <2>3, <3>1 DEF WireOK
  <2> QED
    BY <1>2, <2>1, <2>2, <2>3
<1>11. WireOK'
  BY <1>0, <1>2, <1>10 DEF WireOK
<1> QED
  BY <1>2, <1>10, <1>11, StepAside DEF Grows

\* A peer's chain grows, a peer answers with blocks, or a message is lost.
LEMMA WireSafe ==
  ASSUME SyncInv,
         \/ \E p \in Peer : PeerAdvances(p)
         \/ \E m \in gets : Blocks(m)
         \/ Lose
  PROVE  SyncInv' /\ LosesNoWork
<1>0. WireOK /\ events \in Seq(Hash)
  BY InvParts
<1>1. /\ sync' = sync /\ height' = height /\ tasks' = tasks /\ published' = published
      /\ verify' = verify /\ driver' = driver /\ gets' \subseteq gets /\ asks' \subseteq asks
  BY DEF PeerAdvances, Blocks, Lose, peerVars, wireVars, loopVars
<1>2. has' \in [Peer -> Height]
  <2>1. ASSUME NEW p \in Peer, PeerAdvances(p)
        PROVE  has' \in [Peer -> Height]
    <3>1. has \in [Peer -> Height] /\ has[p] \in Height /\ has[p] < LastBlock
          /\ has' = [has EXCEPT ![p] = has[p] + 1]
      BY <1>0, <2>1 DEF WireOK, PeerAdvances
    <3>2. has[p] + 1 \in Height
      BY <3>1, Bounds, SMTT(30) DEF Height
    <3> QED
      BY <3>1, <3>2
  <2>2. CASE has' = has
    BY <1>0, <2>2 DEF WireOK
  <2> QED
    BY <2>1, <2>2 DEF Blocks, Lose, peerVars
<1>3. events' \in Seq(Hash)
  <2>1. ASSUME NEW m \in gets, Blocks(m)
        PROVE  events' \in Seq(Hash)
    <3> DEFINE D == {i \in DOMAIN m.hashes : m.hashes[i] <= has[m.peer]}
               got == Pick(m.hashes, D)
    <3>1. m.hashes \in Seq(Hash)
      BY <1>0 DEF WireOK, Span
    <3>2. D \in SUBSET (1..Len(m.hashes))
      BY <3>1, SMTT(30)
    <3>3. events' = events \o got
      BY <2>1 DEF Blocks
    <3> HIDE DEF D
    <3>4. got \in Seq(Hash)
      BY <3>1, <3>2, PickProperties
    <3> HIDE DEF got
    <3> QED
      BY <1>0, <3>3, <3>4, SMTT(30)
  <2>2. CASE events' = events
    BY <1>0, <2>2
  <2> QED
    BY <2>1, <2>2 DEF PeerAdvances, Lose, loopVars
<1>4. SyncTypeOK'
  BY <1>0, <1>1, <1>2, <1>3 DEF SyncInv, SyncTypeOK, WireOK
<1>5. SyncInv'
  BY <1>1, <1>4 DEF SyncInv
<1> QED
  BY <1>1, <1>5, SameSync

\* An answer with headers arrives.
LEMMA HeadersSafe ==
  ASSUME SyncInv, NEW m \in asks, Headers(m)
  PROVE  SyncInv' /\ LosesNoWork
<1> DEFINE upto == Min({has[m.peer], m.from + MaxHeaders})
           n == Max({0, upto - m.from})
           batch == [i \in 1..n |-> m.from + i]
           max == IF batch = <<>> THEN 0 ELSE batch[Len(batch)]
           v == [nonce |-> m.nonce, peer |-> m.peer, rest |-> batch, max |-> max]
<1>0. /\ sync \in SyncRecord /\ Consistent(sync) /\ WireOK
      /\ m \in [peer : Peer, nonce : Nonce, from : Height]
  BY InvParts DEF WireOK
<1>1. m.peer \in Peer /\ m.nonce \in Nonce /\ m.from \in Height /\ has[m.peer] \in Height
  BY <1>0 DEF WireOK
<1>2. /\ \/ sync' = mark_headers_received(sync) /\ verify' = v
         \/ sync' = sync /\ verify' = verify
      /\ asks' \subseteq asks
      /\ height' = height /\ has' = has /\ gets' = gets
      /\ events' = events /\ tasks' = tasks /\ published' = published /\ driver' = driver
  BY DEF Headers, peerVars, loopVars
<1>3. m.from \in Nat /\ has[m.peer] \in Nat /\ MaxHeaders \in Nat /\ m.from + MaxHeaders \in Nat
  <2>1. m.from \in Nat /\ has[m.peer] \in Nat /\ MaxHeaders \in Nat
    BY <1>1, Bounds, SyncNodeConstants
  <2> QED
    BY <2>1, SMTT(30)
<1>4. upto \in Nat /\ upto <= has[m.peer]
  BY <1>3, MinOfTwo
<1> HIDE DEF upto
<1>5. n \in Nat /\ (n = 0 \/ n = upto - m.from)
  <2>1. upto - m.from \in Int
    BY <1>3, <1>4, SMTT(30)
  <2>2. \E x \in {0, upto - m.from} : \A y \in {0, upto - m.from} : x >= y
    BY <2>1, SMTT(30)
  <2>3. n \in {0, upto - m.from}
    BY <2>2 DEF Max
  <2> QED
    BY <2>1, <2>3, MaxWithZero
<1> HIDE DEF n
<1>6. batch \in Seq(Hash) /\ Len(batch) = n
  <2>1. has[m.peer] <= LastBlock /\ LastBlock \in Nat
    BY <1>1, Bounds, SMTT(30) DEF Height
  <2>2. \A i \in 1..n : m.from + i \in Hash
    BY <1>3, <1>4, <1>5, <2>1, SMTT(30) DEF Hash
  <2>3. batch \in [1..n -> Hash]
    BY <2>2
  <2> HIDE DEF batch
  <2> QED
    BY <1>5, <2>3, SMTT(30)
<1> HIDE DEF batch
<1>7. max \in Height
  <2>1. batch # <<>> => batch[Len(batch)] \in Hash
    BY <1>6, SMTT(30)
  <2> QED
    BY <2>1, Bounds
<1> HIDE DEF max
<1>8. v \in [nonce : Nonce, peer : Peer, rest : Seq(Hash), max : Height]
  BY <1>1, <1>6, <1>7
<1> HIDE DEF v
<1>9. Grows(sync, sync')
  BY <1>0, <1>1, <1>2, ExchangeKeeps DEF Grows
<1>10. WireOK'
  BY <1>0, <1>2, <1>8 DEF WireOK
<1> QED
  BY <1>2, <1>9, <1>10, StepAside DEF Grows

\* The last slice of an answer consumes the nonce and learns the peer's height.
LEMMA LearnedKeeps ==
  ASSUME NEW s \in SyncRecord, Consistent(s),
         verify \in [nonce : Nonce, peer : Peer, rest : Seq(Hash), max : Height]
  PROVE  Learned(s) \in SyncRecord /\ Grows(s, Learned(s))
<1> DEFINE a == validate_header_nonce(s, verify.nonce)
           b == update_peer_height(a, verify.max)
           c == update_peer_height_for(b, verify.peer, verify.max)
<1>1. verify.nonce \in Nonce /\ verify.peer \in Peer /\ verify.max \in Height
  OBVIOUS
<1>2. c = Learned(s)
  BY DEF Learned
<1>3. Grows(s, a)
  BY <1>1, ExchangeKeeps
<1> HIDE DEF a
<1>4. a \in SyncRecord /\ Consistent(a)
  BY <1>3 DEF Grows, Consistent
<1>5. Grows(a, b)
  BY <1>1, <1>4, ExchangeKeeps
<1> HIDE DEF b
<1>6. b \in SyncRecord /\ Consistent(b)
  BY <1>5 DEF Grows, Consistent
<1>7. c \in SyncRecord /\ Grows(b, c)
  BY <1>1, <1>6, PeerHeightKeeps
<1> QED
  BY <1>2, <1>3, <1>5, <1>7 DEF Grows

\* A slice of an answer is verified and queued.
LEMMA VerifySafe ==
  ASSUME SyncInv, VerifySlice
  PROVE  SyncInv' /\ LosesNoWork
<1> DEFINE V == [nonce : Nonce, peer : Peer, rest : Seq(Hash), max : Height]
           k == Min({SliceSize, Len(verify.rest)})
           left == SubSeq(verify.rest, k + 1, Len(verify.rest))
           slice == SubSeq(verify.rest, 1, k)
           s == queue_headers(sync, slice)
           w == [verify EXCEPT !.rest = left]
<1>0. sync \in SyncRecord /\ Consistent(sync) /\ WireOK
  BY InvParts
<1>1. verify \in V /\ verify.rest \in Seq(Hash)
  BY <1>0 DEF WireOK, VerifySlice
<1>2. /\ \/ verify' = Nothing /\ sync' = sync
         \/ verify' = w /\ sync' = s
         \/ verify' = Nothing /\ sync' = queue_headers(Learned(sync), <<>>)
         \/ verify' = Nothing /\ sync' = Learned(s)
      /\ height' = height /\ has' = has /\ gets' = gets /\ asks' = asks
      /\ events' = events /\ tasks' = tasks /\ published' = published /\ driver' = driver
  BY DEF VerifySlice, peerVars, loopVars
<1>3. k \in 0..Len(verify.rest)
  <2>1. Len(verify.rest) \in Nat
    BY <1>1, SMTT(30)
  <2>2. SliceSize \in Nat
    BY SyncNodeConstants
  <2>3. k \in Nat /\ k <= Len(verify.rest)
    BY <2>1, <2>2, MinOfTwo
  <2> HIDE DEF k
  <2> QED
    BY <2>1, <2>3, SMTT(30)
<1> HIDE DEF k
<1>4. slice \in Seq(Hash) /\ left \in Seq(Hash)
  BY <1>1, <1>3, CutProperties
<1> HIDE DEF slice, left
<1>5. w \in V
  BY <1>1, <1>4
<1> HIDE DEF w
<1>6. Grows(sync, s)
  BY <1>0, <1>4, QueueKeeps
<1> HIDE DEF s
<1>7. s \in SyncRecord /\ Consistent(s)
  BY <1>6 DEF Grows, Consistent
<1>8. Grows(s, Learned(s)) /\ Grows(sync, Learned(sync))
  BY <1>0, <1>1, <1>7, LearnedKeeps
<1>9. Grows(Learned(sync), queue_headers(Learned(sync), <<>>))
  <2>1. <<>> \in Seq(Hash)
    BY SMTT(30)
  <2>2. Learned(sync) \in SyncRecord /\ Consistent(Learned(sync))
    BY <1>8 DEF Grows, Consistent
  <2> QED
    BY <2>1, <2>2, QueueKeeps
<1>10. Grows(sync, sync')
  BY <1>0, <1>2, <1>6, <1>8, <1>9 DEF Grows
<1>11. WireOK'
  BY <1>0, <1>2, <1>5 DEF WireOK
<1> QED
  BY <1>2, <1>10, <1>11, StepAside DEF Grows

---------------------------------------------------------------------------
\* The event loop takes the next block.
LEMMA ProcessSafe ==
  ASSUME SyncInv, ProcessBlock
  PROVE  SyncInv' /\ LosesNoWork
<1> DEFINE h == Head(events)
           kind == IF h <= height THEN "known"
                   ELSE IF h = height + 1 THEN "accepted" ELSE "orphan"
           t == [kind |-> kind, hash |-> h]
<1>0. /\ WireOK /\ events \in Seq(Hash) /\ height \in Height /\ published \in Height
      /\ tasks \subseteq [kind : TaskKind, hash : Hash]
  BY InvParts
<1>1. /\ events # <<>> /\ events' = Tail(events) /\ tasks' = tasks \cup {t}
      /\ height' = IF kind = "accepted" THEN h ELSE height
      /\ sync' = sync /\ has' = has /\ gets' = gets /\ asks' = asks /\ verify' = verify
      /\ published' = published /\ driver' = driver
  BY DEF ProcessBlock, Taken, Spawn, peerVars, wireVars
<1>2. h \in Hash /\ events' \in Seq(Hash)
  BY <1>0, <1>1, EndsProperties
<1> HIDE DEF h
<1>3. h \in Nat \ {0} /\ h \in Height /\ height \in Nat /\ published \in Nat
  BY <1>0, <1>2, Bounds
<1>4. /\ kind \in {"known", "accepted", "orphan"}
      /\ kind = "known" => h <= height
      /\ kind = "accepted" => h = height + 1
      /\ kind = "orphan" => h # 1
  BY <1>3, SMTT(30)
<1> HIDE DEF kind
<1>5. t \in [kind : TaskKind, hash : Hash] /\ t.kind = kind /\ t.hash = h
  BY <1>2, <1>4 DEF TaskKind
<1>6. height' \in Height /\ height' \in Nat /\ height <= height'
      /\ (kind = "accepted" => height' = h /\ height' = height + 1)
      /\ (kind # "accepted" => height' = height)
  <2>1. CASE kind = "accepted"
    <3>1. height' = h /\ height' = height + 1
      BY <1>1, <1>4, <2>1
    <3>2. height <= height'
      BY <1>3, <3>1, SMTT(30)
    <3> QED
      BY <1>3, <2>1, <3>1, <3>2
  <2>2. CASE kind # "accepted"
    <3>1. height <= height
      BY <1>3, SMTT(30)
    <3> QED
      BY <1>0, <1>1, <1>3, <2>2, <3>1
  <2> QED
    BY <2>1, <2>2
<1>7. SyncTypeOK'
  BY <1>0, <1>1, <1>2, <1>5, <1>6 DEF SyncInv, SyncTypeOK, WireOK
<1>8. published <= height /\ published' <= height'
  <2>1. published <= height
    BY DEF SyncInv
  <2>2. published <= height'
    BY <1>3, <1>6, <2>1, SMTT(30)
  <2> QED
    BY <1>1, <2>1, <2>2
<1>9. ASSUME NEW u \in tasks'
      PROVE  /\ u.kind \in {"known", "accepted", "connected"} => u.hash <= height'
             /\ u.kind = "orphan" => u.hash # 1
  <2>1. CASE u = t
    <3>1. kind \in {"known", "accepted"} => h <= height'
      BY <1>3, <1>4, <1>6, SMTT(30)
    <3> QED
      BY <1>4, <1>5, <2>1, <3>1
  <2>2. CASE u \in tasks
    <3>1. u.hash \in Nat
      BY <1>0, <2>2, Bounds
    <3>2. u.hash <= height => u.hash <= height'
      BY <1>3, <1>6, <3>1, SMTT(30)
    <3> QED
      BY <2>2, <3>2 DEF SyncInv
  <2> QED
    BY <1>1, <2>1, <2>2
<1>10. ASSUME sync'.local # height'
       PROVE  published' < height' /\ [kind |-> "accepted", hash |-> height'] \in tasks'
  <2>1. CASE kind = "accepted"
    <3>1. published < height'
      BY <1>3, <1>6, <1>8, <2>1, SMTT(30)
    <3> QED
      BY <1>1, <1>6, <2>1, <3>1
  <2>2. CASE kind # "accepted"
    BY <1>1, <1>6, <1>10, <2>2 DEF SyncInv
  <2> QED
    BY <2>1, <2>2
<1>11. SyncInv'
  BY <1>1, <1>7, <1>8, <1>9, <1>10 DEF SyncInv
<1> QED
  BY <1>1, <1>11, SameSync

\* A block fails, or its event is lost.
LEMMA FailsSafe ==
  ASSUME SyncInv, ProcessFails
  PROVE  SyncInv' /\ LosesNoWork
<1> DEFINE h == Head(events)
           t == [kind |-> "failed", hash |-> h]
<1>0. /\ WireOK /\ events \in Seq(Hash)
      /\ tasks \subseteq [kind : TaskKind, hash : Hash]
  BY InvParts
<1>1. /\ events # <<>> /\ events' = Tail(events) /\ (tasks' = tasks \cup {t} \/ tasks' = tasks)
      /\ sync' = sync /\ has' = has /\ gets' = gets /\ asks' = asks /\ verify' = verify
      /\ published' = published /\ driver' = driver /\ height' = height
  BY DEF ProcessFails, Taken, Spawn, peerVars, wireVars
<1>2. h \in Hash /\ events' \in Seq(Hash)
  BY <1>0, <1>1, EndsProperties
<1> HIDE DEF h
<1>3. t \in [kind : TaskKind, hash : Hash] /\ t.kind = "failed"
  BY <1>2 DEF TaskKind
<1> HIDE DEF t
<1>4. SyncTypeOK'
  BY <1>0, <1>1, <1>2, <1>3 DEF SyncInv, SyncTypeOK, WireOK
<1>5. \A u \in tasks' : /\ u.kind \in {"known", "accepted", "connected"} => u.hash <= height'
                        /\ u.kind = "orphan" => u.hash # 1
  BY <1>1, <1>3 DEF SyncInv
<1>6. SyncInv'
  BY <1>1, <1>4, <1>5 DEF SyncInv
<1> QED
  BY <1>1, <1>6, SameSync

\* A task that does not publish leaves the publication as it is.
LEMMA TaskAside ==
  ASSUME SyncInv, NEW t \in tasks, t.kind # "accepted", tasks' = tasks \ {t},
         Consistent(sync'), sync'.local = sync.local, events' \in Seq(Hash),
         published' = published, UNCHANGED <<height, peerVars, wireVars, driver, faults>>
  PROVE  SyncInv'
<1>0. /\ WireOK /\ tasks \subseteq [kind : TaskKind, hash : Hash]
  BY InvParts
<1>1. /\ height' = height /\ has' = has /\ gets' = gets /\ asks' = asks /\ verify' = verify
      /\ driver' = driver
  BY DEF peerVars, wireVars
<1>2. sync' \in SyncRecord
  BY DEF Consistent
<1>3. SyncTypeOK'
  BY <1>0, <1>1, <1>2 DEF SyncInv, SyncTypeOK, WireOK
<1>4. [kind |-> "accepted", hash |-> height].kind = "accepted"
  OBVIOUS
<1>5. [kind |-> "accepted", hash |-> height] # t
  BY <1>4
<1> QED
  BY <1>1, <1>3, <1>5 DEF SyncInv

\* The tasks that report a known, a failed or an orphaned block.
LEMMA NotifySafe ==
  ASSUME SyncInv, NEW t \in tasks, NotifyReceived(t) \/ NotifyFailed(t) \/ NotifyOrphan(t),
         UNCHANGED <<height, peerVars, wireVars, driver, faults>>
  PROVE  SyncInv' /\ LosesNoWork
<1> DEFINE h == t.hash
           s == mark_block_received(sync, h)
<1>0. /\ sync \in SyncRecord /\ Consistent(sync) /\ events \in Seq(Hash)
      /\ t \in [kind : TaskKind, hash : Hash] /\ h \in Hash
  BY InvParts
<1>1. /\ \/ t.kind = "known" /\ sync' = s
         \/ t.kind = "failed" /\ sync' = mark_block_failed(s, h)
         \/ t.kind = "orphan" /\ sync' = mark_block_orphan(s, h)
      /\ tasks' = tasks \ {t} /\ events' = events /\ published' = published
  BY DEF NotifyReceived, NotifyFailed, NotifyOrphan, Done
<1>2. /\ t.kind = "known" => h <= height'
      /\ t.kind = "orphan" => h # 1
  BY DEF SyncInv
<1> HIDE DEF h
<1>3. /\ s \in SyncRecord /\ Consistent(s) /\ s.local = sync.local
      /\ Known(sync) \subseteq Known(s) \cup {h}
  BY <1>0, ReceivedKeeps
<1> HIDE DEF s
<1>4. /\ Consistent(mark_block_failed(s, h)) /\ mark_block_failed(s, h).local = s.local
      /\ Known(s) \cup {h} \subseteq Known(mark_block_failed(s, h))
  BY <1>0, <1>3, FailedKeeps
<1>5. h # 1 =>
        /\ Consistent(mark_block_orphan(s, h)) /\ mark_block_orphan(s, h).local = s.local
        /\ \/ Known(s) \cup {h} \subseteq Known(mark_block_orphan(s, h))
           \/ Cardinality(mark_block_orphan(s, h).pool) = MaxOrphanBlocks
  BY <1>0, <1>3, OrphanKeeps
<1>6. /\ Consistent(sync') /\ sync'.local = sync.local
      /\ \/ h <= height' /\ Known(sync) \subseteq Known(sync') \cup {h}
         \/ Known(sync) \cup {h} \subseteq Known(sync')
         \/ Cardinality(sync'.pool) = MaxOrphanBlocks
  BY <1>1, <1>2, <1>3, <1>4, <1>5
<1>7. SyncInv'
  BY <1>0, <1>1, <1>6, TaskAside
<1>8. Tracked \subseteq Known(sync) \cup Range(events) \cup {u.hash : u \in tasks'} \cup {h}
  BY <1>1 DEF Tracked, Known, h
<1>9. Known(sync') \cup Range(events) \cup {u.hash : u \in tasks'} \subseteq Tracked'
  BY <1>1 DEF Tracked, Known
<1>10. LosesNoWork
  BY <1>6, <1>8, <1>9 DEF LosesNoWork
<1> QED
  BY <1>7, <1>10

\* The task of a connected block feeds its pooled child back.
LEMMA AcceptedSafe ==
  ASSUME SyncInv, NEW t \in tasks, NotifyAccepted(t),
         UNCHANGED <<height, peerVars, wireVars, driver, faults>>
  PROVE  SyncInv' /\ LosesNoWork
<1> DEFINE c == t.hash + 1
<1>0. /\ sync \in SyncRecord /\ Consistent(sync) /\ events \in Seq(Hash)
      /\ t \in [kind : TaskKind, hash : Hash] /\ t.hash \in Hash
  BY InvParts
<1>1. /\ t.kind = "connected" /\ sync' = [sync EXCEPT !.pool = @ \ {c}]
      /\ events' = IF c \in sync.pool THEN Append(events, c) ELSE events
      /\ tasks' = tasks \ {t} /\ published' = published /\ height' = height
  BY DEF NotifyAccepted, Done, take_orphans_of
<1>2. t.hash <= height'
  BY <1>1 DEF SyncInv
<1> HIDE DEF c
<1>3. /\ Consistent(sync') /\ sync'.local = sync.local
      /\ Known(sync) \subseteq Known(sync') \cup {c}
  BY <1>0, <1>1, PoolShrinks
<1>4. sync.pool \in SUBSET Hash /\ sync'.queue = sync.queue /\ sync'.down = sync.down
      /\ sync'.pool = sync.pool \ {c}
  BY <1>0, <1>1 DEF SyncRecord
<1>5. events' \in Seq(Hash) /\ Range(events) \subseteq Range(events')
      /\ (c \in sync.pool => c \in Range(events'))
  <2>1. CASE c \in sync.pool
    <3>1. c \in Hash /\ events' = Append(events, c)
      BY <1>1, <1>4, <2>1
    <3>2. Append(events, c) \in Seq(Hash) /\ Range(Append(events, c)) = Range(events) \cup {c}
      <4>1. events \in Seq(Hash) /\ c \in Hash
        BY <1>0, <3>1
      <4> QED
        BY <4>1, AppendElements, SMTT(30)
    <3> QED
      BY <3>1, <3>2
  <2>2. CASE c \notin sync.pool
    BY <1>0, <1>1, <2>2
  <2> QED
    BY <2>1, <2>2
<1>6. SyncInv'
  BY <1>1, <1>3, <1>5, TaskAside
<1>7. Known(sync) \subseteq Known(sync') \cup Range(events')
  BY <1>4, <1>5 DEF Known
<1>8. Tracked \subseteq Tracked' \cup {t.hash}
  BY <1>1, <1>5, <1>7 DEF Tracked, Known
<1>9. LosesNoWork
  BY <1>2, <1>8 DEF LosesNoWork
<1> QED
  BY <1>6, <1>9

\* The task of an accepted block publishes the chain's tip, unless a later one
\* did so before it.
LEMMA ProcessedSafe ==
  ASSUME SyncInv, NEW t \in tasks, NotifyProcessed(t),
         UNCHANGED <<height, peerVars, wireVars, driver, faults>>
  PROVE  SyncInv' /\ LosesNoWork
<1> DEFINE h == t.hash
           s == mark_block_received(sync, h)
           p == set_local_tip(on_block_processed(s, height), height)
           u == [t EXCEPT !.kind = "connected"]
<1>0. /\ sync \in SyncRecord /\ Consistent(sync) /\ events \in Seq(Hash)
      /\ height \in Height /\ published \in Height /\ WireOK
      /\ tasks \subseteq [kind : TaskKind, hash : Hash]
      /\ t \in [kind : TaskKind, hash : Hash] /\ h \in Hash
  BY InvParts
<1>1. /\ t.kind = "accepted" /\ tasks' = (tasks \ {t}) \cup {u}
      /\ sync' = IF h > published THEN p ELSE s
      /\ published' = Max({published, h}) /\ events' = events
      /\ height' = height /\ has' = has /\ gets' = gets /\ asks' = asks /\ verify' = verify
      /\ driver' = driver
  BY DEF NotifyProcessed, peerVars, wireVars
<1>2. u \in [kind : TaskKind, hash : Hash] /\ u.kind = "connected" /\ u.hash = h
  BY <1>0 DEF TaskKind
<1>3. h <= height
  BY <1>1 DEF SyncInv
<1>4. t = [kind |-> "accepted", hash |-> h]
  BY <1>0, <1>1
<1> HIDE DEF h, u
<1>5. /\ s \in SyncRecord /\ Consistent(s) /\ s.local = sync.local
      /\ Known(sync) \subseteq Known(s) \cup {h}
  BY <1>0, ReceivedKeeps
<1> HIDE DEF s
<1>6. Consistent(p) /\ p.local = height /\ Known(p) = Known(s)
  BY <1>0, <1>5, PublishKeeps
<1> HIDE DEF p
<1>7. /\ Consistent(sync') /\ sync' \in SyncRecord
      /\ Known(sync) \subseteq Known(sync') \cup {h}
  BY <1>1, <1>5, <1>6 DEF Consistent
<1>8. h \in Nat /\ height \in Nat /\ published \in Nat /\ published <= height
  BY <1>0, Bounds DEF SyncInv
<1>9. /\ published' \in Height /\ published' <= height
      /\ ~(h > published) => published' = published
  <2>1. {published, h} \in SUBSET Height /\ {published, h} # {}
    BY <1>0, Bounds
  <2>2. /\ published' \in {published, h} /\ published' \in Height
        /\ \A x \in {published, h} : x <= published'
    BY <1>1, <2>1, MaxHeight
  <2>3. published <= published'
    BY <2>2
  <2> QED
    BY <1>3, <1>8, <2>2, <2>3, SMTT(30)
<1>10. SyncTypeOK'
  BY <1>0, <1>1, <1>2, <1>7, <1>9 DEF SyncTypeOK, WireOK
<1>11. \A v \in tasks' : /\ v.kind \in {"known", "accepted", "connected"} => v.hash <= height'
                         /\ v.kind = "orphan" => v.hash # 1
  BY <1>1, <1>2, <1>3 DEF SyncInv
<1>12. ASSUME sync'.local # height
       PROVE  published' < height /\ [kind |-> "accepted", hash |-> height] \in tasks'
  <2>1. ~(h > published) /\ sync' = s
    BY <1>1, <1>6, <1>12
  <2>2. published < height /\ [kind |-> "accepted", hash |-> height] \in tasks
    BY <1>5, <1>12, <2>1 DEF SyncInv
  <2>3. h # height
    BY <1>8, <2>1, <2>2, SMTT(30)
  <2>4. [kind |-> "accepted", hash |-> height].hash = height
        /\ [kind |-> "accepted", hash |-> h].hash = h
    OBVIOUS
  <2>5. [kind |-> "accepted", hash |-> height] # t
    BY <1>4, <2>3, <2>4
  <2> QED
    BY <1>1, <1>9, <2>1, <2>2, <2>5
<1>13. SyncInv'
  BY <1>1, <1>7, <1>9, <1>10, <1>11, <1>12 DEF SyncInv
<1>14. LosesNoWork
  <2>1. Tracked \subseteq Known(sync) \cup Range(events) \cup {v.hash : v \in tasks'} \cup {h}
    BY <1>1 DEF Tracked, Known, h
  <2>2. Known(sync') \cup Range(events) \cup {v.hash : v \in tasks'} \subseteq Tracked'
    BY <1>1 DEF Tracked, Known
  <2>3. h \in {v.hash : v \in tasks'}
    BY <1>1, <1>2
  <2> QED
    BY <1>7, <2>1, <2>2, <2>3 DEF LosesNoWork
<1> QED
  BY <1>13, <1>14

\* The node restarts with its chain.
LEMMA RestartSafe ==
  ASSUME SyncInv, Restart
  PROVE  SyncInv' /\ LosesNoWork
<1>0. height \in Height /\ WireOK
  BY InvParts
<1>1. /\ sync' = New(height) /\ gets' = {} /\ asks' = {} /\ verify' = Nothing
      /\ events' = <<>> /\ tasks' = {} /\ published' = 0 /\ driver' = DriverIdle
      /\ height' = height /\ has' = has
  BY DEF Restart
<1>2. New(height) \in SyncRecord /\ Consistent(New(height)) /\ New(height).local = height
      /\ Over(New(height))
  BY <1>0, NewKeeps
<1>3. <<>> \in Seq(Hash) /\ <<>> \in Seq(Span)
  BY SMTT(30)
<1>4. DriverIdle \in [todo : Seq(Span), sent : Seq(Span), failed : Seq(Hash)]
  BY <1>3 DEF DriverIdle
<1>5. 0 \in Height /\ 0 <= height
  <2>1. height \in Nat /\ 0 \in Height
    BY <1>0, Bounds
  <2> QED
    BY <2>1, SMTT(30)
<1>6. SyncTypeOK'
  BY <1>0, <1>1, <1>2, <1>3, <1>4, <1>5 DEF SyncTypeOK, WireOK
<1>7. SyncInv'
  BY <1>1, <1>2, <1>5, <1>6 DEF SyncInv
<1>8. LosesNoWork
  BY <1>1, <1>2 DEF LosesNoWork, Over
<1> QED
  BY <1>7, <1>8

---------------------------------------------------------------------------
\* The node starts with its books in order.
LEMMA InitSafe ==
  ASSUME Init
  PROVE  SyncInv
<1> DEFINE zero == [p \in Peer |-> 0]
<1>1. height \in Height /\ has \in [Peer -> Height]
      /\ (height = 0 => has \in [Peer -> Height])
  <2>1. 0 \in Height /\ LastBlock \in Height /\ LastBlock - 1 \in Height
    BY Bounds, SMTT(30) DEF Height
  <2> QED
    BY <2>1 DEF Init
<1>2. New(height) \in SyncRecord /\ Consistent(New(height)) /\ New(height).local = height
  BY <1>1, NewKeeps
<1> DEFINE n == New(height)
           a == [n EXCEPT !.state = "Headers", !.heights = has, !.best = LastBlock]
           b == [n EXCEPT !.state = "Synced"]
<1>3. sync = a \/ sync = b
  BY DEF Init
<1> HIDE DEF n
<1>4. ASSUME NEW s, s = a \/ s = b
      PROVE  /\ s \in SyncRecord /\ s.local = n.local /\ s.queue = n.queue /\ s.owned = n.owned
             /\ s.down = n.down /\ s.order = n.order /\ s.reqs = n.reqs /\ s.pool = n.pool
  <2>1. n \in SyncRecord /\ LastBlock \in Height
    BY <1>2, Bounds DEF n
  <2>2. CASE s = a
    BY <1>1, <2>1, <2>2 DEF SyncRecord
  <2>3. CASE s = b
    BY <2>1, <2>3 DEF SyncRecord
  <2> QED
    BY <1>4, <2>2, <2>3
<1> HIDE DEF a, b
<1>5. sync \in SyncRecord /\ Consistent(sync) /\ sync.local = height
  <2>1. n \in SyncRecord /\ Consistent(n) /\ n.local = height
    BY <1>2 DEF n
  <2>2. /\ sync \in SyncRecord /\ sync.local = n.local /\ sync.queue = n.queue
        /\ sync.owned = n.owned /\ sync.down = n.down /\ sync.order = n.order
        /\ sync.reqs = n.reqs /\ sync.pool = n.pool
    BY <1>3, <1>4
  <2> QED
    BY <2>1, <2>2, SameBooks
<1>6. <<>> \in Seq(Hash) /\ <<>> \in Seq(Span)
  BY SMTT(30)
<1>7. DriverIdle \in [todo : Seq(Span), sent : Seq(Span), failed : Seq(Hash)]
  BY <1>6 DEF DriverIdle
<1>8. 0 \in Height /\ 0 <= height
  <2>1. height \in Nat /\ 0 \in Height
    BY <1>1, Bounds
  <2> QED
    BY <2>1, SMTT(30)
<1>9. SyncTypeOK
  BY <1>1, <1>5, <1>6, <1>7, <1>8 DEF Init, SyncTypeOK
<1> QED
  BY <1>5, <1>8, <1>9 DEF Init, SyncInv

\* Every step keeps the books in order and loses no work.
LEMMA NextSafe ==
  ASSUME SyncInv, Next
  PROVE  SyncInv' /\ LosesNoWork
<1>1. ASSUME NEW t \in tasks, TaskStep(t)
      PROVE  SyncInv' /\ LosesNoWork
  <2>1. UNCHANGED <<height, peerVars, wireVars, driver, faults>>
    BY <1>1 DEF TaskStep
  <2>2. CASE NotifyReceived(t) \/ NotifyFailed(t) \/ NotifyOrphan(t)
    BY <2>1, <2>2, NotifySafe
  <2>3. CASE NotifyProcessed(t)
    BY <2>1, <2>3, ProcessedSafe
  <2>4. CASE NotifyAccepted(t)
    BY <2>1, <2>4, AcceptedSafe
  <2> QED
    BY <1>1, <2>2, <2>3, <2>4 DEF TaskStep
<1>2. CASE Tick \/ TickEarly
  BY <1>2, TickSafe
<1>3. CASE SendSpan
  BY <1>3, SendSpanSafe
<1>4. CASE RecordSpan
  BY <1>4, RecordSpanSafe
<1>5. CASE Emergency \/ EmergencyExpiry
  BY <1>5, EmergencySafe
<1>6. ASSUME NEW p \in Peer,
             Connect(p) \/ Disconnect(p) \/ PeerAdvances(p) \/ ChainWork(p) \/ InvBlock(p)
      PROVE  SyncInv' /\ LosesNoWork
  BY <1>6, ConnectSafe, PeerSafe, WireSafe, InvBlockSafe
<1>7. CASE (\E m \in gets : Blocks(m)) \/ Lose
  BY <1>7, WireSafe
<1>8. ASSUME NEW m \in asks, Headers(m)
      PROVE  SyncInv' /\ LosesNoWork
  BY <1>8, HeadersSafe
<1>9. CASE VerifySlice
  BY <1>9, VerifySafe
<1>10. CASE ProcessBlock
  BY <1>10, ProcessSafe
<1>11. CASE ProcessFails
  BY <1>11, FailsSafe
<1>12. CASE Restart
  BY <1>12, RestartSafe
<1> QED
  BY <1>1, <1>2, <1>3, <1>4, <1>5, <1>6, <1>7, <1>8, <1>9, <1>10, <1>11, <1>12 DEF Next

\* The inductive invariant holds in every reachable state, for any peers, chain
\* length, window, queue and pool limits and any number of faults.
THEOREM SyncInvariant == Spec => []SyncInv
<1>1. Init => SyncInv
  BY InitSafe
<1>2. SyncInv /\ [Next]_vars => SyncInv'
  <2>1. CASE Next
    BY <2>1, NextSafe
  <2>2. ASSUME SyncInv, UNCHANGED vars
        PROVE  SyncInv'
    <3>1. /\ sync' = sync /\ height' = height /\ has' = has /\ gets' = gets /\ asks' = asks
          /\ verify' = verify /\ events' = events /\ tasks' = tasks /\ published' = published
          /\ driver' = driver
      BY <2>2 DEF vars, peerVars, wireVars, loopVars
    <3> QED
      BY <2>2, <3>1 DEF SyncInv, SyncTypeOK
  <2> QED
    BY <2>1, <2>2
<1> QED
  BY <1>1, <1>2, PTL DEF Spec

\* A request in flight is counted as being downloaded (pending_requests and
\* downloading, sync.rs).
THEOREM RequestsAreDownloads == Spec => []InFlightAgrees
<1>1. SyncInv => InFlightAgrees
  BY DEF SyncInv, Consistent, InFlightAgrees
<1> QED
  BY <1>1, SyncInvariant, PTL

\* A header counted as queued is queued, so that none is skipped for ever
\* (pending_header_peer and pending_headers, sync.rs).
THEOREM CountedIsQueued == Spec => []OwnedIsQueued
<1>1. SyncInv => OwnedIsQueued
  BY DEF SyncInv, Consistent, OwnedIsQueued
<1> QED
  BY <1>1, SyncInvariant, PTL

\* Once the accepted blocks' tasks are done, ChainSync knows the chain's tip, in
\* whatever order they ran (publish_chain_state, network/node.rs).
THEOREM TipIsPublished == Spec => []PublishedTipFresh
<1>1. ASSUME SyncInv, \A t \in tasks : t.kind # "accepted"
      PROVE  sync.local = height
  <2>1. [kind |-> "accepted", hash |-> height].kind = "accepted"
    OBVIOUS
  <2> QED
    BY <1>1, <2>1 DEF SyncInv
<1>2. SyncInv => PublishedTipFresh
  BY <1>1 DEF PublishedTipFresh
<1> QED
  BY <1>2, SyncInvariant, PTL

\* No change of ChainSync forgets a block the node is still to fetch, except to
\* ask for headers again or because the orphan pool is full (sync.rs).
THEOREM NoWorkIsLost == Spec => GivesUpOnlyToStartOver
<1>1. SyncInv /\ [Next]_vars => [LosesNoWork]_vars
  BY NextSafe
<1> QED
  BY <1>1, SyncInvariant, PTL DEF Spec, GivesUpOnlyToStartOver
=============================================================================
