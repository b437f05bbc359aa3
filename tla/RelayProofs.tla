---------------------------- MODULE RelayProofs ----------------------------
(***************************************************************************)
(* The safety of transaction relay, for every network, every number of      *)
(* transactions and every size of the stempool.  RelayInv is the inductive   *)
(* invariant: a transaction is on the stem of a node or announced by it,     *)
(* never both, and only what was announced is on its way to the mempool.     *)
(***************************************************************************)
EXTENDS RelayProperties, SubsequenceProofs

USE ZenonT(60)

---------------------------------------------------------------------------
\* The router

\* What q is of the stempool of r once the transactions in gone are left out.
Shortened(r, q, gone) ==
    /\ q \in Seq(StemEntry) /\ Len(q) \in 0..Len(r.stem)
    /\ gone \cap Stemmed(r) # {} => Len(q) < Len(r.stem)
    /\ \A i, j \in DOMAIN q : q[i].tx = q[j].tx => i = j
    /\ {e.tx : e \in Range(q)} = Stemmed(r) \ gone

\* A part of a stempool, with entries marked or not, is a stempool of the same
\* transactions but those left out.
LEMMA StemPart ==
  ASSUME NEW r \in Router, RouterOK(r),
         NEW es \in Seq(StemEntry), Len(es) = Len(r.stem),
         \A i \in 1..Len(es) : es[i].tx = r.stem[i].tx,
         NEW gone \in SUBSET Tx,
         NEW D, D = {i \in 1..Len(es) : es[i].tx \notin gone}
  PROVE  Shortened(r, Pick(es, D), gone)
<1>1. /\ r.stem \in Seq(StemEntry) /\ Len(r.stem) \in Nat
      /\ DOMAIN r.stem = 1..Len(r.stem)
  <2>1. r.stem \in Seq(StemEntry)
    BY DEF Router
  <2> QED
    BY <2>1, SMTT(30)
<1>2. D \in SUBSET (1..Len(es))
  OBVIOUS
<1>3. /\ Pick(es, D) \in Seq(StemEntry) /\ Len(Pick(es, D)) = Cardinality(D)
      /\ Cardinality(D) \in 0..Len(es)
      /\ Range(Pick(es, D)) = {es[i] : i \in D}
  BY <1>2, PickProperties
<1>4. DOMAIN Pick(es, D) = 1..Cardinality(D)
  BY DEF Pick
<1>5. \A k, l \in 1..Cardinality(D) :
        /\ Nth(D, k) \in D /\ Nth(D, l) \in D
        /\ Pick(es, D)[k] = es[Nth(D, k)] /\ Pick(es, D)[l] = es[Nth(D, l)]
        /\ Nth(D, k) = Nth(D, l) => k = l
  BY <1>2, PickPlaces
<1>6. \A i, j \in 1..Len(es) : es[i].tx = es[j].tx => i = j
  <2>1. \A i, j \in DOMAIN r.stem : r.stem[i].tx = r.stem[j].tx => i = j
    BY DEF RouterOK
  <2>2. DOMAIN r.stem = 1..Len(es)
    BY <1>1
  <2> QED
    BY <2>1, <2>2
<1>7. \A i, j \in DOMAIN Pick(es, D) : Pick(es, D)[i].tx = Pick(es, D)[j].tx => i = j
  <2> SUFFICES ASSUME NEW i \in 1..Cardinality(D), NEW j \in 1..Cardinality(D),
                      Pick(es, D)[i].tx = Pick(es, D)[j].tx
               PROVE  i = j
    BY <1>4
  <2>1. /\ Nth(D, i) \in D /\ Nth(D, j) \in D
        /\ Pick(es, D)[i] = es[Nth(D, i)] /\ Pick(es, D)[j] = es[Nth(D, j)]
        /\ Nth(D, i) = Nth(D, j) => i = j
    BY <1>5
  <2>2. Nth(D, i) \in 1..Len(es) /\ Nth(D, j) \in 1..Len(es)
    BY <1>2, <2>1
  <2>3. es[Nth(D, i)].tx = es[Nth(D, j)].tx
    BY <2>1
  <2>4. Nth(D, i) = Nth(D, j)
    BY <1>6, <2>2, <2>3
  <2> QED
    BY <2>1, <2>4
<1>8. Stemmed(r) = {es[i].tx : i \in 1..Len(es)}
  <2>1. DOMAIN r.stem = 1..Len(es)
    BY <1>1
  <2>2. Stemmed(r) = {r.stem[i].tx : i \in DOMAIN r.stem}
    BY DEF Stemmed, Range
  <2> QED
    BY <2>1, <2>2
<1>9. {e.tx : e \in Range(Pick(es, D))} = Stemmed(r) \ gone
  <2>1. {e.tx : e \in Range(Pick(es, D))} = {es[i].tx : i \in D}
    BY <1>3, SMTT(30)
  <2>2. {es[i].tx : i \in D} = Stemmed(r) \ gone
    BY <1>8
  <2> QED
    BY <2>1, <2>2
<1>10. ASSUME gone \cap Stemmed(r) # {}
       PROVE  Cardinality(D) < Len(r.stem)
  <2>1. PICK i \in 1..Len(es) : es[i].tx \in gone
    BY <1>8, <1>10
  <2>2. D # 1..Len(es)
    BY <2>1
  <2>3. IsFiniteSet(1..Len(r.stem)) /\ Cardinality(1..Len(r.stem)) = Len(r.stem)
    BY <1>1, FS_Interval, SMTT(30)
  <2>4. Cardinality(D) # Len(r.stem)
    BY <1>2, <2>2, <2>3, FS_Subset
  <2> QED
    BY <1>1, <1>3, <2>4, SMTT(30)
<1> QED
  BY <1>3, <1>7, <1>9, <1>10 DEF Shortened

\* Taking a transaction off the stem.
LEMMA StemWithoutKeeps ==
  ASSUME NEW r \in Router, RouterOK(r), NEW t \in Tx
  PROVE  /\ RouterOK(StemWithout(r, t))
         /\ Stemmed(StemWithout(r, t)) = Stemmed(r) \ {t}
         /\ StemWithout(r, t).fluffed = r.fluffed
         /\ Len(StemWithout(r, t).stem) <= Len(r.stem)
         /\ t \in Stemmed(r) => Len(StemWithout(r, t).stem) < Len(r.stem)
<1> DEFINE es == r.stem
           D  == {i \in DOMAIN es : es[i].tx # t}
           q  == [r EXCEPT !.stem = Pick(es, D)]
<1>1. /\ es \in Seq(StemEntry) /\ r.fluffed \in SUBSET Tx
  BY DEF Router
<1>2. DOMAIN es = 1..Len(es) /\ Len(es) \in Nat
  BY <1>1, SMTT(30)
<1>3. /\ {t} \in SUBSET Tx
      /\ D = {i \in 1..Len(es) : es[i].tx \notin {t}}
  BY <1>2
<1>4. Shortened(r, Pick(es, D), {t})
  <2>1. Len(es) = Len(r.stem) /\ \A i \in 1..Len(es) : es[i].tx = r.stem[i].tx
    OBVIOUS
  <2> HIDE DEF D, es
  <2> QED
    BY <1>1, <1>3, <2>1, StemPart
<1> HIDE DEF D
<1>5. /\ StemWithout(r, t) = q
  BY DEF StemWithout, D
<1>6. q \in Router /\ q.stem = Pick(es, D) /\ q.fluffed = r.fluffed
  BY <1>1, <1>4 DEF Router, Shortened
<1> HIDE DEF q
<1>7. Stemmed(q) = Stemmed(r) \ {t}
  BY <1>4, <1>6 DEF Stemmed, Shortened
<1>8. Stemmed(q) \cap q.fluffed = {}
  BY <1>6, <1>7 DEF RouterOK
<1>9. Len(q.stem) <= Len(es) /\ Len(q.stem) <= MaxStempool
  <2>1. Len(es) <= MaxStempool
    BY DEF RouterOK
  <2> QED
    BY <1>2, <1>4, <1>6, <2>1, DandelionConstants, SMTT(30)
       DEF Shortened
<1>10. RouterOK(q)
  BY <1>4, <1>6, <1>8, <1>9 DEF RouterOK, Shortened
<1> QED
  <2>1. t \in Stemmed(r) => Len(q.stem) < Len(r.stem)
    BY <1>4, <1>6 DEF Shortened
  <2> QED
    BY <1>5, <1>6, <1>7, <1>9, <1>10, <2>1

\* A stempool at its limit gives up an entry, so that there is room for one.
LEMMA LimitKeeps ==
  ASSUME NEW r \in Router, RouterOK(r)
  PROVE  /\ RouterOK(enforce_stempool_limit(r))
         /\ Stemmed(enforce_stempool_limit(r)) \subseteq Stemmed(r)
         /\ enforce_stempool_limit(r).fluffed = r.fluffed
         /\ Len(enforce_stempool_limit(r).stem) < MaxStempool
<1> DEFINE relayed == {i \in DOMAIN r.stem : r.stem[i].src # None}
           k == IF relayed # {} THEN Min(relayed) ELSE 1
<1>1. /\ r.stem \in Seq(StemEntry) /\ Len(r.stem) <= MaxStempool
  BY DEF Router, RouterOK
<1>2. /\ Len(r.stem) \in Nat /\ DOMAIN r.stem = 1..Len(r.stem)
      /\ \A i \in 1..Len(r.stem) : r.stem[i] \in StemEntry
      /\ MaxStempool \in Nat \ {0}
  BY <1>1, DandelionConstants, SMTT(30)
<1>3. CASE Len(r.stem) < MaxStempool
  BY <1>3 DEF enforce_stempool_limit
<1>4. CASE ~(Len(r.stem) < MaxStempool)
  <2>1. k \in 1..Len(r.stem)
    <3>1. CASE relayed # {}
      <4>1. relayed \in SUBSET (1..Len(r.stem))
        BY <1>2
      <4>2. relayed \in SUBSET (0..Len(r.stem))
        BY <1>2, <4>1, SMTT(30)
      <4> HIDE DEF relayed
      <4>3. Min(relayed) \in relayed
        BY <1>2, <3>1, <4>2, Extremes
      <4> QED
        BY <3>1, <4>1, <4>3
    <3>2. CASE ~(relayed # {})
      <4>1. 1 \in 1..Len(r.stem)
        BY <1>2, <1>4, SMTT(30)
      <4> QED
        BY <3>2, <4>1
    <3> QED
      BY <3>1, <3>2
  <2>2. enforce_stempool_limit(r) = StemWithout(r, r.stem[k].tx)
    BY <1>4 DEF enforce_stempool_limit
  <2> HIDE DEF k
  <2>3. r.stem[k].tx \in Tx /\ r.stem[k].tx \in Stemmed(r)
    BY <1>2, <2>1 DEF StemEntry, Stemmed, Range
  <2> DEFINE q == StemWithout(r, r.stem[k].tx)
  <2>4. /\ RouterOK(q) /\ Stemmed(q) = Stemmed(r) \ {r.stem[k].tx}
        /\ q.fluffed = r.fluffed /\ Len(q.stem) < Len(r.stem)
    BY <2>3, StemWithoutKeeps
  <2> HIDE DEF q
  <2>5. Len(q.stem) < MaxStempool
    <3>1. q.stem \in Seq(StemEntry)
      BY <2>4 DEF RouterOK, Router
    <3>2. Len(q.stem) \in Nat
      BY <3>1, SMTT(30)
    <3> QED
      BY <1>1, <1>2, <2>4, <3>2, SMTT(30)
  <2>6. Stemmed(q) \subseteq Stemmed(r)
    BY <2>4
  <2> QED
    BY <2>2, <2>4, <2>5, <2>6 DEF q
<1> QED
  BY <1>3, <1>4

\* A transaction that is neither on the stem nor announced gets onto the stem.
LEMMA StemKeeps ==
  ASSUME NEW r \in Router, RouterOK(r), NEW t \in Tx, NEW src \in Node \cup {None},
         t \notin Stemmed(r) \cup r.fluffed
  PROVE  RouterOK(Stem(r, t, src)) /\ Stem(r, t, src).fluffed = r.fluffed
<1> DEFINE l == enforce_stempool_limit(r)
           e == [tx |-> t, src |-> src, forwarded |-> FALSE]
           q == [l EXCEPT !.stem = Append(l.stem, e)]
<1>1. /\ RouterOK(l) /\ Stemmed(l) \subseteq Stemmed(r) /\ l.fluffed = r.fluffed
      /\ Len(l.stem) < MaxStempool
  BY LimitKeeps
<1>2. Stem(r, t, src) = q
  BY DEF Stem
<1> HIDE DEF l
<1>3. e \in StemEntry /\ e.tx = t
  BY DEF StemEntry
<1> HIDE DEF e
<1>4. /\ l \in Router /\ l.stem \in Seq(StemEntry) /\ l.fluffed \in SUBSET Tx
  BY <1>1 DEF RouterOK, Router
<1> DEFINE a == Append(l.stem, e)
<1>5. a \in Seq(StemEntry) /\ Range(a) = Range(l.stem) \cup {e}
  BY <1>3, <1>4, AppendElements, SMTT(30)
<1>6. /\ DOMAIN a = 1..(Len(l.stem) + 1) /\ Len(a) = Len(l.stem) + 1
      /\ Len(l.stem) \in Nat /\ DOMAIN l.stem = 1..Len(l.stem)
      /\ a[Len(l.stem) + 1] = e /\ \A i \in 1..Len(l.stem) : a[i] = l.stem[i]
  BY <1>3, <1>4, SMTT(30)
<1> HIDE DEF a
<1>7. q \in Router /\ q.stem = a /\ q.fluffed = l.fluffed
  BY <1>4, <1>5 DEF Router, a
<1> HIDE DEF q
<1>8. Stemmed(q) = Stemmed(l) \cup {t}
  BY <1>3, <1>5, <1>7 DEF Stemmed
<1>9. Stemmed(q) \cap q.fluffed = {}
  BY <1>1, <1>7, <1>8 DEF RouterOK
<1>10. Len(q.stem) <= MaxStempool
  BY <1>1, <1>6, <1>7, DandelionConstants, SMTT(30)
<1>11. \A i \in 1..Len(l.stem) : a[i].tx # t
  <2>1. t \notin Stemmed(l)
    BY <1>1
  <2> QED
    BY <1>6, <2>1 DEF Stemmed, Range
<1>12. \A i \in DOMAIN a : i = Len(l.stem) + 1 \/ i \in 1..Len(l.stem)
  BY <1>6, SMTT(30)
<1>13. \A i, j \in DOMAIN a : a[i].tx = a[j].tx => i = j
  <2>1. \A i, j \in 1..Len(l.stem) : a[i].tx = a[j].tx => i = j
    BY <1>1, <1>6 DEF RouterOK
  <2> QED
    BY <1>3, <1>6, <1>11, <1>12, <2>1
<1>14. RouterOK(q)
  BY <1>7, <1>9, <1>10, <1>13 DEF RouterOK
<1> QED
  BY <1>1, <1>2, <1>7, <1>14

\* Announcing a transaction takes it off the stem.
LEMMA FluffedKeeps ==
  ASSUME NEW r \in Router, RouterOK(r), NEW t \in Tx
  PROVE  RouterOK(Fluffed(r, t)) /\ Fluffed(r, t).fluffed = r.fluffed \cup {t}
<1> DEFINE w == StemWithout(r, t)
           q == [w EXCEPT !.fluffed = w.fluffed \cup {t}]
<1>1. RouterOK(w) /\ Stemmed(w) = Stemmed(r) \ {t} /\ w.fluffed = r.fluffed
  BY StemWithoutKeeps
<1>2. Fluffed(r, t) = q
  BY DEF Fluffed
<1> HIDE DEF w
<1>3. w \in Router
  BY <1>1 DEF RouterOK
<1>4. q \in Router /\ q.stem = w.stem /\ q.fluffed = w.fluffed \cup {t}
  BY <1>3 DEF Router
<1> HIDE DEF q
<1>5. Stemmed(q) = Stemmed(w)
  BY <1>4 DEF Stemmed
<1>6. Stemmed(q) \cap q.fluffed = {}
  BY <1>1, <1>4, <1>5 DEF RouterOK
<1>7. RouterOK(q)
  BY <1>1, <1>4, <1>6 DEF RouterOK
<1> QED
  BY <1>1, <1>2, <1>4, <1>7

\* A transaction of this node's own.
LEMMA LocalKeeps ==
  ASSUME NEW r \in Router, RouterOK(r), NEW t \in Tx
  PROVE  RouterOK(add_local_tx(r, t)) /\ add_local_tx(r, t).fluffed = r.fluffed
<1>1. None \in Node \cup {None}
  OBVIOUS
<1> QED
  BY <1>1, StemKeeps DEF add_local_tx

\* What the answer a of the router to a peer's transaction does: what it
\* announces was not announced before.
AnswersFor(r, t, a) ==
    /\ RouterOK(a.router)
    /\ a.action = "Fluff" => t \notin r.fluffed /\ a.router.fluffed = r.fluffed \cup {t}
    /\ a.action # "Fluff" => a.router.fluffed = r.fluffed

\* A transaction of a peer's.
LEMMA ReceivedKeeps ==
  ASSUME NEW r \in Router, RouterOK(r), NEW t \in Tx, NEW src \in Node, NEW mode
  PROVE  AnswersFor(r, t, add_received_tx(r, t, src, mode))
<1> USE DEF AnswersFor
<1> DEFINE a == add_received_tx(r, t, src, mode)
<1>1. CASE t \in r.fluffed
  <2>1. a = [router |-> r, action |-> "Ignore"]
    BY <1>1 DEF add_received_tx
  <2>2. a.router = r /\ a.action = "Ignore"
    BY <2>1, SMTT(30)
  <2> QED
    BY <2>2
<1>2. CASE t \notin r.fluffed /\ t \in Stemmed(r)
  <2>1. a = [router |-> Fluffed(r, t), action |-> "Fluff"]
    BY <1>2 DEF add_received_tx
  <2>2. a.router = Fluffed(r, t) /\ a.action = "Fluff"
    BY <2>1, SMTT(30)
  <2> QED
    BY <1>2, <2>2, FluffedKeeps
<1>3. CASE t \notin r.fluffed /\ t \notin Stemmed(r) /\ mode = "fluff"
  <2> DEFINE l == enforce_stempool_limit(r)
  <2>1. a = [router |-> Fluffed(l, t), action |-> "Fluff"]
    BY <1>3 DEF add_received_tx
  <2>2. a.router = Fluffed(l, t) /\ a.action = "Fluff"
    BY <2>1, SMTT(30)
  <2>3. RouterOK(l) /\ l.fluffed = r.fluffed
    BY LimitKeeps
  <2> HIDE DEF a, l
  <2>4. l \in Router
    BY <2>3 DEF RouterOK
  <2> QED
    BY <1>3, <2>2, <2>3, <2>4, FluffedKeeps DEF a
<1>4. CASE t \notin r.fluffed /\ t \notin Stemmed(r) /\ mode # "fluff"
  <2>1. a = [router |-> Stem(r, t, src), action |-> "Stem"]
    BY <1>4 DEF add_received_tx
  <2>2. a.router = Stem(r, t, src) /\ a.action = "Stem"
    BY <2>1, SMTT(30)
  <2>3. RouterOK(Stem(r, t, src)) /\ Stem(r, t, src).fluffed = r.fluffed
    BY <1>4, StemKeeps
  <2> QED
    BY <2>2, <2>3
<1> QED
  BY <1>1, <1>2, <1>3, <1>4

\* A tick announces transactions that were on the stem, and no other.
LEMMA TickKeeps ==
  ASSUME NEW r \in Router, RouterOK(r), NEW due, NEW target
  PROVE  LET a == tick(r, due, target)
         IN  /\ RouterOK(a.router)
             /\ a.fluffed \in SUBSET Tx /\ a.fluffed \cap r.fluffed = {}
             /\ a.router.fluffed = r.fluffed \cup a.fluffed
<1> DEFINE es     == Range(r.stem)
           fluff  == {e.tx : e \in {x \in es : Fluffs(x, due, target[x.tx])}}
           relay  == {e.tx : e \in {x \in es : Forwards(x, due, target[x.tx])}}
           marked == [i \in DOMAIN r.stem |->
                        [r.stem[i] EXCEPT !.forwarded = @ \/ r.stem[i].tx \in relay]]
           D      == {i \in DOMAIN marked : marked[i].tx \notin fluff}
           q      == [stem |-> Pick(marked, D), fluffed |-> r.fluffed \cup fluff]
           sent   == {<<t, target[t]>> : t \in relay}
           a      == tick(r, due, target)
<1>1. a = [router |-> q, relayed |-> sent, fluffed |-> fluff]
  BY DEF tick
<1>2. r.stem \in Seq(StemEntry) /\ r.fluffed \in SUBSET Tx /\ es \subseteq StemEntry
  <2>1. r.stem \in Seq(StemEntry) /\ r.fluffed \in SUBSET Tx
    BY DEF Router
  <2> QED
    BY <2>1, EndsProperties
<1>3. fluff \in SUBSET Stemmed(r) /\ fluff \in SUBSET Tx
  BY <1>2 DEF Stemmed, StemEntry
<1>4. /\ DOMAIN r.stem = 1..Len(r.stem) /\ Len(r.stem) \in Nat
      /\ \A i \in 1..Len(r.stem) : r.stem[i] \in StemEntry
  BY <1>2, SMTT(30)
<1> HIDE DEF fluff, relay
<1>5. \A i \in 1..Len(r.stem) : marked[i] \in StemEntry /\ marked[i].tx = r.stem[i].tx
  <2> SUFFICES ASSUME NEW i \in 1..Len(r.stem)
               PROVE  marked[i] \in StemEntry /\ marked[i].tx = r.stem[i].tx
    OBVIOUS
  <2> DEFINE b == r.stem[i].forwarded \/ r.stem[i].tx \in relay
  <2>1. marked[i] = [r.stem[i] EXCEPT !.forwarded = b]
    BY <1>4
  <2>2. b \in BOOLEAN
    OBVIOUS
  <2> HIDE DEF b, marked
  <2> QED
    BY <1>4, <2>1, <2>2 DEF StemEntry
<1>6. marked \in Seq(StemEntry) /\ Len(marked) = Len(r.stem) /\ DOMAIN marked = 1..Len(marked)
  <2>1. marked \in [1..Len(r.stem) -> StemEntry]
    <3>1. DOMAIN marked = 1..Len(r.stem) /\ marked = [i \in 1..Len(r.stem) |-> marked[i]]
      BY <1>4
    <3> HIDE DEF marked
    <3> QED
      BY <1>5, <3>1
  <2> HIDE DEF marked
  <2> QED
    BY <1>4, <2>1, SMTT(30)
<1>7. D = {i \in 1..Len(marked) : marked[i].tx \notin fluff}
  BY <1>6
<1> HIDE DEF marked, D
<1>8. Shortened(r, Pick(marked, D), fluff)
  <2>1. \A i \in 1..Len(marked) : marked[i].tx = r.stem[i].tx
    BY <1>5, <1>6
  <2> QED
    BY <1>3, <1>6, <1>7, <2>1, StemPart
<1>9. /\ q \in Router /\ q.stem = Pick(marked, D) /\ q.fluffed = r.fluffed \cup fluff
  BY <1>2, <1>3, <1>8 DEF Router, Shortened
<1> HIDE DEF q, sent
<1>10. /\ a.router = q /\ a.fluffed = fluff
  BY <1>1, SMTT(30)
<1>11. Stemmed(q) = Stemmed(r) \ fluff
  BY <1>8, <1>9 DEF Shortened, Stemmed
<1>12. Stemmed(r) \cap r.fluffed = {}
  BY DEF RouterOK
<1>13. Len(q.stem) <= MaxStempool
  <2>1. Len(r.stem) <= MaxStempool
    BY DEF RouterOK
  <2> QED
    BY <1>4, <1>8, <1>9, <2>1, DandelionConstants, SMTT(30) DEF Shortened
<1>14. RouterOK(q)
  <2>1. Stemmed(q) \cap q.fluffed = {}
    BY <1>9, <1>11, <1>12
  <2> QED
    BY <1>8, <1>9, <1>13, <2>1 DEF RouterOK, Shortened
<1>15. fluff \cap r.fluffed = {}
  BY <1>3, <1>12
<1> HIDE DEF a
<1> QED
  BY <1>3, <1>9, <1>10, <1>14, <1>15 DEF a

---------------------------------------------------------------------------
\* The network

Message == [type : Type, tx : Tx]

\* In links, every node has in flight what it had in flight in net, and n
\* perhaps what is in out.
SentOnly(n, out, links) ==
    /\ links \in [Node -> [Node -> Seq(Message)]]
    /\ \A a, b \in Node : \A x \in Range(links[a][b]) :
          x \in Range(net[a][b]) \/ (a = n /\ x \in Range(out[b]))

\* Sending adds to what is in flight.
LEMMA SendKeeps ==
  ASSUME net \in [Node -> [Node -> Seq(Message)]], NEW n \in Node,
         NEW out \in [Node -> Seq(Message)]
  PROVE  /\ Send(n, out) \in [Node -> Seq(Message)]
         /\ \A b \in Node : Range(Send(n, out)[b]) \subseteq Range(net[n][b]) \cup Range(out[b])
<1>1. ASSUME NEW b \in Node
      PROVE  /\ Send(n, out)[b] \in Seq(Message)
             /\ Range(Send(n, out)[b]) \subseteq Range(net[n][b]) \cup Range(out[b])
  <2>1. net[n][b] \in Seq(Message) /\ out[b] \in Seq(Message)
    OBVIOUS
  <2>2. /\ net[n][b] \o out[b] \in Seq(Message)
        /\ Range(net[n][b] \o out[b]) = Range(net[n][b]) \cup Range(out[b])
    BY <2>1, JoinProperties, SMTT(30)
  <2>3. Send(n, out)[b] = IF b \in Peers(n) THEN net[n][b] \o out[b] ELSE net[n][b]
    BY DEF Send
  <2>4. CASE b \in Peers(n)
    BY <2>2, <2>3, <2>4
  <2>5. CASE b \notin Peers(n)
    BY <2>1, <2>3, <2>5
  <2> QED
    BY <2>4, <2>5
<1>2. Send(n, out) = [b \in Node |-> Send(n, out)[b]]
  BY DEF Send
<1> QED
  BY <1>1, <1>2

\* A tick sends and takes nothing.
LEMMA TickSends ==
  ASSUME net \in [Node -> [Node -> Seq(Message)]], NEW n \in Node,
         NEW out \in [Node -> Seq(Message)]
  PROVE  SentOnly(n, out, [net EXCEPT ![n] = Send(n, out)])
<1> DEFINE s == Send(n, out)
           links == [net EXCEPT ![n] = s]
<1>1. /\ s \in [Node -> Seq(Message)]
      /\ \A b \in Node : Range(s[b]) \subseteq Range(net[n][b]) \cup Range(out[b])
  BY SendKeeps
<1> HIDE DEF s
<1>2. links \in [Node -> [Node -> Seq(Message)]]
  BY <1>1
<1>3. \A a \in Node : links[a] = IF a = n THEN s ELSE net[a]
  BY <1>1
<1> HIDE DEF links
<1>4. ASSUME NEW a \in Node, NEW b \in Node, NEW x \in Range(links[a][b])
      PROVE  x \in Range(net[a][b]) \/ (a = n /\ x \in Range(out[b]))
  <2>1. CASE a = n
    BY <1>1, <1>3, <1>4, <2>1
  <2>2. CASE a # n
    BY <1>3, <1>4, <2>2
  <2> QED
    BY <2>1, <2>2
<1>5. SentOnly(n, out, links)
  BY <1>2, <1>4 DEF SentOnly
<1> QED
  BY <1>5 DEF links, s

\* A handler takes the oldest message of its peer and sends.
LEMMA HandlerSends ==
  ASSUME net \in [Node -> [Node -> Seq(Message)]], NEW n \in Node, NEW m \in Node,
         n # m, net[m][n] # <<>>, NEW out \in [Node -> Seq(Message)]
  PROVE  SentOnly(n, out, Handled(n, m, out))
<1> DEFINE s == Send(n, out)
           half  == [net EXCEPT ![n] = s]
           links == [half EXCEPT ![m][n] = Tail(half[m][n])]
<1>1. /\ s \in [Node -> Seq(Message)]
      /\ \A b \in Node : Range(s[b]) \subseteq Range(net[n][b]) \cup Range(out[b])
  BY SendKeeps
<1>2. Handled(n, m, out) = links
  BY DEF Handled
<1> HIDE DEF s
<1>3. /\ half \in [Node -> [Node -> Seq(Message)]] /\ half[m] = net[m]
      /\ SentOnly(n, out, half)
  <2>1. SentOnly(n, out, half)
    BY TickSends DEF s
  <2> QED
    BY <2>1 DEF SentOnly
<1> HIDE DEF half
<1>4. /\ Tail(half[m][n]) \in Seq(Message)
      /\ Range(Tail(half[m][n])) \subseteq Range(net[m][n])
  <2>1. net[m][n] \in Seq(Message)
    OBVIOUS
  <2>2. /\ Tail(net[m][n]) \in Seq(Message)
        /\ Range(net[m][n]) = {Head(net[m][n])} \cup Range(Tail(net[m][n]))
    BY <2>1, EndsProperties
  <2> QED
    BY <1>3, <2>2
<1> DEFINE tl == Tail(half[m][n])
<1> HIDE DEF tl
<1>5. links \in [Node -> [Node -> Seq(Message)]]
  BY <1>3, <1>4 DEF tl
<1>6. \A a, b \in Node : links[a][b] = IF a = m /\ b = n THEN tl ELSE half[a][b]
  BY <1>3 DEF tl
<1> HIDE DEF links
<1>7. ASSUME NEW a \in Node, NEW b \in Node, NEW x \in Range(links[a][b])
      PROVE  x \in Range(net[a][b]) \/ (a = n /\ x \in Range(out[b]))
  <2>1. CASE a = m /\ b = n
    BY <1>4, <1>6, <1>7, <2>1 DEF tl
  <2>2. CASE ~(a = m /\ b = n)
    BY <1>3, <1>6, <1>7, <2>2 DEF SentOnly
  <2> QED
    BY <2>1, <2>2
<1>8. SentOnly(n, out, links)
  BY <1>5, <1>7 DEF SentOnly
<1> QED
  BY <1>2, <1>8

---------------------------------------------------------------------------
\* The steps

\* If all that is sent as an announcement is recorded as announced in this step,
\* no announcement is repeated.
LEMMA OnlyNew ==
  ASSUME NEW n \in Node, NEW out, SentOnly(n, out, net'),
         \A b \in Node, t \in Tx :
            Msg("Inv", t) \in Range(out[b]) => t \in router'[n].fluffed \ router[n].fluffed
  PROVE  AnnouncesOnlyNew
<1> SUFFICES ASSUME NEW a \in Node, NEW t \in Tx, ~Announced(a, t), Announced(a, t)'
             PROVE  t \in router'[a].fluffed \ router[a].fluffed
  BY DEF AnnouncesOnlyNew
<1>1. PICK b \in Node : Msg("Inv", t) \in Range(net'[a][b])
  BY DEF Announced, Msg
<1>2. Msg("Inv", t) \notin Range(net[a][b])
  BY DEF Announced
<1>3. a = n /\ Msg("Inv", t) \in Range(out[b])
  BY <1>1, <1>2 DEF SentOnly
<1> QED
  BY <1>3

\* What the invariant says of a node, and what a change of its router and of its
\* events must keep: the transactions in F are announced and wait to be admitted.
LEMMA RouterMoves ==
  ASSUME RelayInv, NEW n \in Node, NEW q, RouterOK(q), NEW F \in SUBSET Tx,
         q.fluffed = router[n].fluffed \cup F,
         router' = [router EXCEPT ![n] = q],
         events' \in [Node -> SUBSET Tx],
         \A m \in Node : events'[m] \subseteq events[m] \cup (IF m = n THEN F ELSE {}),
         net' \in [Node -> [Node -> Seq(Message)]],
         spawned' \in [Node -> SUBSET Tx],
         UNCHANGED <<pool, absent, conn, dropped, drops>>
  PROVE  RelayInv'
<1>1. RelayTypeOK /\ StemIsHidden
  BY DEF RelayInv
<1>2. /\ router \in [Node -> Router] /\ pool \in [Node -> SUBSET Tx]
      /\ q \in Router
  BY <1>1 DEF RelayTypeOK, RouterOK
<1>3. /\ router' \in [Node -> Router] /\ router'[n] = q
      /\ \A m \in Node : m # n => router'[m] = router[m]
  BY <1>2
<1>4. RelayTypeOK'
  BY <1>1, <1>2, <1>3 DEF RelayTypeOK, Message
<1>5. ASSUME NEW m \in Node
      PROVE  /\ router[m].fluffed \subseteq router'[m].fluffed
             /\ RouterOK(router'[m])
             /\ events'[m] \subseteq router'[m].fluffed
  <2>1. RouterOK(router[m]) /\ events[m] \subseteq router[m].fluffed
    BY DEF RelayInv
  <2>2. CASE m = n
    BY <1>3, <2>1, <2>2
  <2>3. CASE m # n
    BY <1>3, <2>1, <2>3
  <2> QED
    BY <2>2, <2>3
<1>6. StemIsHidden'
  BY <1>1, <1>5 DEF StemIsHidden
<1>7. \A m \in Node : RouterOK(router'[m]) /\ events'[m] \subseteq router'[m].fluffed
  BY <1>5
<1>8. (\A m \in Node : RouterOK(router[m]) /\ events[m] \subseteq router[m].fluffed)'
  BY <1>7 DEF RouterOK, Router, StemEntry, Stemmed
<1> QED
  BY <1>4, <1>6, <1>8 DEF RelayInv

\* Handing messages over changes nothing else that the invariant speaks of.
LEMMA OnlyNet ==
  ASSUME RelayInv, net' \in [Node -> [Node -> Seq(Message)]],
         absent' \in [Node -> SUBSET (Node \X Tx)],
         UNCHANGED <<router, pool, spawned, events, conn, dropped, drops>>
  PROVE  RelayInv'
<1>1. RelayTypeOK'
  BY DEF RelayInv, RelayTypeOK, Message
<1>2. StemIsHidden'
  BY DEF RelayInv, StemIsHidden
<1>3. (\A n \in Node : RouterOK(router[n]) /\ events[n] \subseteq router[n].fluffed)'
  BY DEF RelayInv, RouterOK, Router, StemEntry, Stemmed
<1> QED
  BY <1>1, <1>2, <1>3 DEF RelayInv

\* send_raw_transaction.
LEMMA SubmitKeeps ==
  ASSUME RelayInv, NEW n \in Node, NEW t \in Tx, Submit(n, t)
  PROVE  RelayInv' /\ AnnouncesOnlyNew
<1> USE DEF Submit
<1>1. {pool, spawned} \subseteq [Node -> SUBSET Tx]
  BY DEF RelayInv, RelayTypeOK
<1>2. {pool', spawned'} \subseteq [Node -> SUBSET Tx]
  <2>1. \A f \in [Node -> SUBSET Tx] : [f EXCEPT ![n] = @ \cup {t}] \in [Node -> SUBSET Tx]
    OBVIOUS
  <2>2. pool' \in [Node -> SUBSET Tx]
    <3>1. pool \in [Node -> SUBSET Tx]
      BY <1>1
    <3>2. [pool EXCEPT ![n] = @ \cup {t}] \in [Node -> SUBSET Tx]
      BY <2>1, <3>1
    <3> QED
      BY <3>2
  <2>3. spawned' \in [Node -> SUBSET Tx]
    <3>1. spawned \in [Node -> SUBSET Tx]
      BY <1>1
    <3>2. [spawned EXCEPT ![n] = @ \cup {t}] \in [Node -> SUBSET Tx]
      BY <2>1, <3>1
    <3> QED
      BY <3>2
  <2> QED
    BY <2>2, <2>3
<1>3. RelayTypeOK'
  BY <1>2 DEF RelayInv, RelayTypeOK
<1>4. StemIsHidden'
  <2> SUFFICES ASSUME NEW m \in Node, NEW u \in pool'[m]
               PROVE  <<m, u>> \in Wallets \/ u \in router'[m].fluffed
    BY DEF StemIsHidden
  <2>1. u \in pool[m] \/ (m = n /\ u = t)
    BY <1>1
  <2> QED
    BY <2>1 DEF RelayInv, StemIsHidden
<1>5. (\A m \in Node : RouterOK(router[m]) /\ events[m] \subseteq router[m].fluffed)'
  BY DEF RelayInv, RouterOK, Router, StemEntry, Stemmed
<1>6. AnnouncesOnlyNew
  BY DEF AnnouncesOnlyNew, Announced, Msg
<1> QED
  BY <1>3, <1>4, <1>5, <1>6 DEF RelayInv

\* The task of a submission reaches the router.
LEMMA QueueKeeps ==
  ASSUME RelayInv, NEW n \in Node, NEW t \in Tx, queue_transaction(n, t)
  PROVE  RelayInv' /\ AnnouncesOnlyNew
<1> USE DEF queue_transaction
<1> DEFINE q == add_local_tx(router[n], t)
<1>1. /\ router \in [Node -> Router] /\ spawned \in [Node -> SUBSET Tx]
      /\ events \in [Node -> SUBSET Tx] /\ net \in [Node -> [Node -> Seq(Message)]]
      /\ RouterOK(router[n])
  BY DEF RelayInv, RelayTypeOK, Message
<1>2. RouterOK(q) /\ q.fluffed = router[n].fluffed
  BY <1>1, LocalKeeps
<1>3. router' = [router EXCEPT ![n] = q]
  OBVIOUS
<1> HIDE DEF q
<1>4. spawned' \in [Node -> SUBSET Tx]
  BY <1>1
<1>5. q.fluffed = router[n].fluffed \cup {} /\ {} \in SUBSET Tx
  BY <1>2
<1>6. \A m \in Node : events'[m] \subseteq events[m] \cup (IF m = n THEN {} ELSE {})
  OBVIOUS
<1>7. RelayInv'
  BY <1>1, <1>2, <1>3, <1>4, <1>5, <1>6, RouterMoves
<1>8. AnnouncesOnlyNew
  BY DEF AnnouncesOnlyNew, Announced, Msg
<1> QED
  BY <1>7, <1>8

\* The event consumer admits only what was announced.
LEMMA AdmitKeeps ==
  ASSUME RelayInv, NEW n \in Node, NEW t \in Tx, Admit(n, t)
  PROVE  RelayInv' /\ AnnouncesOnlyNew
<1> USE DEF Admit
<1>1. {pool, events} \subseteq [Node -> SUBSET Tx]
  BY DEF RelayInv, RelayTypeOK
<1>2. {pool', events'} \subseteq [Node -> SUBSET Tx]
  BY <1>1
<1>3. RelayTypeOK'
  BY <1>2 DEF RelayInv, RelayTypeOK
<1>4. StemIsHidden'
  <2> SUFFICES ASSUME NEW m \in Node, NEW u \in pool'[m]
               PROVE  <<m, u>> \in Wallets \/ u \in router'[m].fluffed
    BY DEF StemIsHidden
  <2>1. u \in pool[m] \/ (m = n /\ u = t)
    BY <1>1
  <2>2. t \in router[n].fluffed
    BY DEF RelayInv
  <2> QED
    BY <2>1, <2>2 DEF RelayInv, StemIsHidden
<1>5. \A m \in Node : RouterOK(router[m])' /\ events'[m] \subseteq router'[m].fluffed
  <2>1. \A m \in Node : events'[m] \subseteq events[m]
    BY <1>1
  <2> QED
    BY <2>1 DEF RelayInv, RouterOK, Router, StemEntry, Stemmed
<1>6. AnnouncesOnlyNew
  BY DEF AnnouncesOnlyNew, Announced, Msg
<1> QED
  BY <1>3, <1>4, <1>5, <1>6 DEF RelayInv

\* A message for each transaction of a sequence.
LEMMA MsgsAreMessages ==
  ASSUME NEW txs \in Seq(Tx), NEW type \in Type
  PROVE  /\ Msgs(type, txs) \in Seq(Message)
         /\ Range(Msgs(type, txs)) = {Msg(type, t) : t \in Range(txs)}
<1> DEFINE ms == Msgs(type, txs)
<1>1. Len(txs) \in Nat /\ DOMAIN txs = 1..Len(txs) /\ \A i \in 1..Len(txs) : txs[i] \in Tx
  BY SMTT(30)
<1>2. ms = [i \in 1..Len(txs) |-> Msg(type, txs[i])]
  BY <1>1 DEF Msgs
<1>3. \A i \in 1..Len(txs) : Msg(type, txs[i]) \in Message
  BY <1>1 DEF Msg, Message
<1>4. ms \in [1..Len(txs) -> Message]
  BY <1>2, <1>3
<1>5. /\ DOMAIN ms = 1..Len(txs) /\ \A i \in 1..Len(txs) : ms[i] = Msg(type, txs[i])
  BY <1>2
<1>6. ms \in Seq(Message)
  <2> HIDE DEF ms
  <2> QED
    BY <1>1, <1>4, SMTT(30)
<1>7. Range(ms) = {Msg(type, t) : t \in Range(txs)}
  BY <1>1, <1>5 DEF Range
<1> QED
  BY <1>6, <1>7

\* A stempool can be listed.
LEMMA ListIsSeq ==
  ASSUME NEW r \in Router, NEW order \in Orders(Stemmed(r))
  PROVE  order \in Seq(Tx)
<1>1. r.stem \in Seq(StemEntry)
  BY DEF Router
<1>2. /\ Len(r.stem) \in Nat /\ DOMAIN r.stem = 1..Len(r.stem)
      /\ \A i \in 1..Len(r.stem) : r.stem[i] \in StemEntry
  BY <1>1, SMTT(30)
<1> DEFINE f == [i \in 1..Len(r.stem) |-> r.stem[i].tx]
<1>3. Stemmed(r) = {r.stem[i].tx : i \in 1..Len(r.stem)}
  BY <1>2 DEF Stemmed, Range
<1>4. f \in Surjection(1..Len(r.stem), Stemmed(r))
  BY <1>3 DEF Surjection
<1>5. IsFiniteSet(Stemmed(r))
  <2>1. IsFiniteSet(1..Len(r.stem))
    BY <1>2, FS_Interval, SMTT(30)
  <2> HIDE DEF f
  <2> QED
    BY <1>4, <2>1, FS_Surjection
<1>6. Cardinality(Stemmed(r)) \in Nat
  BY <1>5, FS_CardinalityType
<1>7. Stemmed(r) \subseteq Tx
  BY <1>2, <1>3 DEF StemEntry
<1>8. order \in [1..Cardinality(Stemmed(r)) -> Tx]
  <2>1. order \in [1..Cardinality(Stemmed(r)) -> Stemmed(r)]
    BY DEF Orders, Injection
  <2> QED
    BY <1>7, <2>1
<1> QED
  BY <1>6, <1>8, SMTT(30)

\* The maintenance loop forwards and announces.
LEMMA MaintenanceKeeps ==
  ASSUME RelayInv, NEW n \in Node, NEW due, run_dandelion_tick(n, due)
  PROVE  RelayInv' /\ AnnouncesOnlyNew
<1>1. PICK target \in [Stemmed(router[n]) -> Targets(n)],
           order \in Orders(Stemmed(router[n])) :
        LET a == tick(router[n], due, target)
            Sub(txs) == Pick(order, {i \in DOMAIN order : order[i] \in txs})
        IN  /\ router' = [router EXCEPT ![n] = a.router]
            /\ net' = [net EXCEPT ![n] = Send(n, [m \in Node |->
                  Msgs("Txs", Sub({t \in Tx : <<t, m>> \in a.relayed})) \o
                  Msgs("Inv", Sub(a.fluffed))])]
            /\ events' = [events EXCEPT ![n] = @ \cup a.fluffed]
            /\ UNCHANGED <<pool, spawned, absent, conn, dropped, drops>>
  BY DEF run_dandelion_tick
<1> DEFINE a == tick(router[n], due, target)
           Sub(txs) == Pick(order, {i \in DOMAIN order : order[i] \in txs})
           out == [m \in Node |-> Msgs("Txs", Sub({t \in Tx : <<t, m>> \in a.relayed}))
                                    \o Msgs("Inv", Sub(a.fluffed))]
<1>2. /\ router \in [Node -> Router] /\ spawned \in [Node -> SUBSET Tx]
      /\ events \in [Node -> SUBSET Tx] /\ net \in [Node -> [Node -> Seq(Message)]]
      /\ router[n] \in Router /\ RouterOK(router[n])
  BY DEF RelayInv, RelayTypeOK, Message
<1>3. /\ RouterOK(a.router) /\ a.fluffed \in SUBSET Tx
      /\ a.fluffed \cap router[n].fluffed = {}
      /\ a.router.fluffed = router[n].fluffed \cup a.fluffed
  BY <1>2, TickKeeps
<1>4. order \in Seq(Tx)
  BY <1>2, ListIsSeq
<1>5. ASSUME NEW txs \in SUBSET Tx
      PROVE  Sub(txs) \in Seq(Tx) /\ Range(Sub(txs)) \subseteq txs
  <2> DEFINE D == {i \in DOMAIN order : order[i] \in txs}
  <2>1. D \in SUBSET (1..Len(order))
    <3>1. DOMAIN order = 1..Len(order)
      BY <1>4, SMTT(30)
    <3> QED
      BY <3>1
  <2>2. \A i \in D : order[i] \in txs
    OBVIOUS
  <2> HIDE DEF D
  <2>3. Pick(order, D) \in Seq(Tx) /\ Range(Pick(order, D)) = {order[i] : i \in D}
    BY <1>4, <2>1, PickProperties
  <2>4. Pick(order, D) \in Seq(Tx) /\ Range(Pick(order, D)) \subseteq txs
    BY <2>2, <2>3
  <2> QED
    BY <2>4 DEF D
<1>6. /\ router' = [router EXCEPT ![n] = a.router]
      /\ net' = [net EXCEPT ![n] = Send(n, out)]
      /\ events' = [events EXCEPT ![n] = @ \cup a.fluffed]
      /\ UNCHANGED <<pool, spawned, absent, conn, dropped, drops>>
  BY <1>1
<1> HIDE DEF a, Sub
<1>7. ASSUME NEW m \in Node
      PROVE  /\ out[m] \in Seq(Message)
             /\ \A t \in Tx : Msg("Inv", t) \in Range(out[m]) => t \in a.fluffed
  <2> DEFINE fwd == Msgs("Txs", Sub({t \in Tx : <<t, m>> \in a.relayed}))
             inv == Msgs("Inv", Sub(a.fluffed))
  <2>1. "Inv" \in Type /\ "Txs" \in Type
    BY DEF Type
  <2>2. {t \in Tx : <<t, m>> \in a.relayed} \in SUBSET Tx
    OBVIOUS
  <2>3. /\ fwd \in Seq(Message)
        /\ Range(fwd) = {Msg("Txs", t) : t \in Range(Sub({t \in Tx : <<t, m>> \in a.relayed}))}
    BY <1>5, <2>1, <2>2, MsgsAreMessages
  <2>4. inv \in Seq(Message) /\ Range(inv) = {Msg("Inv", t) : t \in Range(Sub(a.fluffed))}
    BY <1>3, <1>5, <2>1, MsgsAreMessages
  <2>5. out[m] = fwd \o inv
    OBVIOUS
  <2> HIDE DEF fwd, inv, out
  <2>6. out[m] \in Seq(Message) /\ Range(out[m]) = Range(fwd) \cup Range(inv)
    <3>1. fwd \in Seq(Message) /\ inv \in Seq(Message)
      BY <2>3, <2>4
    <3>2. fwd \o inv \in Seq(Message) /\ Range(fwd \o inv) = Range(fwd) \cup Range(inv)
      BY <3>1, JoinProperties, SMTT(30)
    <3> QED
      BY <2>5, <3>2
  <2>7. ASSUME NEW t \in Tx, Msg("Inv", t) \in Range(out[m])
        PROVE  t \in a.fluffed
    <3>1. \A u : Msg("Inv", t) # Msg("Txs", u)
      <4>1. \A u : Msg("Inv", t).type = "Inv" /\ Msg("Txs", u).type = "Txs"
        BY DEF Msg
      <4> QED
        BY <4>1
    <3>2. PICK u \in Range(Sub(a.fluffed)) : Msg("Inv", t) = Msg("Inv", u)
      BY <2>3, <2>4, <2>6, <2>7, <3>1
    <3>3. Msg("Inv", t).tx = t /\ Msg("Inv", u).tx = u
      BY DEF Msg
    <3>4. u \in a.fluffed
      BY <1>3, <1>5, <3>2
    <3> QED
      BY <3>2, <3>3, <3>4
  <2> QED
    BY <2>6, <2>7
<1>8. out \in [Node -> Seq(Message)]
  BY <1>7
<1> HIDE DEF out
<1>9. SentOnly(n, out, net')
  BY <1>2, <1>6, <1>8, TickSends
<1>10. /\ events' \in [Node -> SUBSET Tx] /\ spawned' \in [Node -> SUBSET Tx]
       /\ \A m \in Node : events'[m] \subseteq events[m] \cup (IF m = n THEN a.fluffed ELSE {})
  BY <1>2, <1>3, <1>6
<1>11. RelayInv'
  <2>1. net' \in [Node -> [Node -> Seq(Message)]]
    BY <1>9 DEF SentOnly
  <2> DEFINE q == a.router
             F == a.fluffed
  <2>2. /\ RouterOK(q) /\ F \in SUBSET Tx /\ q.fluffed = router[n].fluffed \cup F
        /\ router' = [router EXCEPT ![n] = q]
        /\ \A m \in Node : events'[m] \subseteq events[m] \cup (IF m = n THEN F ELSE {})
    BY <1>3, <1>6, <1>10
  <2> HIDE DEF q, F
  <2> QED
    BY <1>6, <1>10, <2>1, <2>2, RouterMoves
<1>12. \A b \in Node, t \in Tx :
          Msg("Inv", t) \in Range(out[b]) => t \in router'[n].fluffed \ router[n].fluffed
  <2>1. router'[n] = a.router
    BY <1>2, <1>6
  <2> QED
    BY <1>3, <1>7, <2>1
<1> QED
  BY <1>9, <1>11, <1>12, OnlyNew

\* Nothing to send.
LEMMA NoMessages == <<>> \in Seq(Message) /\ Range(<<>>) = {}
<1>1. <<>> \in Seq(Message)
  BY SMTT(30)
<1> QED
  BY <1>1, EndsProperties

\* An answer goes to one peer.
LEMMA OnlyTo ==
  ASSUME NEW m, NEW msgs \in Seq(Message)
  PROVE  /\ Only(m, msgs) \in [Node -> Seq(Message)]
         /\ \A b \in Node : Range(Only(m, msgs)[b]) \subseteq Range(msgs)
<1>1. <<>> \in Seq(Message) /\ Range(<<>>) = {}
  BY EndsProperties
<1>2. \A b \in Node : Only(m, msgs)[b] = IF b = m THEN msgs ELSE <<>>
  BY DEF Only
<1>3. \A b \in Node : /\ Only(m, msgs)[b] \in Seq(Message)
                      /\ Range(Only(m, msgs)[b]) \subseteq Range(msgs)
  BY <1>1, <1>2
<1>4. Only(m, msgs) = [b \in Node |-> Only(m, msgs)[b]]
  BY DEF Only
<1> QED
  BY <1>3, <1>4

\* Of a handler that answers and announces nothing.
LEMMA AnswerKeeps ==
  ASSUME RelayInv, NEW n \in Node, NEW m \in Node, n # m, net[m][n] # <<>>,
         NEW msgs \in Seq(Message), \A t \in Tx : Msg("Inv", t) \notin Range(msgs),
         net' = Handled(n, m, Only(m, msgs)),
         absent' \in [Node -> SUBSET (Node \X Tx)],
         UNCHANGED <<router, pool, spawned, events, conn, dropped, drops>>
  PROVE  RelayInv' /\ AnnouncesOnlyNew
<1>1. net \in [Node -> [Node -> Seq(Message)]]
  BY DEF RelayInv, RelayTypeOK, Message
<1>2. /\ Only(m, msgs) \in [Node -> Seq(Message)]
      /\ \A b \in Node : Range(Only(m, msgs)[b]) \subseteq Range(msgs)
  BY OnlyTo
<1>3. SentOnly(n, Only(m, msgs), net')
  BY <1>1, <1>2, HandlerSends
<1>4. net' \in [Node -> [Node -> Seq(Message)]]
  BY <1>3 DEF SentOnly
<1>5. \A b \in Node, t \in Tx : Msg("Inv", t) \notin Range(Only(m, msgs)[b])
  BY <1>2
<1> QED
  BY <1>3, <1>4, <1>5, OnlyNet, OnlyNew

\* The oldest message of a peer is about a transaction.
LEMMA Oldest ==
  ASSUME RelayInv, NEW n \in Node, NEW m \in Node, net[m][n] # <<>>
  PROVE  Head(net[m][n]).tx \in Tx
<1>1. net[m][n] \in Seq(Message)
  BY DEF RelayInv, RelayTypeOK, Message
<1>2. Head(net[m][n]) \in Message
  BY <1>1, EndsProperties
<1> QED
  BY <1>2 DEF Message

\* An answer carries no announcement.
LEMMA Answer ==
  ASSUME NEW t \in Tx, NEW type \in Type, type # "Inv"
  PROVE  /\ <<Msg(type, t)>> \in Seq(Message)
         /\ \A u \in Tx : Msg("Inv", u) \notin Range(<<Msg(type, t)>>)
<1>1. Msg(type, t) \in Message
  BY DEF Msg, Message
<1>2. \A u \in Tx : Msg("Inv", u) # Msg(type, t)
  <2>1. \A u \in Tx : Msg("Inv", u).type = "Inv" /\ Msg(type, t).type = type
    BY DEF Msg
  <2> QED
    BY <2>1, SMTT(30)
<1>3. <<>> \in Seq(Message)
  BY NoMessages
<1>4. <<Msg(type, t)>> \in Seq(Message) /\ Range(<<Msg(type, t)>>) = {Msg(type, t)}
  BY <1>1, <1>3, EndsProperties
<1> QED
  BY <1>2, <1>4

\* Neighbours are two.
LEMMA Neighbours ==
  ASSUME NEW n \in Node, NEW m \in Node, {n, m} \in Link
  PROVE  n # m
<1>1. PICK d \in Dials : {n, m} = {d[1], d[2]}
  BY DEF Link
<1>2. d[1] # d[2]
  BY RelayConstants
<1> QED
  BY <1>1, <1>2

\* An announcement is answered by a request or not at all.
LEMMA InvKeeps ==
  ASSUME RelayInv, NEW n \in Node, NEW m \in Node, n # m, handle_inv_tx(n, m)
  PROVE  RelayInv' /\ AnnouncesOnlyNew
<1> DEFINE t    == Head(net[m][n]).tx
           want == t \notin pool[n] /\ ~is_known_absent(n, m, t)
           msgs == IF want THEN <<Msg("GetTxs", t)>> ELSE <<>>
<1>1. net[m][n] # <<>> /\ net' = Handled(n, m, Only(m, msgs))
  BY DEF handle_inv_tx, Receives
<1>2. t \in Tx
  BY <1>1, Oldest
<1>3. "GetTxs" \in Type /\ "GetTxs" # "Inv"
  BY DEF Type
<1> HIDE DEF t
<1>4. /\ <<Msg("GetTxs", t)>> \in Seq(Message)
      /\ \A u \in Tx : Msg("Inv", u) \notin Range(<<Msg("GetTxs", t)>>)
  BY <1>2, <1>3, Answer
<1>5. <<>> \in Seq(Message) /\ Range(<<>>) = {}
  BY NoMessages
<1> HIDE DEF want
<1>6. msgs \in Seq(Message) /\ \A u \in Tx : Msg("Inv", u) \notin Range(msgs)
  <2>1. CASE want
    BY <1>4, <2>1
  <2>2. CASE ~want
    BY <1>5, <2>2
  <2> QED
    BY <2>1, <2>2
<1> HIDE DEF msgs
<1>7. /\ UNCHANGED <<router, pool, spawned, events, conn, dropped, drops>>
      /\ absent' \in [Node -> SUBSET (Node \X Tx)]
  BY DEF handle_inv_tx, RelayInv, RelayTypeOK
<1> QED
  BY <1>1, <1>6, <1>7, AnswerKeeps

\* A request is answered with the transaction or with NotFound.
LEMMA GetTxsKeeps ==
  ASSUME RelayInv, NEW n \in Node, NEW m \in Node, n # m, handle_get_txs(n, m)
  PROVE  RelayInv' /\ AnnouncesOnlyNew
<1> DEFINE t    == Head(net[m][n]).tx
           type == IF t \in pool[n] THEN "Txs" ELSE "NotFound"
           msgs == <<Msg(type, t)>>
<1>1. net[m][n] # <<>> /\ net' = Handled(n, m, Only(m, msgs))
  BY DEF handle_get_txs, Receives
<1>2. t \in Tx
  BY <1>1, Oldest
<1>3. type \in Type /\ type # "Inv"
  BY DEF Type
<1> HIDE DEF t, type
<1>4. msgs \in Seq(Message) /\ \A u \in Tx : Msg("Inv", u) \notin Range(msgs)
  BY <1>2, <1>3, Answer
<1> HIDE DEF msgs
<1>5. /\ UNCHANGED <<router, pool, spawned, events, conn, dropped, drops>>
      /\ absent' \in [Node -> SUBSET (Node \X Tx)]
  BY DEF handle_get_txs, RelayInv, RelayTypeOK
<1> QED
  BY <1>1, <1>4, <1>5, AnswerKeeps

\* NotFound is remembered and not answered.
LEMMA NotFoundKeeps ==
  ASSUME RelayInv, NEW n \in Node, NEW m \in Node, n # m, handle_not_found(n, m)
  PROVE  RelayInv' /\ AnnouncesOnlyNew
<1> DEFINE t == Head(net[m][n]).tx
<1>1. /\ net[m][n] # <<>> /\ net' = Handled(n, m, Only(m, <<>>))
      /\ absent' = [absent EXCEPT ![n] = @ \cup {<<m, t>>}]
  BY DEF handle_not_found, Receives
<1>2. t \in Tx
  BY <1>1, Oldest
<1> HIDE DEF t
<1>3. <<>> \in Seq(Message) /\ \A u \in Tx : Msg("Inv", u) \notin Range(<<>>)
  BY NoMessages
<1>4. absent' \in [Node -> SUBSET (Node \X Tx)]
  <2>1. absent \in [Node -> SUBSET (Node \X Tx)]
    BY DEF RelayInv, RelayTypeOK
  <2>2. absent[n] \cup {<<m, t>>} \in SUBSET (Node \X Tx)
    BY <1>2, <2>1, SMTT(30)
  <2> QED
    BY <1>1, <2>1, <2>2
<1>5. UNCHANGED <<router, pool, spawned, events, conn, dropped, drops>>
  BY DEF handle_not_found
<1> QED
  BY <1>1, <1>3, <1>4, <1>5, AnswerKeeps

\* A transaction of a peer's goes onto the stem, or is announced to every peer.
LEMMA TxsKeeps ==
  ASSUME RelayInv, NEW n \in Node, NEW m \in Node, n # m, handle_txs(n, m)
  PROVE  RelayInv' /\ AnnouncesOnlyNew
<1> DEFINE t == Head(net[m][n]).tx
<1>1. net[m][n] # <<>>
  BY DEF handle_txs, Receives
<1>2. t \in Tx
  BY <1>1, Oldest
<1>3. PICK mode \in {"stem", "fluff"} :
        LET r     == add_received_tx(router[n], t, m, mode)
            fluff == r.action = "Fluff"
        IN  /\ router' = [router EXCEPT ![n] = r.router]
            /\ net' = Handled(n, m, [p \in Node |->
                         IF fluff THEN <<Msg("Inv", t)>> ELSE <<>>])
            /\ events' = IF fluff THEN [events EXCEPT ![n] = @ \cup {t}] ELSE events
  BY DEF handle_txs
<1>4. UNCHANGED <<pool, spawned, absent, conn, dropped, drops>>
  BY DEF handle_txs
<1> HIDE DEF t
<1> DEFINE r     == add_received_tx(router[n], t, m, mode)
           q     == r.router
           fluff == r.action = "Fluff"
           msgs  == IF fluff THEN <<Msg("Inv", t)>> ELSE <<>>
           out   == [p \in Node |-> msgs]
           F     == IF fluff THEN {t} ELSE {}
<1>5. /\ router' = [router EXCEPT ![n] = q]
      /\ net' = Handled(n, m, out)
      /\ events' = IF fluff THEN [events EXCEPT ![n] = @ \cup {t}] ELSE events
  BY <1>3
<1>6. /\ router \in [Node -> Router] /\ spawned \in [Node -> SUBSET Tx]
      /\ events \in [Node -> SUBSET Tx] /\ net \in [Node -> [Node -> Seq(Message)]]
      /\ router[n] \in Router /\ RouterOK(router[n])
  BY DEF RelayInv, RelayTypeOK, Message
<1>7. /\ RouterOK(q)
      /\ fluff => t \notin router[n].fluffed /\ q.fluffed = router[n].fluffed \cup {t}
      /\ ~fluff => q.fluffed = router[n].fluffed
  <2>1. AnswersFor(router[n], t, r)
    BY <1>2, <1>6, ReceivedKeeps
  <2> HIDE DEF r
  <2> QED
    BY <2>1 DEF AnswersFor
<1> HIDE DEF r, q, fluff
<1>8. F \in SUBSET Tx /\ q.fluffed = router[n].fluffed \cup F
  <2>1. CASE fluff
    BY <1>2, <1>7, <2>1
  <2>2. CASE ~fluff
    BY <1>7, <2>2
  <2> QED
    BY <2>1, <2>2
<1>9. /\ msgs \in Seq(Message)
      /\ \A u \in Tx : Msg("Inv", u) \in Range(msgs) => u \in F
  <2>1. CASE fluff
    <3>1. Msg("Inv", t) \in Message
      BY <1>2 DEF Msg, Message, Type
    <3>2. <<Msg("Inv", t)>> \in Seq(Message) /\ Range(<<Msg("Inv", t)>>) = {Msg("Inv", t)}
      BY <3>1, NoMessages, EndsProperties
    <3>3. \A u \in Tx : Msg("Inv", u).tx = u /\ Msg("Inv", t).tx = t
      BY DEF Msg
    <3> QED
      BY <2>1, <3>2, <3>3
  <2>2. CASE ~fluff
    BY <2>2, NoMessages
  <2> QED
    BY <2>1, <2>2
<1>10. out \in [Node -> Seq(Message)] /\ \A b \in Node : out[b] = msgs
  BY <1>9
<1> HIDE DEF out, msgs
<1>11. SentOnly(n, out, net')
  BY <1>1, <1>5, <1>6, <1>10, HandlerSends
<1>12. /\ events' \in [Node -> SUBSET Tx]
       /\ \A p \in Node : events'[p] \subseteq events[p] \cup (IF p = n THEN F ELSE {})
  <2>1. CASE fluff
    BY <1>2, <1>5, <1>6, <2>1
  <2>2. CASE ~fluff
    BY <1>5, <1>6, <2>2
  <2> QED
    BY <2>1, <2>2
<1> HIDE DEF F
<1>13. RelayInv'
  <2>1. net' \in [Node -> [Node -> Seq(Message)]]
    BY <1>11 DEF SentOnly
  <2>2. spawned' \in [Node -> SUBSET Tx]
    BY <1>4, <1>6
  <2> QED
    BY <1>4, <1>5, <1>7, <1>8, <1>12, <2>1, <2>2, RouterMoves
<1>14. \A b \in Node, u \in Tx :
          Msg("Inv", u) \in Range(out[b]) => u \in router'[n].fluffed \ router[n].fluffed
  <2>1. router'[n] = q
    BY <1>5, <1>6
  <2>2. \A u \in F : u \notin router[n].fluffed
    BY <1>7 DEF F
  <2> QED
    BY <1>8, <1>9, <1>10, <2>1, <2>2
<1> QED
  BY <1>11, <1>13, <1>14, OnlyNew

\* A connection that ends loses what is in flight.
LEMMA CleanupKeeps ==
  ASSUME RelayInv, NEW n \in Node, NEW m \in Node, <<n, m>> \in Dials,
         cleanup_connection(n, m)
  PROVE  RelayInv' /\ AnnouncesOnlyNew
<1> USE DEF cleanup_connection
<1>1. net \in [Node -> [Node -> Seq(Message)]]
  BY DEF RelayInv, RelayTypeOK, Message
<1>2. <<>> \in Seq(Message) /\ Range(<<>>) = {}
  BY NoMessages
<1>3. /\ net' \in [Node -> [Node -> Seq(Message)]]
      /\ \A a, b \in Node : net'[a][b] = <<>> \/ net'[a][b] = net[a][b]
  BY <1>1, <1>2
<1>4. {n, m} \in Link
  <2>1. <<n, m>>[1] = n /\ <<n, m>>[2] = m
    OBVIOUS
  <2> QED
    BY <2>1 DEF Link
<1>5. /\ conn' \subseteq Link /\ dropped' \subseteq Link
  BY <1>4 DEF RelayInv, RelayTypeOK
<1>6. drops' \in 0..MaxDrops
  BY RelayConstants, SMTT(30) DEF RelayInv, RelayTypeOK
<1>7. RelayTypeOK'
  BY <1>3, <1>5, <1>6 DEF RelayInv, RelayTypeOK, Message
<1>8. StemIsHidden'
  BY DEF RelayInv, StemIsHidden
<1>9. (\A a \in Node : RouterOK(router[a]) /\ events[a] \subseteq router[a].fluffed)'
  BY DEF RelayInv, RouterOK, Router, StemEntry, Stemmed
<1>10. AnnouncesOnlyNew
  <2>1. \A a, b \in Node : Range(net'[a][b]) \subseteq Range(net[a][b])
    BY <1>2, <1>3
  <2> QED
    BY <2>1 DEF AnnouncesOnlyNew, Announced, Msg
<1> QED
  BY <1>7, <1>8, <1>9, <1>10 DEF RelayInv

\* A peer is dialled again.
LEMMA ReconnectKeeps ==
  ASSUME RelayInv, NEW n \in Node, NEW m \in Node, <<n, m>> \in Dials, Reconnect(n, m)
  PROVE  RelayInv' /\ AnnouncesOnlyNew
<1> USE DEF Reconnect
<1>1. {n, m} \in Link
  <2>1. <<n, m>>[1] = n /\ <<n, m>>[2] = m
    OBVIOUS
  <2> QED
    BY <2>1 DEF Link
<1>2. RelayTypeOK'
  BY <1>1 DEF RelayInv, RelayTypeOK
<1>3. StemIsHidden'
  BY DEF RelayInv, StemIsHidden
<1>4. (\A a \in Node : RouterOK(router[a]) /\ events[a] \subseteq router[a].fluffed)'
  BY DEF RelayInv, RouterOK, Router, StemEntry, Stemmed
<1>5. AnnouncesOnlyNew
  BY DEF AnnouncesOnlyNew, Announced, Msg
<1> QED
  BY <1>2, <1>3, <1>4, <1>5 DEF RelayInv

---------------------------------------------------------------------------
\* The invariant holds when the nodes start.
LEMMA RelayStarts == Init => RelayInv
<1> SUFFICES ASSUME Init PROVE RelayInv
  OBVIOUS
<1> USE DEF Init
<1>1. <<>> \in Seq(StemEntry) /\ <<>> \in Seq(Message) /\ Len(<<>>) = 0 /\ DOMAIN <<>> = {}
  BY SMTT(30)
<1>2. Range(<<>>) = {}
  BY NoMessages
<1>3. NewRouter \in Router /\ NewRouter.stem = <<>> /\ NewRouter.fluffed = {}
  BY <1>1 DEF NewRouter, Router
<1>4. RouterOK(NewRouter)
  <2>1. 0 <= MaxStempool
    BY DandelionConstants, SMTT(30)
  <2> QED
    BY <1>1, <1>2, <1>3, <2>1 DEF RouterOK, Stemmed
<1>5. drops \in 0..MaxDrops
  BY RelayConstants, SMTT(30)
<1>6. RelayTypeOK
  BY <1>1, <1>3, <1>5 DEF RelayTypeOK, Message
<1>7. StemIsHidden
  BY DEF StemIsHidden
<1>8. \A n \in Node : RouterOK(router[n]) /\ events[n] \subseteq router[n].fluffed
  BY <1>4
<1> QED
  BY <1>6, <1>7, <1>8 DEF RelayInv

\* Every step keeps the invariant and announces only what is new.
LEMMA RelaySteps == RelayInv /\ [Next]_vars => RelayInv' /\ [AnnouncesOnlyNew]_vars
<1> SUFFICES ASSUME RelayInv, [Next]_vars PROVE RelayInv' /\ [AnnouncesOnlyNew]_vars
  OBVIOUS
<1>1. ASSUME NEW n \in Node, NEW t \in Tx,
             Submit(n, t) \/ queue_transaction(n, t) \/ Admit(n, t)
      PROVE  RelayInv' /\ AnnouncesOnlyNew
  BY <1>1, SubmitKeeps, QueueKeeps, AdmitKeeps
<1>2. ASSUME NEW n \in Node, NEW due \in SUBSET Stemmed(router[n]), run_dandelion_tick(n, due)
      PROVE  RelayInv' /\ AnnouncesOnlyNew
  BY <1>2, MaintenanceKeeps
<1>3. ASSUME NEW n \in Node, NEW m \in Node, {n, m} \in Link, Handle(n, m)
      PROVE  RelayInv' /\ AnnouncesOnlyNew
  <2>1. n # m
    BY <1>3, Neighbours
  <2> QED
    BY <1>3, <2>1, InvKeeps, GetTxsKeeps, NotFoundKeeps, TxsKeeps DEF Handle
<1>4. ASSUME NEW n \in Node, NEW m \in Node, <<n, m>> \in Dials,
             cleanup_connection(n, m) \/ Reconnect(n, m)
      PROVE  RelayInv' /\ AnnouncesOnlyNew
  BY <1>4, CleanupKeeps, ReconnectKeeps
<1>5. CASE UNCHANGED vars
  <2>1. UNCHANGED <<router, pool, spawned, events, absent, conn, net, dropped, drops>>
    BY <1>5 DEF vars
  <2>2. RelayTypeOK'
    BY <2>1 DEF RelayInv, RelayTypeOK
  <2>3. StemIsHidden'
    BY <2>1 DEF RelayInv, StemIsHidden
  <2>4. (\A a \in Node : RouterOK(router[a]) /\ events[a] \subseteq router[a].fluffed)'
    BY <2>1 DEF RelayInv, RouterOK, Router, StemEntry, Stemmed
  <2> QED
    BY <1>5, <2>2, <2>3, <2>4 DEF RelayInv
<1> QED
  BY <1>1, <1>2, <1>3, <1>4, <1>5 DEF Next

\* Every reachable state of the network satisfies the inductive invariant.
THEOREM RelayInvariant == Spec => []RelayInv
<1> QED
  BY RelayStarts, RelaySteps, PTL DEF Spec

\* A transaction still on the stem is in no mempool but its origin's, so that no
\* peer can ask for it (handle_txs, the StemAction::Stem arm).
THEOREM StemStaysHidden == Spec => []StemIsHidden
<1>1. RelayInv => StemIsHidden
  BY DEF RelayInv
<1> QED
  BY <1>1, RelayInvariant, PTL

\* A node never announces a transaction a second time, in whatever order ticks,
\* loops of the stem, late submissions and embargoes come (tick, add_received_tx).
THEOREM NeverAnnouncedTwice == Spec => AnnouncedOnce
<1> QED
  BY RelayStarts, RelaySteps, PTL DEF Spec, AnnouncedOnce
=============================================================================
