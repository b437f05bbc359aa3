-------------------------- MODULE RelayProperties --------------------------
(***************************************************************************)
(* What transaction relay promises the wallet that submits a transaction   *)
(* and the privacy of its origin.                                          *)
(***************************************************************************)
EXTENDS TxRelay

StemEntry == [tx : Tx, src : Node \cup {None}, forwarded : BOOLEAN]

Router == [stem : Seq(StemEntry), fluffed : SUBSET Tx]

\* Routers, mempools, tasks, caches and connections hold transactions and nodes.
RelayTypeOK ==
    /\ router \in [Node -> Router]
    /\ {pool, spawned, events} \subseteq [Node -> SUBSET Tx]
    /\ absent \in [Node -> SUBSET (Node \X Tx)]
    /\ net \in [Node -> [Node -> Seq([type : Type, tx : Tx])]]
    /\ conn \subseteq Link /\ dropped \subseteq Link /\ drops \in 0..MaxDrops

\* Stem privacy: a transaction is in a mempool, from which anybody who asks is
\* served, only at a node it was submitted to or at one that has announced it
\* (handle_txs, the StemAction::Stem arm).
StemIsHidden ==
    \A n \in Node : \A t \in pool[n] : <<n, t>> \in Wallets \/ t \in router[n].fluffed

\* A stempool is within its limit, holds a transaction once and holds none that
\* this node has announced (dandelion.rs).
RouterOK(r) ==
    /\ r \in Router
    /\ Len(r.stem) <= MaxStempool
    /\ \A i, j \in DOMAIN r.stem : r.stem[i].tx = r.stem[j].tx => i = j
    /\ Stemmed(r) \cap r.fluffed = {}

\* The inductive invariant of transaction relay: what waits to be admitted has
\* been announced, and no announced transaction is still on the stem, from where
\* it would be announced again.
RelayInv ==
    /\ RelayTypeOK
    /\ StemIsHidden
    /\ \A n \in Node : RouterOK(router[n]) /\ events[n] \subseteq router[n].fluffed

Announced(n, t) == \E m \in Node : Msg("Inv", t) \in Range(net[n][m])

AnnouncesOnlyNew ==
    \A n \in Node, t \in Tx :
        ~Announced(n, t) /\ Announced(n, t)' => t \in router'[n].fluffed \ router[n].fluffed

\* A node announces a transaction at most once, through loops, late submissions
\* and expired embargoes: an announcement goes out only in the step that first
\* records it in fluffed.
AnnouncedOnce == [][AnnouncesOnlyNew]_vars

\* A submitted transaction is announced by its own node, whatever happens to the
\* relays it was handed to: a lost relay, a lost stem message and a relay slot
\* that names a peer long gone only delay it to the end of the embargo (tick).
OriginAnnounces ==
    \A w \in Wallets : w[2] \in pool[w[1]] ~> w[2] \in router[w[1]].fluffed

\* Every peer that stays connected to the origin ends up with the transaction in
\* its mempool, although relays announce it before they can serve it.
OriginPeersLearn ==
    \A w \in Wallets : \A m \in Node :
        {w[1], m} \in Link =>
            (w[2] \in spawned[w[1]] ~> w[2] \in pool[m] \/ {w[1], m} \in dropped)
=============================================================================
