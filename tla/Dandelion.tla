----------------------------- MODULE Dandelion -----------------------------
(***************************************************************************)
(* The Dandelion++ router of network/dandelion.rs: struct DandelionRouter  *)
(* as a record and its methods as operators from record to record.  Every  *)
(* method runs under one RwLock.                                           *)
(*   stem      stempool, oldest entry first (added_at); src None is local  *)
(*   fluffed   what this node announced                                    *)
(*                                                                         *)
(* What the code draws at random is a parameter here.  A tick is told which *)
(* entries are due: past forward_after when they wait to be forwarded, past *)
(* embargo_deadline when they were.  An epoch (fluff or stem, two relays,   *)
(* a relay index for each source) may end at any tick, so it is drawn anew  *)
(* at each use: mode when a transaction arrives, target when one is to be   *)
(* forwarded.  Any peer this node dialled may be the target, also one that  *)
(* was lost since (cleanup_connection leaves it in its relay slot), or none *)
(* (an empty slot, or one cleared by remove_outbound_peer).                 *)
(*                                                                         *)
(* An entry of fluffed is kept for 600 s, longer than any entry can stay in *)
(* a stempool (30 s to forward and 180 s of embargo), and is never dropped  *)
(* here.  tx_confirmed_via_diffusion is left out: only tests call it.       *)
(***************************************************************************)
EXTENDS Subsequences

CONSTANTS
    Node,          \* peers are named by their node
    Tx,
    None,          \* no peer; the source of a local transaction
    MaxStempool    \* MAX_STEMPOOL

ASSUME DandelionConstants == None \notin Node /\ MaxStempool \in Nat \ {0}

NewRouter == [stem |-> <<>>, fluffed |-> {}]

Stemmed(r) == {e.tx : e \in Range(r.stem)}

Entry(r, t) == CHOOSE e \in Range(r.stem) : e.tx = t

StemWithout(r, t) == [r EXCEPT !.stem = Pick(@, {i \in DOMAIN @ : @[i].tx # t})]

Fluffed(r, t) == [StemWithout(r, t) EXCEPT !.fluffed = @ \cup {t}]

---------------------------------------------------------------------------
\* The oldest entry of a peer goes, a local one only when all are local.  One is
\* enough: the stempool is never over its limit.
enforce_stempool_limit(r) ==
    LET relayed == {i \in DOMAIN r.stem : r.stem[i].src # None}
    IN  IF Len(r.stem) < MaxStempool THEN r
        ELSE StemWithout(r, r.stem[IF relayed # {} THEN Min(relayed) ELSE 1].tx)

Stem(r, t, src) ==
    [enforce_stempool_limit(r) EXCEPT
        !.stem = Append(@, [tx |-> t, src |-> src, forwarded |-> FALSE])]

add_local_tx(r, t) ==
    IF t \in Stemmed(r) \cup r.fluffed THEN r ELSE Stem(r, t, None)

\* Broken: what was announced is not remembered.
add_received_tx_forgets(r, t, src, mode) ==
    IF t \in Stemmed(r) \/ mode = "fluff"
    THEN [router |-> Fluffed(r, t), action |-> "Fluff"]
    ELSE [router |-> Stem(r, t, src), action |-> "Stem"]

\* Broken: a loop is not noticed.
add_received_tx_loops(r, t, src, mode) ==
    IF t \in r.fluffed THEN [router |-> r, action |-> "Ignore"]
    ELSE IF mode = "fluff" THEN [router |-> Fluffed(r, t), action |-> "Fluff"]
    ELSE [router |-> Stem(r, t, src), action |-> "Stem"]

\* The router and what the caller is to do.  Room is made in the stempool even when
\* the transaction is fluffed at once.
add_received_tx(r, t, src, mode) ==
    IF t \in r.fluffed THEN [router |-> r, action |-> "Ignore"]
    ELSE IF t \in Stemmed(r) THEN [router |-> Fluffed(r, t), action |-> "Fluff"]
    ELSE IF mode = "fluff"
    THEN [router |-> Fluffed(enforce_stempool_limit(r), t), action |-> "Fluff"]
    ELSE [router |-> Stem(r, t, src), action |-> "Stem"]

---------------------------------------------------------------------------
\* The tick

\* A forwarded entry waits for its embargo; another one for its relay, if any.
Fluffs(e, due, target) ==
    IF e.forwarded THEN e.tx \in due ELSE target = None

Forwards(e, due, target) == ~e.forwarded /\ target # None /\ e.tx \in due

\* Broken: an entry whose embargo has passed is only cleared away.
tick_expires(r, due, target) ==
    LET es     == Range(r.stem)
        gone   == {e.tx : e \in {x \in es : Fluffs(x, due, target[x.tx])}}
        fluff  == gone \ {e.tx : e \in {x \in es : x.forwarded}}
        relay  == {e.tx : e \in {x \in es : Forwards(x, due, target[x.tx])}}
        marked == [i \in DOMAIN r.stem |->
                      [r.stem[i] EXCEPT !.forwarded = @ \/ r.stem[i].tx \in relay]]
    IN  [router  |-> [stem |-> Pick(marked, {i \in DOMAIN marked : marked[i].tx \notin gone}),
                      fluffed |-> r.fluffed \cup fluff],
         relayed |-> {<<t, target[t]>> : t \in relay},
         fluffed |-> fluff]

\* The router after a tick, what it sends as <<tx, peer>> and what it announces.
tick(r, due, target) ==
    LET es     == Range(r.stem)
        fluff  == {e.tx : e \in {x \in es : Fluffs(x, due, target[x.tx])}}
        relay  == {e.tx : e \in {x \in es : Forwards(x, due, target[x.tx])}}
        marked == [i \in DOMAIN r.stem |->
                      [r.stem[i] EXCEPT !.forwarded = @ \/ r.stem[i].tx \in relay]]
    IN  [router  |-> [stem |-> Pick(marked, {i \in DOMAIN marked : marked[i].tx \notin fluff}),
                      fluffed |-> r.fluffed \cup fluff],
         relayed |-> {<<t, target[t]>> : t \in relay},
         fluffed |-> fluff]
=============================================================================
