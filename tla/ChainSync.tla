----------------------------- MODULE ChainSync -----------------------------
(***************************************************************************)
(* The block-download bookkeeping of network/sync.rs: struct ChainSync as  *)
(* a record and each of its methods as an operator from record to record.  *)
(* The methods run under one RwLock, so each is one atomic step wherever    *)
(* SyncNode uses it.                                                        *)
(*                                                                          *)
(* Blocks form one chain and are named by their heights: 0 is genesis and   *)
(* the parent of h is h-1.  Kept of the struct:                             *)
(*   local     local_height (and local_tip)                                 *)
(*   heights   peer_heights, 0 for a peer without an entry                  *)
(*   best      best_known_height                                            *)
(*   queue     pending_headers, and owned, the keys of pending_header_peer  *)
(*   down      downloading (download_timestamps has the same keys)          *)
(*   order     the hashes with a `seq`, oldest first: those in flight and   *)
(*             those of requeued_seq                                        *)
(*   reqs      pending_requests: the peer asked, None without an entry      *)
(*   pool      orphan_blocks (orphan_by_parent indexes the same blocks)     *)
(*   asked     headers_request_time is set; answered: headers_response_at   *)
(*   nonces    pending_header_nonces: the peer a nonce was issued to        *)
(* Left out: the work (difficulty) claims, which on one chain rank peers as *)
(* their heights do; sync bans and failure counts, which no code outside    *)
(* the tests sets; the caps of 5,000 headers a peer and of 10,000 requests; *)
(* and the RandomX key-epoch pause of the window.                           *)
(***************************************************************************)
EXTENDS Subsequences

CONSTANTS
    Peer,             \* the peers this node talks to
    None,             \* no peer
    LastBlock,        \* height of the last block anybody mines
    MaxConcurrent,    \* max_concurrent: blocks downloaded at a time
    MaxQueue,         \* MAX_PH: headers queued at a time
    MaxOrphanBlocks,  \* MAX_ORPHAN_BLOCKS
    StuckLimit,       \* the stuck downloads that make the node start over (5)
    MaxNonce          \* bound: GetHeaders exchanges in flight at a time

ASSUME ChainSyncConstants ==
    /\ IsFiniteSet(Peer) /\ None \notin Peer
    /\ {LastBlock, MaxConcurrent, MaxQueue, MaxOrphanBlocks, StuckLimit,
        MaxNonce} \subseteq Nat \ {0}

Hash == 1..LastBlock
Nonce == 1..MaxNonce

New(height) ==
    [state |-> "Idle", local |-> height, heights |-> [p \in Peer |-> 0],
     best |-> height, queue |-> <<>>, owned |-> {}, down |-> {},
     order |-> <<>>, reqs |-> [h \in Hash |-> None], pool |-> {},
     asked |-> FALSE, answered |-> FALSE, nonces |-> [n \in Nonce |-> None]]

Without(seq, gone) == Pick(seq, {i \in DOMAIN seq : seq[i] \notin gone})

Requested(s) == {h \in Hash : s.reqs[h] # None}

---------------------------------------------------------------------------
\* Heights

PeerMax(s) == Max(Range(s.heights) \cup {0})

refresh_best_known(s) == [s EXCEPT !.best = Max({s.local, PeerMax(s)})]

true_best_height(s) == Max({s.best, PeerMax(s)})

is_synced(s) == s.local >= true_best_height(s)

ToHeaders(s) ==
    [s EXCEPT !.state = "Headers", !.asked = FALSE, !.answered = FALSE]

update_peer_height_for(s, p, height) ==
    LET claimed == refresh_best_known(
                      [s EXCEPT !.heights[p] = IF height <= s.local THEN 0 ELSE height])
    IN  IF height > s.local /\ s.state \in {"Synced", "Idle", "ConfirmingSynced"}
        THEN ToHeaders(claimed)
        ELSE claimed

update_peer_height(s, height) == [s EXCEPT !.best = Max({@, height, s.local})]

set_local_tip(s, height) ==
    LET t == refresh_best_known(
                [s EXCEPT !.local = height,
                          !.heights = [p \in Peer |-> IF @[p] > height THEN @[p] ELSE 0]])
    IN  IF t.local >= t.best /\ t.queue = <<>> /\ t.down = {}
        THEN [t EXCEPT !.state = "Synced"]
        ELSE t

on_block_processed(s, height) ==
    LET t == refresh_best_known([s EXCEPT !.local = height])
    IN  IF t.queue # <<>> \/ t.down # {}
        THEN t
        ELSE [t EXCEPT !.state = IF height < true_best_height(t) - 1
                                 THEN "Headers"
                                 ELSE "ConfirmingSynced"]

---------------------------------------------------------------------------
\* The single GetHeaders exchange

begin_headers_request(s, p, n) ==
    [s EXCEPT !.nonces[n] = p, !.asked = TRUE, !.answered = FALSE]

is_header_nonce_outstanding(s, n, p) == s.nonces[n] = p

mark_headers_received(s) == [s EXCEPT !.answered = TRUE]

validate_header_nonce(s, n) ==
    [s EXCEPT !.nonces[n] = None, !.asked = FALSE, !.answered = FALSE]

reset_headers_timeout(s) ==
    [s EXCEPT !.asked = FALSE, !.answered = FALSE, !.nonces = [n \in Nonce |-> None]]

\* queue_headers_inner: an empty answer confirms the tip or asks again, any
\* other answer queues what is not queued, in flight or pooled already.
queue_headers(s, hashes) ==
    LET want == Without(hashes, s.down \cup s.pool \cup s.owned)
        new  == SubSeq(want, 1, Min({Len(want), Max({0, MaxQueue - Len(s.queue)})}))
        full == [s EXCEPT !.queue = @ \o new, !.owned = @ \cup Range(new)]
        seen == IF s.state = "ConfirmingSynced" /\ s.local > 0
                THEN [s EXCEPT !.state = "Synced"]
                ELSE s
    IN  IF hashes # <<>>
        THEN IF full.queue = <<>> THEN full ELSE [full EXCEPT !.state = "Blocks"]
        ELSE IF /\ seen.state \in {"Headers", "ConfirmingSynced"}
                /\ true_best_height(seen) > seen.local + 2
             THEN ToHeaders(seen)
             ELSE seen

\* trigger_resync, and arm_near_tip_catchup for a node that is mid-cycle.
trigger_resync(s) ==
    IF s.state \in {"Synced", "Idle"} THEN ToHeaders(s) ELSE s

arm_near_tip_catchup(s) ==
    IF /\ s.queue = <<>> /\ s.down = {} /\ Requested(s) = {} /\ ~s.answered
       /\ ~is_synced(s)
    THEN ToHeaders(s)
    ELSE s

---------------------------------------------------------------------------
\* The download window

\* get_blocks_to_request pops hashes until the free slots are filled, and drops
\* a queued copy of a block that is in flight.  Window is what it requests.
Slots(s) == Max({0, MaxConcurrent - Cardinality(s.down)})

Popped(s) ==
    Min({Len(s.queue)} \cup
        {k \in 0..Len(s.queue) :
            Cardinality(Range(SubSeq(s.queue, 1, k)) \ s.down) = Slots(s)})

Distinct(seq) ==
    Pick(seq, {i \in DOMAIN seq : \A j \in 1..(i - 1) : seq[j] # seq[i]})

Window(s) == Distinct(Without(SubSeq(s.queue, 1, Popped(s)), s.down))

\* next_seq: a hash that has no place in the download order gets the last one.
InOrder(s, hashes) == [s EXCEPT !.order = @ \o Without(hashes, Range(@))]

\* Broken: the popped headers stay counted against their peers.
get_blocks_to_request_counted(s) ==
    [InOrder(s, Window(s)) EXCEPT
        !.queue = SubSeq(@, Popped(s) + 1, Len(@)),
        !.down  = @ \cup Range(Window(s))]

get_blocks_to_request(s) ==
    [InOrder(s, Window(s)) EXCEPT
        !.queue = SubSeq(@, Popped(s) + 1, Len(@)),
        !.owned = @ \ Range(SubSeq(s.queue, 1, Popped(s))),
        !.down  = @ \cup Range(Window(s))]

record_request(s, hashes, p) ==
    [InOrder(s, hashes) EXCEPT
        !.down = @ \cup Range(hashes),
        !.reqs = [h \in Hash |-> IF h \in Range(hashes) THEN p ELSE @[h]]]

\* Takes hashes out of flight; Requeue also puts them back at the front of the
\* queue, in download order.
Forget(s, hashes) ==
    [s EXCEPT !.down = @ \ hashes,
              !.order = Without(@, hashes \cap s.down),
              !.reqs = [h \in Hash |-> IF h \in hashes THEN None ELSE @[h]]]

push_front_ordered(s, hashes) ==
    [Forget(s, hashes) EXCEPT
        !.queue = Pick(s.order, {i \in DOMAIN s.order : s.order[i] \in hashes}) \o @,
        !.order = s.order,
        !.state = IF hashes # {} /\ @ = "Synced" THEN "Blocks" ELSE @]

requeue_failed(s, hashes) ==
    [Forget(s, Range(hashes)) EXCEPT
        !.queue = hashes \o @,
        !.order = s.order,
        !.state = IF hashes # <<>> /\ @ = "Synced" THEN "Blocks" ELSE @]

\* get_blocks_to_retry, for the requests in late, whose timeout has passed, and
\* the downloads in stuck, which were never recorded as requested.
Stuck(s) == s.down \ Requested(s)

get_blocks_to_retry(s, late, stuck) ==
    LET t == push_front_ordered(push_front_ordered(s, late), stuck)
    IN  IF Cardinality(stuck) >= StuckLimit /\ t.state = "Blocks"
        THEN [ToHeaders(t) EXCEPT !.queue = <<>>, !.order = Without(@, Range(@) \ t.down),
                                  !.owned = {}]
        ELSE t

\* Broken: downloads that were never sent are left alone.
recover_nothing(s) == s

recover_stuck_downloads(s) == push_front_ordered(s, Stuck(s))

\* Broken: what the peer was asked for is taken out of flight and not requeued.
on_peer_disconnected_drops(s, p) ==
    Forget(refresh_best_known([s EXCEPT !.heights[p] = 0]), {h \in Hash : s.reqs[h] = p})

on_peer_disconnected(s, p) ==
    push_front_ordered(refresh_best_known([s EXCEPT !.heights[p] = 0]),
                       {h \in Hash : s.reqs[h] = p})

---------------------------------------------------------------------------
\* What the event loop reports of a received block

\* Broken: the request outlives the download.
mark_block_received_slot(s, h) == [s EXCEPT !.down = @ \ {h}, !.order = Without(@, {h})]

mark_block_received(s, h) == Forget(s, {h})

mark_block_failed(s, h) ==
    [Forget(s, {h}) EXCEPT !.queue = <<h>> \o @, !.order = s.order]

\* make_room_for_orphan: a full pool gives up its farthest block, or refuses
\* the newcomer when that is farther still.
Pooled(pool, h) ==
    IF Cardinality(pool) < MaxOrphanBlocks THEN pool \cup {h}
    ELSE IF h >= Max(pool) THEN pool
    ELSE (pool \ {Max(pool)}) \cup {h}

\* mark_block_orphan keeps the body and fetches the parent first, unless the
\* parent is our tip or is being fetched or is pooled itself.
mark_block_orphan(s, h) ==
    LET t == [Forget(s, {h}) EXCEPT !.pool = IF h \in @ THEN @ ELSE Pooled(@, h)]
    IN  IF \/ h - 1 = t.local
           \/ h - 1 \in t.down \cup Range(t.queue) \cup t.pool
           \/ Len(t.queue) >= MaxQueue
        THEN t
        ELSE [t EXCEPT !.queue = <<h - 1>> \o @,
                       !.state = IF @ \in {"Synced", "ConfirmingSynced", "Idle"}
                                 THEN "Blocks" ELSE @]

\* take_orphans_of drains the pooled children of a block that connected.
take_orphans_of(s, h) == [s EXCEPT !.pool = @ \ {h + 1}]

cleanup_expired_orphans(s, old) == [s EXCEPT !.pool = @ \ old]
=============================================================================
