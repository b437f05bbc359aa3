------------------------------ MODULE SyncNode ------------------------------
(***************************************************************************)
(* A node catching up with its peers: the sync driver's tick               *)
(* (network/node/sync_driver.rs), the handlers of peer messages            *)
(* (network/node/dispatch), the block event loop with the detached tasks    *)
(* it spawns (bin/node.rs), and the peers, each of which may be behind, may *)
(* disconnect and may leave a request unanswered.  All of them share the    *)
(* ChainSync record `sync`; its lock is released between any two of the     *)
(* steps below.                                                             *)
(*                                                                          *)
(* Variables:                                                               *)
(*   sync      the ChainSync                                                *)
(*   height    the tip of this node's chain (the Blockchain is the module   *)
(*             Chain's subject; here a block is accepted when it extends    *)
(*             the tip)                                                     *)
(*   has       the tip of each peer's chain                                 *)
(*   info      PeerInfo.height of a connected peer, None otherwise          *)
(*   news      the peers whose latest tip was not announced by an InvBlock   *)
(*   gets      GetBlocks on their way to a peer, or its answer on its way   *)
(*             back: [peer, hashes]                                         *)
(*   asks      GetHeaders likewise: [peer, nonce, from]                     *)
(*   verify    the Headers answer being verified, or Nothing                *)
(*   events    the BlockReceived events the event loop has not taken        *)
(*   tasks     the detached notification tasks: [kind, hash, step]          *)
(*   driver    the spans of the current tick still to be sent (todo), the   *)
(*             one sent and not recorded (sent), and the ones that failed   *)
(*   published the sequence number of the last publish_chain_state          *)
(*   faults    how often the environment misbehaved                         *)
(***************************************************************************)
EXTENDS ChainSync

CONSTANTS
    MaxHeaders,   \* headers a peer puts into one answer
    SliceSize,    \* headers verified and queued at a time
    Faults,       \* the faults the environment may commit, of FaultKind
    MaxFaults     \* bound: how many it commits

VARIABLES sync, height, has, info, news, gets, asks, verify, events, tasks, driver,
          published, faults

FaultKind == {"fast", "early", "slow", "disconnect", "error", "loss", "restart"}

ASSUME SyncNodeConstants ==
    /\ Faults \subseteq FaultKind
    /\ MaxFaults \in Nat /\ {MaxHeaders, SliceSize} \subseteq Nat \ {0}

peerVars == <<has, info, news>>
wireVars == <<gets, asks, verify>>
loopVars == <<events, tasks, published>>
vars == <<sync, height, peerVars, wireVars, loopVars, driver, faults>>

Nothing == [nonce |-> 0]
DriverIdle == [todo |-> <<>>, sent |-> <<>>, failed |-> <<>>]

Connected == {p \in Peer : info[p] # None}

\* The node is about to catch up with its connected peers, or is level with
\* peers that mine on.
Init ==
    /\ \/ height = 0 /\ has = [p \in Peer |-> LastBlock]
       \/ height = LastBlock - 1 /\ has = [p \in Peer |-> LastBlock - 1]
    /\ sync = IF height = 0
              THEN [New(0) EXCEPT !.state = "Headers", !.heights = has, !.best = LastBlock]
              ELSE [New(height) EXCEPT !.state = "Synced"]
    /\ info = has /\ news = {}
    /\ gets = {} /\ asks = {} /\ verify = Nothing
    /\ events = <<>> /\ tasks = {} /\ published = 0
    /\ driver = DriverIdle
    /\ faults = 0

Fault(kind) ==
    /\ kind \in Faults /\ faults < MaxFaults
    /\ faults' = faults + 1

\* Nothing is under way between this node and its peers or inside the node.
Quiet ==
    /\ gets = {} /\ asks = {} /\ verify = Nothing
    /\ events = <<>> /\ tasks = {} /\ driver = DriverIdle

---------------------------------------------------------------------------
\* Asking for headers

FreeNonces == {n \in Nonce : n # verify.nonce /\ \A m \in asks : m.nonce # n}

\* begin_headers_request on s and the message it sends.  The code counts nonces
\* up; a number whose message is gone stands for a new one here.
SendGetHeaders(s, p) ==
    LET n == Min(FreeNonces)
    IN  /\ FreeNonces # {}
        /\ sync' = begin_headers_request(s, p, n)
        /\ asks' = asks \cup {[peer |-> p, nonce |-> n, from |-> height]}

\* The answer to the request in flight will never come.
HeadersLost ==
    /\ \A m \in asks : ~is_header_nonce_outstanding(sync, m.nonce, m.peer)
    /\ verify = Nothing \/ ~is_header_nonce_outstanding(sync, verify.nonce, verify.peer)

\* Requests whose blocks are on their way neither to the node nor through it.
Overdue ==
    {h \in Requested(sync) :
        /\ \A m \in gets : h \notin Range(m.hashes)
        /\ h \notin Range(events)
        /\ \A t \in tasks : t.hash # h}

---------------------------------------------------------------------------
\* The sync driver: one tick of spawn_sync_driver, by the state it finds

\* run_headers_tick, after the stall check (Tier 1) has requeued the requests
\* in late and the downloads in stuck; expired: the headers request timed out.
HeadersTicked(late, stuck, expired) ==
    LET s == get_blocks_to_retry(sync, late, stuck)
    IN  IF expired THEN reset_headers_timeout(s) ELSE s

\* is_stalled holds only in the state Headers, and once every request is late.
MayRetry(late, stuck) ==
    late \cup stuck # {} =>
        sync.state = "Headers" /\ (stuck # {} \/ late = Requested(sync))

TickHeaders(late, stuck, expired) ==
    LET s == HeadersTicked(late, stuck, expired)
    IN  /\ sync.state \in {"Idle", "Headers", "ConfirmingSynced"}
        /\ driver = DriverIdle
        /\ MayRetry(late, stuck)
        /\ expired => sync.asked
        /\ \/ /\ s.asked \/ Connected = {}
              /\ sync' = s
              /\ UNCHANGED asks
           \/ /\ ~s.asked
              /\ \E p \in Connected : SendGetHeaders(s, p)
        /\ UNCHANGED <<height, peerVars, gets, verify, loopVars, driver>>

\* The spans of send_block_spans: the window cut into equal parts, one for each
\* peer that is ahead of us, the tallest first.
Ahead == {p \in Connected : info[p] > height}

Spans(window, peers) ==
    LET size == (Len(window) + Len(peers) - 1) \div Len(peers)
        part(i) == SubSeq(window, (i - 1) * size + 1, Min({i * size, Len(window)}))
        all == [i \in 1..Len(peers) |-> [peer |-> peers[i], hashes |-> part(i)]]
    IN  Pick(all, {i \in DOMAIN all : all[i].hashes # <<>>})

TallestFirst == {peers \in Orders(Ahead) :
                    \A i, j \in DOMAIN peers : i < j => info[peers[i]] >= info[peers[j]]}

StartOver(s) == [reset_headers_timeout(s) EXCEPT !.state = "Headers"]

\* The Blocks arm: recover_block_requests, then a new window.  stuck is what
\* get_blocks_to_retry finds stuck; stalled: 60 ticks went by without progress.
BlocksTicked(late, stuck, stalled) ==
    LET s == recover_stuck_downloads(get_blocks_to_retry(sync, late, stuck))
        window == Window(s)
        t == get_blocks_to_request(s)
        u == CASE window = <<>> ->
                    IF t.queue = <<>> /\ t.down = {} /\ true_best_height(t) > height
                    THEN StartOver(t) ELSE t
               [] window # <<>> /\ Connected = {} -> StartOver(requeue_failed(t, window))
               [] OTHER -> t
    IN  [sync |-> IF stalled /\ true_best_height(u) > height + 2 THEN StartOver(u) ELSE u,
         window |-> window]

TickBlocks(late, stuck, stalled) ==
    LET ticked == BlocksTicked(late, stuck, stalled)
    IN  /\ sync.state = "Blocks"
        /\ driver = DriverIdle
        /\ sync' = ticked.sync
        /\ IF ticked.window = <<>> \/ Ahead = {}
           THEN UNCHANGED driver
           ELSE \E peers \in TallestFirst :
                    driver' = [DriverIdle EXCEPT !.todo = Spans(ticked.window, peers)]
        /\ UNCHANGED <<height, peerVars, wireVars, loopVars>>

\* A tick in which only what will never be answered has timed out, and one in
\* which a slow peer's answer is still to come.
Tick ==
    /\ \/ \E late \in {{}, Overdue}, stuck \in {{}, Stuck(sync)},
             expired \in {FALSE, sync.asked /\ HeadersLost} :
            TickHeaders(late, stuck, expired)
       \/ \E late \in {{}, Overdue}, stuck \in {{}, Stuck(sync)}, stalled \in {FALSE, Quiet} :
            TickBlocks(late, stuck, stalled)
    /\ UNCHANGED faults

TickEarly ==
    /\ \/ sync.asked /\ ~HeadersLost /\ TickHeaders({}, {}, TRUE)
       \/ \E late \in SUBSET Requested(sync) :
            late \ Overdue # {} /\ TickBlocks(late, {}, FALSE)
    /\ Fault("early")

\* send_block_spans sends a span and then records it, under a lock it takes
\* anew; a span whose peer has gone is requeued at the end.
EndSend(s, d) ==
    IF d.todo = <<>> /\ d.sent = <<>>
    THEN sync' = requeue_failed(s, d.failed) /\ driver' = DriverIdle
    ELSE sync' = s /\ driver' = d

SendSpan ==
    LET span == Head(driver.todo)
    IN  /\ driver.todo # <<>> /\ driver.sent = <<>>
        /\ \/ /\ span.peer \in Connected
              /\ gets' = gets \cup {span}
              /\ driver' = [driver EXCEPT !.todo = Tail(@), !.sent = <<span>>]
              /\ UNCHANGED sync
           \/ /\ span.peer \notin Connected
              /\ EndSend(sync, [driver EXCEPT !.todo = Tail(@), !.failed = @ \o span.hashes])
              /\ UNCHANGED gets
        /\ UNCHANGED <<height, peerVars, asks, verify, loopVars, faults>>

RecordSpan ==
    LET span == driver.sent[1]
    IN  /\ driver.sent # <<>>
        /\ EndSend(record_request(sync, span.hashes, span.peer),
                   [driver EXCEPT !.sent = <<>>])
        /\ UNCHANGED <<height, peerVars, wireVars, loopVars, faults>>

\* EMERGENCY-TIER-3: behind and without progress for 300 s, either because no
\* tick has anything left to do or because everybody is that slow (a fault);
\* once the pool's blocks are 30 minutes old they are dropped on the way.
Behind == ~is_synced(sync) \/ \E p \in Connected : info[p] > height

Exhausted == Quiet /\ sync.queue = <<>> /\ sync.down = {}

Stalemate == Quiet /\ CASE sync.state = "Synced" -> TRUE
                        [] sync.state = "Blocks" -> Exhausted
                        [] OTHER -> Connected = {}

Emergency ==
    /\ Behind
    /\ driver = DriverIdle
    /\ IF Stalemate THEN UNCHANGED faults ELSE Fault("slow")
    /\ sync' = StartOver(sync)
    /\ UNCHANGED <<height, peerVars, wireVars, loopVars, driver>>

EmergencyExpiry ==
    /\ Behind
    /\ Exhausted
    /\ sync.pool # {}
    /\ sync' = StartOver(cleanup_expired_orphans(sync, sync.pool))
    /\ UNCHANGED <<height, peerVars, wireVars, loopVars, driver, faults>>

---------------------------------------------------------------------------
\* Messages of peers

\* handle_version and handle_verack: a peer ahead of us is asked for headers
\* unless a request is under way.
Connect(p) ==
    LET s == update_peer_height_for(sync, p, has[p])
    IN  /\ p \notin Connected
        /\ info' = [info EXCEPT ![p] = has[p]]
        /\ IF has[p] > height /\ ~s.asked
           THEN SendGetHeaders(s, p)
           ELSE sync' = s /\ UNCHANGED asks
        /\ UNCHANGED <<height, has, news, gets, verify, loopVars, driver, faults>>

\* disconnect_peer: what the peer was asked and has not answered is gone.
Disconnect(p) ==
    /\ p \in Connected
    /\ Fault("disconnect")
    /\ info' = [info EXCEPT ![p] = None]
    /\ sync' = on_peer_disconnected(sync, p)
    /\ gets' = {m \in gets : m.peer # p}
    /\ asks' = {m \in asks : m.peer # p}
    /\ UNCHANGED <<height, has, news, verify, loopVars, driver>>

\* A peer's chain grows; handle_chain_work hears of it.
PeerAdvances(p) ==
    /\ has[p] < LastBlock
    /\ has' = [has EXCEPT ![p] = @ + 1]
    /\ news' = news \cup {p}
    /\ UNCHANGED <<sync, height, info, wireVars, loopVars, driver, faults>>

ChainWork(p) ==
    /\ p \in Connected
    /\ info[p] # has[p]
    /\ info' = [info EXCEPT ![p] = has[p]]
    /\ sync' = update_peer_height_for(sync, p, has[p])
    /\ UNCHANGED <<height, has, news, wireVars, loopVars, driver, faults>>

\* handle_inv_block for the tip a peer announces every minute.  A node that is
\* behind refreshes its headers when it has nothing to do, and re-arms the
\* cycle; a node that takes itself for synced asks for the block.
InvBlock(p) ==
    LET busy == sync.queue # <<>> \/ sync.down # {} \/ sync.pool # {}
        rearm(s) == IF s.state \in {"Synced", "Idle"}
                    THEN trigger_resync(s) ELSE arm_near_tip_catchup(s)
        n == Min(FreeNonces)
    IN  /\ p \in Connected
        /\ has[p] > height
        /\ p \in news \/ Quiet
        /\ news' = news \ {p}
        /\ \/ /\ ~is_synced(sync)
              /\ IF busy \/ sync.asked
                 THEN sync' = rearm(sync) /\ UNCHANGED asks
                 ELSE /\ FreeNonces # {}
                      /\ sync' = rearm(begin_headers_request(sync, p, n))
                      /\ asks' = asks \cup {[peer |-> p, nonce |-> n, from |-> height]}
              /\ UNCHANGED gets
           \/ /\ is_synced(sync)
              /\ gets' = gets \cup {[peer |-> p, hashes |-> <<has[p]>>]}
              /\ sync' = record_request(sync, <<has[p]>>, p)
              /\ UNCHANGED asks
        /\ UNCHANGED <<height, has, info, verify, loopVars, driver, faults>>

\* handle_get_blocks at the peer and handle_blocks here: an event for every
\* block the peer has.
Blocks(m) ==
    /\ m \in gets
    /\ IF driver = DriverIdle THEN UNCHANGED faults ELSE Fault("fast")
    /\ gets' = gets \ {m}
    /\ events' = events \o Pick(m.hashes, {i \in DOMAIN m.hashes : m.hashes[i] <= has[m.peer]})
    /\ UNCHANGED <<sync, height, peerVars, asks, verify, tasks, published, driver>>

\* Broken: the answer starts with the block the node already has.
HeadersFromTip(m) ==
    LET upto == Min({has[m.peer], m.from + MaxHeaders})
        batch == [i \in 1..Max({0, upto - m.from}) |-> m.from + i - 1]
    IN  /\ m \in asks
        /\ verify = Nothing
        /\ asks' = asks \ {m}
        /\ sync' = mark_headers_received(sync)
        /\ verify' = [nonce |-> m.nonce, peer |-> m.peer, rest |-> batch,
                      max |-> IF batch = <<>> THEN 0 ELSE batch[Len(batch)]]
        /\ UNCHANGED <<height, peerVars, gets, loopVars, driver, faults>>

\* handle_headers takes an answer whose nonce is outstanding, one at a time: one
\* that arrives while another is being verified waits, and so does what it marks;
Headers(m) ==
    LET upto == Min({has[m.peer], m.from + MaxHeaders})
        batch == [i \in 1..Max({0, upto - m.from}) |-> m.from + i]
    IN  /\ m \in asks
        /\ verify = Nothing
        /\ asks' = asks \ {m}
        /\ IF is_header_nonce_outstanding(sync, m.nonce, m.peer)
           THEN /\ sync' = mark_headers_received(sync)
                /\ verify' = [nonce |-> m.nonce, peer |-> m.peer, rest |-> batch,
                              max |-> IF batch = <<>> THEN 0 ELSE batch[Len(batch)]]
           ELSE UNCHANGED <<sync, verify>>
        /\ UNCHANGED <<height, peerVars, gets, loopVars, driver, faults>>

\* verifies and queues it slice by slice as long as the nonce stands; after the
\* last slice it consumes the nonce and learns the peer's height.
Learned(s) ==
    update_peer_height_for(
        update_peer_height(validate_header_nonce(s, verify.nonce), verify.max),
        verify.peer, verify.max)

VerifySlice ==
    LET k == Min({SliceSize, Len(verify.rest)})
        left == SubSeq(verify.rest, k + 1, Len(verify.rest))
        s == queue_headers(sync, SubSeq(verify.rest, 1, k))
    IN  /\ verify # Nothing
        /\ IF ~is_header_nonce_outstanding(sync, verify.nonce, verify.peer)
           THEN verify' = Nothing /\ UNCHANGED sync
           ELSE IF left # <<>>
           THEN verify' = [verify EXCEPT !.rest = left] /\ sync' = s
           ELSE /\ verify' = Nothing
                /\ sync' = IF verify.max = 0 THEN queue_headers(Learned(sync), <<>>)
                                             ELSE Learned(s)
        /\ UNCHANGED <<height, peerVars, gets, asks, loopVars, driver, faults>>

---------------------------------------------------------------------------
\* The event loop and the tasks it detaches

TaskKind == {"known", "failed", "orphan", "accepted", "connected"}

Spawn(kind, h) == tasks' = tasks \cup {[kind |-> kind, hash |-> h]}

Taken == events # <<>> /\ events' = Tail(events)

\* process_block on the next event: known, accepted at the tip, or an orphan.
ProcessBlock ==
    LET h == Head(events)
        kind == IF h <= height THEN "known" ELSE IF h = height + 1 THEN "accepted" ELSE "orphan"
    IN  /\ Taken
        /\ Spawn(kind, h)
        /\ height' = IF kind = "accepted" THEN h ELSE height
        /\ UNCHANGED <<sync, peerVars, wireVars, published, driver, faults>>

\* process_block returns an error, or the consumer lags and loses the event.
ProcessFails ==
    /\ Taken
    /\ Fault("error")
    /\ Spawn("failed", Head(events)) \/ UNCHANGED tasks
    /\ UNCHANGED <<sync, height, peerVars, wireVars, published, driver>>

\* The steps of the detached tasks, each under the lock of its own.  A task
\* first frees the download (mark_block_received); nothing that happens before
\* its next step depends on that.
Done(t) == tasks' = tasks \ {t}

NotifyReceived(t) ==
    /\ t.kind = "known" /\ Done(t)
    /\ sync' = mark_block_received(sync, t.hash)
    /\ UNCHANGED <<events, published>>

NotifyFailed(t) ==
    /\ t.kind = "failed" /\ Done(t)
    /\ sync' = mark_block_failed(mark_block_received(sync, t.hash), t.hash)
    /\ UNCHANGED <<events, published>>

NotifyOrphan(t) ==
    /\ t.kind = "orphan" /\ Done(t)
    /\ sync' = mark_block_orphan(mark_block_received(sync, t.hash), t.hash)
    /\ UNCHANGED <<events, published>>

\* Broken: every task publishes the block it was spawned for.
NotifyProcessedOwn(t) ==
    LET s == mark_block_received(sync, t.hash)
    IN  /\ t.kind = "accepted"
        /\ tasks' = (tasks \ {t}) \cup {[t EXCEPT !.kind = "connected"]}
        /\ sync' = set_local_tip(on_block_processed(s, t.hash), t.hash)
        /\ published' = t.hash
        /\ UNCHANGED events

\* publish_chain_state reads the chain's tip itself; a task overtaken by a later
\* one publishes nothing.
NotifyProcessed(t) ==
    LET s == mark_block_received(sync, t.hash)
    IN  /\ t.kind = "accepted"
        /\ tasks' = (tasks \ {t}) \cup {[t EXCEPT !.kind = "connected"]}
        /\ sync' = IF t.hash > published
                   THEN set_local_tip(on_block_processed(s, height), height) ELSE s
        /\ published' = Max({published, t.hash})
        /\ UNCHANGED events

NotifyAccepted(t) ==
    /\ t.kind = "connected" /\ Done(t)
    /\ sync' = take_orphans_of(sync, t.hash)
    /\ events' = IF t.hash + 1 \in sync.pool THEN Append(events, t.hash + 1) ELSE events
    /\ UNCHANGED published

TaskStep(t) ==
    /\ t \in tasks
    /\ \/ NotifyReceived(t) \/ NotifyFailed(t) \/ NotifyOrphan(t)
       \/ NotifyProcessed(t) \/ NotifyAccepted(t)
    /\ UNCHANGED <<height, peerVars, wireVars, driver, faults>>

---------------------------------------------------------------------------
\* A message is lost; the node restarts with its chain and nothing else.
Lose ==
    /\ Fault("loss")
    /\ \/ \E m \in gets : gets' = gets \ {m} /\ UNCHANGED asks
       \/ \E m \in asks : asks' = asks \ {m} /\ UNCHANGED gets
    /\ UNCHANGED <<sync, height, peerVars, verify, loopVars, driver>>

Restart ==
    /\ Fault("restart")
    /\ sync' = New(height)
    /\ info' = [p \in Peer |-> None]
    /\ gets' = {} /\ asks' = {} /\ verify' = Nothing
    /\ events' = <<>> /\ tasks' = {} /\ published' = 0
    /\ driver' = DriverIdle
    /\ UNCHANGED <<height, has, news>>

Next ==
    \/ Tick \/ TickEarly \/ SendSpan \/ RecordSpan
    \/ Emergency \/ EmergencyExpiry
    \/ \E p \in Peer : Connect(p) \/ Disconnect(p) \/ PeerAdvances(p) \/ ChainWork(p) \/ InvBlock(p)
    \/ \E m \in gets : Blocks(m)
    \/ \E m \in asks : Headers(m)
    \/ VerifySlice
    \/ ProcessBlock \/ ProcessFails
    \/ \E t \in tasks : TaskStep(t)
    \/ Lose \/ Restart

Spec == Init /\ [][Next]_vars

=============================================================================
