--------------------------- MODULE SyncProperties ---------------------------
(***************************************************************************)
(* What block sync promises: it reaches the tip of the peers' chain, its   *)
(* bookkeeping agrees with itself, and a block it needs is not forgotten.   *)
(* The fairness is what the code's tasks and timers give.                   *)
(***************************************************************************)
EXTENDS SyncNode

Height == 0..LastBlock
Span == [peer : Peer, hashes : Seq(Hash)]

\* The fields of struct ChainSync (sync.rs).
SyncRecord ==
    [state : {"Idle", "Headers", "Blocks", "ConfirmingSynced", "Synced"},
     local : Height, heights : [Peer -> Height], best : Height,
     queue : Seq(Hash), owned : SUBSET Hash, down : SUBSET Hash, order : Seq(Hash),
     reqs : [Hash -> Peer \cup {None}], pool : SUBSET Hash,
     asked : BOOLEAN, answered : BOOLEAN, nonces : [Nonce -> Peer \cup {None}]]

\* The collections of ChainSync hold blocks, its heights are heights of blocks,
\* its state is one of SyncState's, and what is under way between the driver, the
\* peers and the event loop names real peers and blocks (sync.rs, node.rs).
SyncTypeOK ==
    /\ sync \in SyncRecord
    /\ {height, published} \subseteq Height
    /\ has \in [Peer -> Height]
    /\ gets \subseteq Span
    /\ asks \subseteq [peer : Peer, nonce : Nonce, from : Height]
    /\ verify = Nothing
         \/ verify \in [nonce : Nonce, peer : Peer, rest : Seq(Hash), max : Height]
    /\ events \in Seq(Hash)
    /\ tasks \subseteq [kind : TaskKind, hash : Hash]
    /\ driver \in [todo : Seq(Span), sent : Seq(Span), failed : Seq(Hash)]

\* A block recorded as requested from a peer is counted as being downloaded,
\* whichever of the driver, the message handlers and the detached tasks touched
\* it last: a request that outlived its download would be retried for ever
\* (pending_requests and downloading, sync.rs).
InFlightAgrees == Requested(sync) \subseteq sync.down

\* A header counted as queued by a peer is in the queue.  queue_headers skips
\* such a header, so one counted and not queued would never be fetched again
\* (pending_header_peer and pending_headers, sync.rs).
OwnedIsQueued == sync.owned \subseteq Range(sync.queue)

\* Once no accepted block waits for its publication, ChainSync knows the tip of
\* the chain, in whatever order the detached tasks of several blocks ran
\* (publish_chain_state, network/node.rs).
PublishedTipFresh == (\A t \in tasks : t.kind # "accepted") => sync.local = height

\* What every method of ChainSync leaves behind: beside the two agreements above,
\* a block in flight has its place in the download order, which is what lets
\* push_front_ordered find it, and the orphan pool is within its limit (sync.rs).
Consistent(s) ==
    /\ s \in SyncRecord
    /\ Requested(s) \subseteq s.down
    /\ s.owned \subseteq Range(s.queue)
    /\ s.down \subseteq Range(s.order)
    /\ Cardinality(s.pool) <= MaxOrphanBlocks

\* The inductive invariant of block sync.  The tip ChainSync knows is behind the
\* chain only while the task of the chain's last block waits to publish it, with
\* no later publication before it (publish_chain_state, network/node.rs).
SyncInv ==
    /\ SyncTypeOK
    /\ Consistent(sync)
    /\ published <= height
    /\ \A t \in tasks : /\ t.kind \in {"known", "accepted", "connected"} => t.hash <= height
                        /\ t.kind = "orphan" => t.hash # 1
    /\ sync.local # height =>
         published < height /\ [kind |-> "accepted", hash |-> height] \in tasks

Tracked ==
    Range(sync.queue) \cup sync.down \cup sync.pool \cup Range(events)
        \cup {t.hash : t \in tasks}

LosesNoWork ==
    \A h \in Tracked \ Tracked' :
        \/ h <= height' \/ UNCHANGED sync
        \/ sync'.state \in {"Idle", "Headers"} /\ ~sync'.asked
        \/ Cardinality(sync'.pool) = MaxOrphanBlocks

\* A block above the tip that is queued, being fetched, pooled or on its way
\* through the event loop stays so under every change of ChainSync, unless that
\* leaves the driver about to ask for headers again, or the full orphan pool
\* gives the block up: a timeout, a disconnection, a failed send or a failed
\* block loses no work (sync.rs; the event channel itself may lose an event).
GivesUpOnlyToStartOver == [][LosesNoWork]_vars

---------------------------------------------------------------------------
\* Fairness.  Where ENABLED of an action is costly to evaluate, its weak fairness
\* is written []<>~E \/ []<><<A>>_vars with the state predicate E that says where
\* the step is enabled, and its strong fairness <>[]~E \/ []<><<A>>_vars.

\* The tick at which every timer that can have run out has run out, and where
\* it changes something.
DueLate == IF MayRetry(Overdue, Stuck(sync)) THEN Overdue ELSE {}
DueStuck == IF sync.state = "Headers" THEN Stuck(sync) ELSE {}
DueExpired == sync.asked /\ HeadersLost

TickDue ==
    /\ \/ TickHeaders(DueLate, DueStuck, DueExpired)
       \/ TickBlocks(Overdue, {}, Quiet)
    /\ UNCHANGED faults

TickWork ==
    /\ driver = DriverIdle
    /\ \/ /\ sync.state = "Blocks"
          /\ LET ticked == BlocksTicked(Overdue, {}, Quiet)
             IN  ticked.sync # sync \/ (ticked.window # <<>> /\ Ahead # {})
       \/ /\ sync.state \notin {"Blocks", "Synced"}
          /\ LET s == HeadersTicked(DueLate, DueStuck, DueExpired)
             IN  IF s.asked \/ Connected = {} THEN s # sync ELSE FreeNonces # {}

\* The driver's loop ticks every 500 ms, and a request in flight grows old: the
\* ticks of the Blocks state cannot for ever come before its timeout.
DriverFair ==
    /\ []<>~TickWork \/ []<><<TickDue>>_vars
    /\ \/ <>[]~(sync.state = "Blocks" /\ driver = DriverIdle /\ Overdue # {})
       \/ []<><<sync.state = "Blocks" /\ Overdue # {} /\ TickDue>>_vars
    /\ []<>(driver.todo = <<>> \/ driver.sent # <<>>) \/ []<><<SendSpan>>_vars
    /\ []<>(driver.sent = <<>>) \/ []<><<RecordSpan>>_vars

\* A connected peer answers what is not lost, announces its work, and is
\* connected again after a disconnection; the tokio mutex of the header
\* verification is fair.
PeersFair ==
    /\ []<>(gets = {} \/ driver # DriverIdle) \/ []<><<\E m \in gets : Blocks(m)>>_vars
    /\ \A n \in Nonce :
        \/ <>[](verify # Nothing \/ \A m \in asks : m.nonce # n)
        \/ []<><<\E m \in asks : m.nonce = n /\ Headers(m)>>_vars
    /\ []<>(verify = Nothing) \/ []<><<VerifySlice>>_vars
    /\ \A p \in Peer :
        /\ []<>(p \in Connected \/ FreeNonces = {}) \/ []<><<Connect(p)>>_vars
        /\ []<>(p \notin Connected \/ info[p] = has[p]) \/ []<><<ChainWork(p)>>_vars
        /\ WF_vars(PeerAdvances(p))

\* The event loop and each detached task are scheduled.
LoopFair ==
    /\ WF_vars(ProcessBlock)
    /\ \A t \in [kind : TaskKind, hash : Hash] :
        []<>(t \notin tasks) \/ []<><<TaskStep(t)>>_vars

FairSpec == Spec /\ DriverFair /\ PeersFair /\ LoopFair

\* The 30-minute limit on pooled blocks, which the emergency recovery enforces.
ExpirySpec ==
    /\ FairSpec
    /\ \/ <>[]~(Behind /\ Exhausted /\ sync.pool # {})
       \/ []<><<EmergencyExpiry>>_vars

---------------------------------------------------------------------------
\* Whatever was lost, refused, restarted or late, the node reaches the peers'
\* tip and stays there (the sync driver with its retries and recovery tiers).
Converges == <>[](height = LastBlock)

\* What the event loop says of notify_block_accepted (bin/node.rs:1710): "Closes
\* the out-of-order / reorg stall where stashed orphans were never fed back until
\* the 30-min TTL."  Without the TTL, a pooled block whose parent is the tip is
\* connected.
OrphansFedBack ==
    \A h \in Hash : (h \in sync.pool /\ height = h - 1) ~> (height >= h)
=============================================================================
