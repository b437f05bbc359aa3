------------------------------ MODULE TxRelay ------------------------------
(***************************************************************************)
(* Nodes that pass transactions on: the Dandelion++ router of each, its    *)
(* maintenance tick (node/maintenance.rs), the relay handlers of           *)
(* node/dispatch/relay.rs, the NodeEvent consumer that admits a fluffed    *)
(* transaction to the mempool (bin/node.rs) and connections that end.      *)
(*                                                                         *)
(* A Txs message carries a stem transaction and answers GetTxs alike: the  *)
(* receiver cannot tell them apart.  A connection delivers in order until  *)
(* it ends; then both sides have lost what was in flight.  Transactions    *)
(* are valid everywhere and stay in a mempool: Mempool models what         *)
(* removes them.  Scoring, size limits and metrics are left out.           *)
(***************************************************************************)
EXTENDS Dandelion

CONSTANTS
    Dials,       \* <<n, m>>: n dialled m, which is an outbound peer of n
    Wallets,     \* <<n, t>>: transaction t may be submitted at node n
    MaxDrops     \* bound: connections that end

ASSUME RelayConstants ==
    /\ Dials \subseteq {d \in Node \X Node : d[1] # d[2]}
    /\ Wallets \subseteq Node \X Tx
    /\ MaxDrops \in Nat

Link == {{d[1], d[2]} : d \in Dials}

VARIABLES
    router,    \* per node, the DandelionRouter
    pool,      \* per node, its mempool
    spawned,   \* per node, submissions whose task has not reached the router
    events,    \* per node, TransactionReceived not yet consumed
    absent,    \* per node, the TxAbsenceCache: <<peer, tx>>
    conn,      \* connections that are up
    net,       \* net[n][m]: what n sent and m has not handled
    dropped,   \* history: connections that ended at some time
    drops

vars == <<router, pool, spawned, events, absent, conn, net, dropped, drops>>

Peers(n) == {m \in Node : {n, m} \in conn}

Init ==
    /\ router = [n \in Node |-> NewRouter]
    /\ pool = [n \in Node |-> {}] /\ spawned = [n \in Node |-> {}]
    /\ events = [n \in Node |-> {}] /\ absent = [n \in Node |-> {}]
    /\ conn = Link /\ dropped = {} /\ drops = 0
    /\ net = [n \in Node |-> [m \in Node |-> <<>>]]

Msg(type, t) == [type |-> type, tx |-> t]

Type == {"Inv", "GetTxs", "Txs", "NotFound"}

\* What n has in flight after it sends peer m the sequence out[m].
Send(n, out) ==
    [m \in Node |-> IF m \in Peers(n) THEN net[n][m] \o out[m] ELSE net[n][m]]

---------------------------------------------------------------------------
\* Submission

\* send_raw_transaction: the mempool first, then a task of its own.
Submit(n, t) ==
    /\ <<n, t>> \in Wallets /\ t \notin pool[n]
    /\ pool' = [pool EXCEPT ![n] = @ \cup {t}]
    /\ spawned' = [spawned EXCEPT ![n] = @ \cup {t}]
    /\ UNCHANGED <<router, events, absent, conn, net, dropped, drops>>

queue_transaction(n, t) ==
    /\ t \in spawned[n]
    /\ spawned' = [spawned EXCEPT ![n] = @ \ {t}]
    /\ router' = [router EXCEPT ![n] = add_local_tx(@, t)]
    /\ UNCHANGED <<pool, events, absent, conn, net, dropped, drops>>

---------------------------------------------------------------------------
\* The maintenance loop

\* The relay an entry of n may be given; the dialled peers may have gone.
Targets(n) == {m \in Node : <<n, m>> \in Dials} \cup {None}

Msgs(type, txs) == [i \in DOMAIN txs |-> Msg(type, txs[i])]

\* order is that of the hash map.  A relay that has no sender any more gets
\* nothing, and its entry counts as forwarded.
run_dandelion_tick(n, due) ==
    \E target \in [Stemmed(router[n]) -> Targets(n)],
       order \in Orders(Stemmed(router[n])) :
        LET a == tick(router[n], due, target)
            Sub(txs) == Pick(order, {i \in DOMAIN order : order[i] \in txs})
        IN  /\ router' = [router EXCEPT ![n] = a.router]
            /\ net' = [net EXCEPT ![n] = Send(n, [m \in Node |->
                  Msgs("Txs", Sub({t \in Tx : <<t, m>> \in a.relayed})) \o
                  Msgs("Inv", Sub(a.fluffed))])]
            /\ events' = [events EXCEPT ![n] = @ \cup a.fluffed]
            /\ UNCHANGED <<pool, spawned, absent, conn, dropped, drops>>

\* The consumer of TransactionReceived; the announcement has long gone out.
Admit(n, t) ==
    /\ t \in events[n]
    /\ events' = [events EXCEPT ![n] = @ \ {t}]
    /\ pool' = [pool EXCEPT ![n] = @ \cup {t}]
    /\ UNCHANGED <<router, spawned, absent, conn, net, dropped, drops>>

---------------------------------------------------------------------------
\* Messages: n handles the oldest message of m.

Receives(n, m, type) == net[m][n] # <<>> /\ Head(net[m][n]).type = type

\* net once n has taken the oldest message of m and sent out[p] to each peer p.
Handled(n, m, out) ==
    [[net EXCEPT ![n] = Send(n, out)] EXCEPT ![m][n] = Tail(@)]

Only(m, msgs) == [p \in Node |-> IF p = m THEN msgs ELSE <<>>]

\* Broken: what one peer does not have, no peer has.
is_known_absent_anywhere(n, m, t) == \E p \in Node : <<p, t>> \in absent[n]

is_known_absent(n, m, t) == <<m, t>> \in absent[n]

handle_inv_tx(n, m) ==
    /\ Receives(n, m, "Inv")
    /\ LET t    == Head(net[m][n]).tx
           want == t \notin pool[n] /\ ~is_known_absent(n, m, t)
       IN  net' = Handled(n, m, Only(m, IF want THEN <<Msg("GetTxs", t)>> ELSE <<>>))
    /\ UNCHANGED <<router, pool, spawned, events, absent, conn, dropped, drops>>

handle_get_txs(n, m) ==
    /\ Receives(n, m, "GetTxs")
    /\ LET t == Head(net[m][n]).tx
       IN  net' = Handled(n, m,
                     Only(m, <<Msg(IF t \in pool[n] THEN "Txs" ELSE "NotFound", t)>>))
    /\ UNCHANGED <<router, pool, spawned, events, absent, conn, dropped, drops>>

handle_not_found(n, m) ==
    /\ Receives(n, m, "NotFound")
    /\ absent' = [absent EXCEPT ![n] = @ \cup {<<m, Head(net[m][n]).tx>>}]
    /\ net' = Handled(n, m, Only(m, <<>>))
    /\ UNCHANGED <<router, pool, spawned, events, conn, dropped, drops>>

\* Broken: a transaction on the stem is admitted as well.
handle_txs_admits(n, m) ==
    /\ Receives(n, m, "Txs")
    /\ \E mode \in {"stem", "fluff"} :
       LET t == Head(net[m][n]).tx
           r == add_received_tx(router[n], t, m, mode)
       IN  /\ router' = [router EXCEPT ![n] = r.router]
           /\ net' = Handled(n, m, [p \in Node |->
                        IF r.action = "Fluff" THEN <<Msg("Inv", t)>> ELSE <<>>])
           /\ events' = [events EXCEPT ![n] = @ \cup {t}]
    /\ UNCHANGED <<pool, spawned, absent, conn, dropped, drops>>

\* The announcement goes to every peer, the one the transaction came from
\* included, and before the transaction is in our mempool.
handle_txs(n, m) ==
    /\ Receives(n, m, "Txs")
    /\ \E mode \in {"stem", "fluff"} :
       LET t     == Head(net[m][n]).tx
           r     == add_received_tx(router[n], t, m, mode)
           fluff == r.action = "Fluff"
       IN  /\ router' = [router EXCEPT ![n] = r.router]
           /\ net' = Handled(n, m, [p \in Node |->
                        IF fluff THEN <<Msg("Inv", t)>> ELSE <<>>])
           /\ events' = IF fluff THEN [events EXCEPT ![n] = @ \cup {t}] ELSE events
    /\ UNCHANGED <<pool, spawned, absent, conn, dropped, drops>>

---------------------------------------------------------------------------
\* Connections

\* What was in flight is lost; the routers keep what they have.
cleanup_connection(n, m) ==
    /\ {n, m} \in conn /\ drops < MaxDrops
    /\ drops' = drops + 1
    /\ conn' = conn \ {{n, m}} /\ dropped' = dropped \cup {{n, m}}
    /\ net' = [net EXCEPT ![n][m] = <<>>, ![m][n] = <<>>]
    /\ UNCHANGED <<router, pool, spawned, events, absent>>

Reconnect(n, m) ==
    /\ {n, m} \notin conn
    /\ conn' = conn \cup {{n, m}}
    /\ UNCHANGED <<router, pool, spawned, events, absent, net, dropped, drops>>

---------------------------------------------------------------------------
Handle(n, m) ==
    \/ handle_inv_tx(n, m) \/ handle_get_txs(n, m)
    \/ handle_not_found(n, m) \/ handle_txs(n, m)

Next ==
    \/ \E n \in Node, t \in Tx : Submit(n, t) \/ queue_transaction(n, t) \/ Admit(n, t)
    \/ \E n \in Node : \E due \in SUBSET Stemmed(router[n]) : run_dandelion_tick(n, due)
    \/ \E n, m \in Node :
          \/ {n, m} \in Link /\ Handle(n, m)
          \/ <<n, m>> \in Dials /\ (cleanup_connection(n, m) \/ Reconnect(n, m))

\* Tasks, event consumers and message loops run: what waits for one is taken
\* up.  The tick comes every ten seconds, so sooner or later it finds everything
\* past its random deadline.  (Weak fairness of the actions, written with what
\* makes each possible and with what only it does.)
Takes(n, m) == net[m][n] # <<>> /\ net'[m][n] = Tail(net[m][n])

Fairness ==
    /\ \A n \in Node :
          <>[](router[n].stem # <<>>) =>
              []<><<run_dandelion_tick(n, Stemmed(router[n]))>>_vars
    /\ \A n \in Node, t \in Tx : []<>(t \notin events[n]) /\ []<>(t \notin spawned[n])
    /\ \A n, m \in Node :
          {n, m} \in Link => (<>[](net[m][n] # <<>>) => []<><<Takes(n, m)>>_vars)

Spec == Init /\ [][Next]_vars /\ Fairness
=============================================================================
