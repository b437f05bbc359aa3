------------------------------ MODULE SwapNode ------------------------------
(***************************************************************************)
(* A swap from negotiation to settlement: Alice and Bob each run the        *)
(* coordinator's handshake and then the commands of the cyncswap program,   *)
(* one at a time, against a state file, a Bitcoin node and a CoinCync node. *)
(*                                                                          *)
(* Every command that moves funds loads the file, checks role, state and    *)
(* evidence, broadcasts, and only then applies the transition and saves.    *)
(* The process may die in between, so a command is two steps: the first     *)
(* ends with the broadcast and leaves in doing[r] the state still to be     *)
(* saved, the second is the save (SwapStore::save replaces the file by a    *)
(* rename, so it is one step).  A save that fails and a reply that is lost  *)
(* after the node took the transaction end the command as a crash does.     *)
(*                                                                          *)
(* The two chains are external.  A node takes a transaction it already      *)
(* holds unconfirmed (Mempool::add does, and bitcoind's sendrawtransaction) *)
(* and refuses one that is in a block or whose inputs are spent in a block. *)
(* Two nodes may hold conflicting spends until one of them is mined.        *)
(* Operators report an observation when the transaction is confirmed to the *)
(* depth they agreed on, so a reported transaction is not reorganised away. *)
(***************************************************************************)
EXTENDS SwapProtocol, FiniteSets

CONSTANTS
    MaxDials,    \* bound: handshakes tried
    MaxCrashes   \* bound: commands that die before they save

SwapFile == [state : State, id : SwapId, terms : Terms]

ASSUME SwapConstants ==
    /\ \A t \in Terms : {t.amount, t.btc, t.cync} \subseteq Nat
    /\ None \notin State /\ None \notin SwapFile /\ None \notin {"claim", "refund"} \cup Role
    /\ {MaxDials, MaxCrashes} \subseteq Nat

VARIABLES
    file,       \* the state file of each role: None, or [state, id, terms]
    doing,      \* the state a running command is about to save, or None
    step,       \* next step of each role's handshake driver, 0 when none runs
    session,    \* HandshakeSession of each role
    wire,       \* messages on their way to each role
    verified,   \* the roles whose verifier accepted the other's material
    evidence,   \* pre-lock safety evidence of each role: None, or [id, terms]
    btc,        \* [lock, mature, sent, spent]: the Bitcoin contract output
    cync,       \* [lock, sent, spent]: the joint CYNC output
    dials, crashes

handshake == <<step, session, wire, verified, evidence, dials>>
chains == <<btc, cync>>
vars == <<file, doing, handshake, chains, crashes>>

Init ==
    /\ file = [r \in Role |-> None]
    /\ doing = [r \in Role |-> None]
    /\ step = [r \in Role |-> 0]
    /\ session = [r \in Role |-> NewSession]
    /\ wire = [r \in Role |-> <<>>]
    /\ verified = {}
    /\ evidence = [r \in Role |-> None]
    /\ btc = [lock |-> "none", mature |-> FALSE, sent |-> {}, spent |-> None]
    /\ cync = [lock |-> "none", sent |-> {}, spent |-> None]
    /\ dials = 0
    /\ crashes = 0

InState(r, s) == file[r] # None /\ file[r].state = s

\* No other process of r works on the swap.
Idle(r) == doing[r] = None /\ step[r] = 0

---------------------------------------------------------------------------
\* Setting up and negotiating

\* Swap::negotiate and a first save: nothing is overwritten, unsafe timeouts are
\* refused.  Each side is told the identifier and the terms outside the system.
\* The alice and bob commands put "unknown" for the Bitcoin network, a program
\* that uses the library puts the one it means.
Start(r) ==
    /\ file[r] = None
    /\ \E id \in SwapId, terms \in Terms :
          /\ is_timeout_safe(terms)
          /\ file' = [file EXCEPT ![r] = [state |-> "Negotiated", id |-> id, terms |-> terms]]
    /\ UNCHANGED <<doing, handshake, chains, crashes>>

\* Alice's listen meets Bob's connect: fresh sessions on a fresh stream.
Dial ==
    /\ dials < MaxDials
    /\ \A r \in Role : InState(r, "Negotiated") /\ Idle(r)
    /\ dials' = dials + 1
    /\ step' = [r \in Role |-> 1]
    /\ session' = [r \in Role |-> NewSession]
    /\ wire' = [r \in Role |-> <<>>]
    /\ UNCHANGED <<file, doing, verified, evidence, chains, crashes>>

\* One step of run_alice or run_bob.  Past the last one the driver returns Ok
\* and its caller keeps the evidence the exchange produced.
Advance(r, s) ==
    /\ session' = [session EXCEPT ![r] = s]
    /\ IF step[r] = Len(Script[r])
       THEN /\ step' = [step EXCEPT ![r] = 0]
            /\ evidence' = [evidence EXCEPT ![r] = [id |-> file[r].id, terms |-> s.parameters]]
       ELSE /\ step' = [step EXCEPT ![r] = @ + 1]
            /\ UNCHANGED evidence

Says(r, kind, body, s) ==
    /\ Script[r][step[r]] = Send(kind)
    /\ MaySend(r, session[r], file[r].terms, kind)
    /\ wire' = [wire EXCEPT ![opposite(r)] = Append(@, Message(kind, body))]
    /\ Advance(r, s)

SendMessage(r) ==
    /\ step[r] # 0
    /\ \/ Says(r, "Hello", file[r].id, start_bob(session[r]))
       \/ Says(r, "HelloAck", file[r].terms,
               respond_with_hello_ack(session[r], file[r].terms))
       \/ Says(r, "Accept", None, accept(session[r]))
       \/ Says(r, "AdaptorMaterial", None, send_adaptors(session[r]))
       \/ Says(r, "Ready", None, session[r])
    /\ UNCHANGED <<file, doing, verified, dials, chains, crashes>>

\* The driver returns an error and its end of the stream is dropped.
Fail(r) ==
    /\ step' = [step EXCEPT ![r] = 0]
    /\ UNCHANGED <<session, verified, evidence>>

\* The next message is the one this step of the driver waits for.
InOrder(r) ==
    /\ Script[r][step[r]] = Recv(Head(wire[r]).kind)
    /\ Handles(r, file[r].id, session[r], Head(wire[r]))

\* A received message, with the verifier's verdict on adaptor material.
ReceiveMessage(r) ==
    /\ step[r] # 0
    /\ Script[r][step[r]].op = "recv"
    /\ wire[r] # <<>>
    /\ wire' = [wire EXCEPT ![r] = Tail(@)]
    /\ LET m == Head(wire[r])
       IN  \/ /\ InOrder(r)
              /\ verified' = IF m.kind = "AdaptorMaterial" THEN verified \cup {r} ELSE verified
              /\ Advance(r, handle_inbound(session[r], m))
           \/ /\ InOrder(r) => m.kind = "AdaptorMaterial"
              /\ Fail(r)
    /\ UNCHANGED <<file, doing, dials, chains, crashes>>

\* recv times out, or the other end is gone.
TimeOut(r) ==
    /\ step[r] # 0
    /\ Script[r][step[r]].op = "recv"
    /\ wire[r] = <<>>
    /\ Fail(r)
    /\ UNCHANGED <<file, doing, wire, dials, chains, crashes>>

---------------------------------------------------------------------------
\* The commands

\* The parameters the evidence is compared in: the amounts, the network, and the
\* timelock of the Bitcoin refund.  The CYNC timeout is in no contract.
SameTerms(s, t) == s.amount = t.amount /\ s.btc = t.btc /\ s.net = t.net

\* Broken: evidence of the same swap under other terms is accepted.
verify_swap_id_only(r) ==
    /\ evidence[r] # None
    /\ evidence[r].id = file[r].id
    /\ evidence[r].terms.net # "unknown"

\* The evidence is about the swap in the state file, on a network that exists.
verify_pre_cync_lock(r) ==
    /\ evidence[r] # None
    /\ evidence[r].id = file[r].id
    /\ SameTerms(evidence[r].terms, file[r].terms)
    /\ evidence[r].terms.net # "unknown"

\* A command of r that broadcast its transaction and will save the state to.
WillSave(r, to) ==
    /\ doing' = [doing EXCEPT ![r] = to]
    /\ UNCHANGED <<file, handshake, crashes>>

\* A command of r that only changes the state file.
Record(r, to) ==
    /\ file' = [file EXCEPT ![r].state = to]
    /\ UNCHANGED <<doing, handshake, chains, crashes>>

Save(r) ==
    /\ doing[r] # None
    /\ file' = [file EXCEPT ![r].state = doing[r]]
    /\ doing' = [doing EXCEPT ![r] = None]
    /\ UNCHANGED <<handshake, chains, crashes>>

Crash(r) ==
    /\ doing[r] # None
    /\ crashes < MaxCrashes
    /\ crashes' = crashes + 1
    /\ doing' = [doing EXCEPT ![r] = None]
    /\ UNCHANGED <<file, handshake, chains>>

\* A transaction reaches a node's mempool, unless it is in a block already.
Broadcast(lock) == IF lock = "none" THEN "mempool" ELSE lock

\* An unspent output takes another spend into some mempool.
BroadcastSpend(out, tx) == [out EXCEPT !.sent = @ \cup {tx}]

LockBtc ==
    /\ Idle("Bob") /\ file["Bob"] # None
    /\ verify_pre_cync_lock("Bob")
    /\ btc.lock # "chain"
    /\ btc' = [btc EXCEPT !.lock = Broadcast(@)]
    /\ \E to \in State : /\ apply("BobLocksBtc", "Bob", file["Bob"].state, to)
                        /\ WillSave("Bob", to)
    /\ UNCHANGED cync

LockCync ==
    /\ Idle("Alice") /\ file["Alice"] # None
    /\ verify_pre_cync_lock("Alice")
    /\ cync.lock # "chain"
    /\ cync' = [cync EXCEPT !.lock = Broadcast(@)]
    /\ \E to \in State : /\ apply_pre_cync_lock("Alice", file["Alice"].state, to)
                        /\ WillSave("Alice", to)
    /\ UNCHANGED btc

\* Broken: an error of the broadcast is ignored.
ClaimBtcUnsent ==
    /\ Idle("Alice") /\ file["Alice"] # None
    /\ verify_pre_cync_lock("Alice")
    /\ btc.lock # "none" /\ btc.spent = None
    /\ btc' = btc
    /\ \E to \in State : /\ apply("AliceClaimsBtc", "Alice", file["Alice"].state, to)
                        /\ WillSave("Alice", to)
    /\ UNCHANGED cync

ClaimBtc ==
    /\ Idle("Alice") /\ file["Alice"] # None
    /\ verify_pre_cync_lock("Alice")
    /\ btc.lock # "none" /\ btc.spent = None
    /\ btc' = BroadcastSpend(btc, "claim")
    /\ \E to \in State : /\ apply("AliceClaimsBtc", "Alice", file["Alice"].state, to)
                        /\ WillSave("Alice", to)
    /\ UNCHANGED cync

\* The relative timelock is the Bitcoin node's to enforce.
RefundBtc ==
    /\ Idle("Bob") /\ file["Bob"] # None
    /\ verify_pre_cync_lock("Bob")
    /\ btc.mature /\ btc.spent = None
    /\ btc' = BroadcastSpend(btc, "refund")
    /\ \E to \in State : /\ apply("BobRefunds", "Bob", file["Bob"].state, to)
                        /\ WillSave("Bob", to)
    /\ UNCHANGED cync

ClaimCync ==
    /\ Idle("Bob") /\ file["Bob"] # None
    /\ cync.lock = "chain" /\ cync.spent = None
    /\ cync' = BroadcastSpend(cync, "Bob")
    /\ \E to \in State : /\ apply("BobClaimsCync", "Bob", file["Bob"].state, to)
                        /\ WillSave("Bob", to)
    /\ UNCHANGED btc

RefundCync ==
    /\ Idle("Alice") /\ file["Alice"] # None
    /\ cync.lock = "chain" /\ cync.spent = None
    /\ cync' = BroadcastSpend(cync, "Alice")
    /\ \E to \in State : /\ apply("AliceRefunds", "Alice", file["Alice"].state, to)
                        /\ WillSave("Alice", to)
    /\ UNCHANGED btc

Cancel(r) ==
    /\ Idle(r) /\ file[r] # None
    /\ \E to \in State : apply("Abort", r, file[r].state, to) /\ Record(r, to)

---------------------------------------------------------------------------
\* The transition command: what the operator has seen on a chain.

Observes(r, transition) ==
    /\ Idle(r) /\ file[r] # None
    /\ \E to \in State : apply(transition, r, file[r].state, to) /\ Record(r, to)

ObserveBobLocked == btc.lock = "chain" /\ Observes("Alice", "ObserveBobLocked")

ObserveAliceLocked == cync.lock = "chain" /\ Observes("Bob", "ObserveAliceLocked")

ObserveCompleted == cync.spent # None /\ Observes("Bob", "ObserveCompleted")

\* The final signature of the claim is in a block and gives Alice's share.
ObserveSecretRevealed ==
    /\ Idle("Bob") /\ file["Bob"] # None
    /\ verify_pre_cync_lock("Bob")
    /\ btc.spent = "claim"
    /\ \E to \in State : /\ apply_verified_claim_reveal("Bob", file["Bob"].state, to)
                        /\ Record("Bob", to)

\* The final signature of the refund is in a block and gives Bob's share.
ObserveBtcRefunded ==
    /\ Idle("Alice") /\ file["Alice"] # None
    /\ verify_pre_cync_lock("Alice")
    /\ btc.spent = "refund"
    /\ \E to \in State : /\ apply_verified_refund_reveal("Alice", file["Alice"].state, to)
                        /\ Record("Alice", to)

---------------------------------------------------------------------------
\* The chains

MineBtcLock ==
    /\ btc.lock = "mempool"
    /\ btc' = [btc EXCEPT !.lock = "chain"]
    /\ UNCHANGED <<file, doing, handshake, cync, crashes>>

Mature ==
    /\ btc.lock = "chain" /\ ~btc.mature
    /\ btc' = [btc EXCEPT !.mature = TRUE]
    /\ UNCHANGED <<file, doing, handshake, cync, crashes>>

MineBtcSpend ==
    /\ btc.lock = "chain" /\ btc.spent = None
    /\ \E tx \in btc.sent : btc' = [btc EXCEPT !.spent = tx]
    /\ UNCHANGED <<file, doing, handshake, cync, crashes>>

MineCyncLock ==
    /\ cync.lock = "mempool"
    /\ cync' = [cync EXCEPT !.lock = "chain"]
    /\ UNCHANGED <<file, doing, handshake, btc, crashes>>

MineCyncSpend ==
    /\ cync.spent = None
    /\ \E tx \in cync.sent : cync' = [cync EXCEPT !.spent = tx]
    /\ UNCHANGED <<file, doing, handshake, btc, crashes>>

Mine == MineBtcLock \/ Mature \/ MineBtcSpend \/ MineCyncLock \/ MineCyncSpend

Next ==
    \/ Dial \/ LockBtc \/ LockCync \/ ClaimBtc \/ RefundBtc \/ ClaimCync \/ RefundCync
    \/ ObserveBobLocked \/ ObserveAliceLocked \/ ObserveCompleted
    \/ ObserveSecretRevealed \/ ObserveBtcRefunded
    \/ \E r \in Role : \/ Start(r) \/ SendMessage(r) \/ ReceiveMessage(r) \/ TimeOut(r)
                       \/ Save(r) \/ Crash(r) \/ Cancel(r)
    \/ Mine

Spec == Init /\ [][Next]_vars
=============================================================================
