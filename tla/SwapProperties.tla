--------------------------- MODULE SwapProperties ---------------------------
(***************************************************************************)
(* What a swap run by SwapNode promises to Alice and Bob.                   *)
(***************************************************************************)
EXTENDS SwapNode

\* The state files, the commands about to save and the two chains.
Funds == <<file, doing, btc, cync>>

FundsTypeOK ==
    /\ file \in [Role -> SwapFile \cup {None}]
    /\ doing \in [Role -> State \cup {None}]
    /\ btc \in [lock : {"none", "mempool", "chain"}, mature : BOOLEAN,
                sent : SUBSET {"claim", "refund"}, spent : {None, "claim", "refund"}]
    /\ cync \in [lock : {"none", "mempool", "chain"}, sent : SUBSET Role,
                 spent : Role \cup {None}]

\* The type of the state.
SwapTypeOK ==
    /\ FundsTypeOK
    /\ evidence \in [Role -> [id : SwapId, terms : Terms] \cup {None}]

\* No coin moves before the handshake did its work: once lock-btc has broadcast,
\* each side's verifier has accepted the other's adaptor material, and the two
\* state files agree on the swap, its amounts and the Bitcoin timelock, whatever
\* Bob typed and however many handshakes failed before
\* (coordinator.rs run_alice, run_bob; safety.rs verify_pre_cync_lock).
AgreedBeforeLock ==
    btc.lock # "none" =>
        /\ verified = Role
        /\ file["Alice"].id = file["Bob"].id
        /\ SameTerms(file["Alice"].terms, file["Bob"].terms)

\* Between two sides of the same swap no message is ever out of order: what a
\* driver reads is what it waits for and what its session accepts, although
\* both send their adaptor material at once (coordinator.rs handle_inbound).
HandshakeInOrder ==
    \A r \in Role :
        /\ step[r] # 0
        /\ Script[r][step[r]].op = "recv"
        /\ wire[r] # <<>>
        /\ file["Alice"].id = file["Bob"].id
        => InOrder(r)

\* A state file is never ahead of the chains: a saved state that stands for a
\* transaction is saved after some node took that transaction, crashes or not
\* ("broadcast first, then transition + save", cyncswap.rs).
FileNotAhead ==
    /\ file["Bob"] # None /\ file["Bob"].state \notin {"Negotiated", "Aborted"} => btc.lock # "none"
    /\ InState("Alice", "AliceLocked") => cync.lock # "none"
    /\ InState("Alice", "SecretRevealed") => "claim" \in btc.sent
    /\ InState("Bob", "Refunded") => "refund" \in btc.sent
    /\ InState("Bob", "Completed") => cync.sent # {}

---------------------------------------------------------------------------
\* Atomicity

Promise == INSTANCE AtomicSwap WITH
    btcOwner <- IF btc.spent = "claim" THEN "Alice"
                ELSE IF btc.spent = "refund" \/ btc.lock = "none" THEN "Bob" ELSE "joint",
    cyncOwner <- IF cync.spent # None THEN cync.spent
                 ELSE IF cync.lock = "none" THEN "Alice" ELSE "joint"

\* The commands of both sides, in every order and with every crash, implement
\* the abstract swap: Alice gets the BTC only with her CYNC locked, and the
\* locked CYNC goes to whoever did not get the BTC.
ImplementsAtomicSwap == Promise!ASpec

\* What the proofs carry: where each state file, and each command about to save,
\* leaves the two chains.
FundsInv ==
    /\ FundsTypeOK
    /\ btc.spent # None => btc.lock = "chain"
    /\ cync.lock # "none" => btc.lock = "chain"
    /\ cync.sent # {} => cync.lock = "chain"
    /\ cync.spent # None => cync.spent \in cync.sent
    /\ "claim" \in btc.sent => cync.lock # "none"
    /\ "Bob" \in cync.sent => btc.spent = "claim"
    /\ "Alice" \in cync.sent => btc.spent = "refund"
    /\ doing["Bob"] \in {None, "BobLocked", "Refunded", "Completed"}
    /\ doing["Alice"] \in {None, "AliceLocked", "SecretRevealed", "Refunded"}
    /\ doing["Bob"] # None => file["Bob"] # None /\ btc.lock # "none"
    /\ doing["Alice"] # None => file["Alice"] # None /\ btc.lock = "chain"
    /\ doing["Bob"] = "Refunded" => "refund" \in btc.sent
    /\ doing["Bob"] = "Completed" => cync.sent # {}
    /\ doing["Alice"] = "AliceLocked" => cync.lock # "none"
    /\ doing["Alice"] = "SecretRevealed" => "claim" \in btc.sent
    /\ file["Alice"] # None /\ file["Alice"].state \notin {"Negotiated", "Aborted"} => btc.lock = "chain"
    /\ InState("Bob", "SecretRevealed") => btc.spent = "claim"
    /\ InState("Alice", "BtcRefunded") => btc.spent = "refund"
    /\ FileNotAhead

---------------------------------------------------------------------------
\* The handshake, step by step

\* The message that reaches r as its i-th on one stream.
Letter(r, i) ==
    IF r = "Alice"
    THEN <<Message("Hello", file["Bob"].id), Message("Accept", None),
           Message("AdaptorMaterial", None), Message("Ready", None)>>[i]
    ELSE <<Message("HelloAck", file["Alice"].terms),
           Message("AdaptorMaterial", None), Message("Ready", None)>>[i]

\* How many messages r has received, and sent, when its driver is at step k, with 8
\* for its end.
Got(r, k) ==
    IF r = "Alice" THEN <<0, 1, 1, 2, 2, 3, 3, 4>>[k] ELSE <<0, 0, 1, 1, 1, 2, 2, 3>>[k]
Said(r, k) ==
    IF r = "Alice" THEN <<0, 0, 1, 1, 2, 2, 3, 3>>[k] ELSE <<0, 1, 1, 2, 3, 3, 4, 4>>[k]

\* The session of a driver at step k.
SessionAt(k) ==
    LET In(phase, parameters, sent, received) ==
            [phase |-> phase, parameters |-> parameters,
             sent_adaptors |-> sent, received_adaptors |-> received]
        terms == file["Alice"].terms
    IN  <<In("Initial", None, FALSE, FALSE),
          In("AwaitingAck", None, FALSE, FALSE),
          In("AwaitingAck", terms, FALSE, FALSE),
          In("ExchangingAdaptors", terms, FALSE, FALSE),
          In("ExchangingAdaptors", terms, TRUE, FALSE),
          In("AwaitingReady", terms, TRUE, TRUE),
          In("AwaitingReady", terms, TRUE, TRUE)>>[k]

\* All that was sent to r on its stream, received or still on the wire.
Reach(r) == Got(r, step[r]) + Len(wire[r])

\* A driver under way has the session of its step, and on the wire to it are the
\* letters it has not received of those the other side has sent, in order; the
\* other side may have given up since.
StreamOK(r) ==
    /\ file["Alice"] # None /\ file["Bob"] # None
    /\ session[r] = SessionAt(step[r])
    /\ \A i \in 1..Len(wire[r]) : wire[r][i] = Letter(r, Got(r, step[r]) + i)
    /\ IF step[opposite(r)] = 0 THEN Reach(r) <= Said(opposite(r), 8)
       ELSE Reach(r) = Said(opposite(r), step[opposite(r)])

SameSwap == file["Alice"].id = file["Bob"].id

\* What the handshake has established: Alice answers only Bob of the same swap,
\* nobody says Ready whose verifier has not accepted, and Bob's evidence has the
\* terms of Alice's file.
HandshakeInv ==
    /\ SwapTypeOK
    /\ step \in [Role -> 0..7]
    /\ session \in [Role -> Session]
    /\ wire \in [Role -> Seq([kind : Kind, body : SwapId \cup Terms \cup {None}])]
    /\ verified \subseteq Role
    /\ \A r \in Role : step[r] # 0 => StreamOK(r)
    /\ step["Alice"] > 1 \/ step["Bob"] > 2 => SameSwap
    /\ step["Bob"] # 0 /\ Reach("Bob") > 0 => SameSwap
    /\ \A r \in Role : step[r] > 5 => r \in verified
    /\ step["Bob"] # 0 /\ Reach("Bob") = 3 => "Alice" \in verified
    /\ evidence["Bob"] # None =>
          /\ file["Alice"] # None /\ file["Bob"] # None
          /\ SameSwap /\ verified = Role
          /\ evidence["Bob"].terms = file["Alice"].terms
    /\ btc.lock # "none" => file["Alice"] # None /\ file["Bob"] # None
    /\ AgreedBeforeLock

\* The inductive invariant of the swap: what the files, the commands in progress,
\* the two chains and the two handshake sessions have to do with each other at
\* every step (cyncswap.rs, coordinator.rs).
SwapInv == FundsInv /\ HandshakeInv

---------------------------------------------------------------------------
\* Settlement

Settled ==
    /\ btc.lock = "none" \/ btc.spent # None
    /\ cync.lock = "none" \/ cync.spent # None

\* A lock whose command died before it saved: the node refuses the transaction
\* a second time once it is mined, so the file never gets past it.
LockUnrecorded ==
    /\ crashes > 0
    /\ \/ btc.lock # "none" /\ file["Bob"].state \in {"Negotiated", "Aborted"}
       \/ cync.lock # "none" /\ file["Alice"].state \in {"BobLocked", "Refunded"}

\* Claim and refund of the BTC were both broadcast: the file of the side whose
\* transaction loses says the opposite of the chain, and has no way out.
Raced == btc.sent = {"claim", "refund"}

\* Blocks are mined, timelocks mature, a command that broadcast goes on to save,
\* and each side takes its way out when it has one: Bob refunds or claims the
\* CYNC, Alice sweeps it after a refund.  Nothing obliges Alice to lock or claim.
FairSpec ==
    /\ Spec
    /\ WF_vars(Mine)
    /\ \A r \in Role : WF_vars(Save(r))
    /\ WF_vars(RefundBtc) /\ WF_vars(ClaimCync) /\ WF_vars(RefundCync)
    /\ WF_vars(ObserveAliceLocked \/ ObserveSecretRevealed)
    /\ WF_vars(ObserveBtcRefunded)

\* Every swap ends with both coins out of the joint outputs, even when Alice
\* walks away at any point.  The exceptions are the two ways the state files
\* lose touch with the chains: a lock command that died between its broadcast
\* and its save, and a refund broadcast while a claim is unconfirmed.
Settles == <>[](Settled \/ LockUnrecorded \/ Raced)

\* "This role's refund obligations are complete. For Alice this means Bob
\* refunded before CYNC was locked, or Alice swept CYNC after recovering Bob's
\* share" (protocol.rs, State::Refunded).
AliceRefundedIsWhole ==
    InState("Alice", "Refunded") => cync.lock = "none" \/ "Alice" \in cync.sent
=============================================================================
