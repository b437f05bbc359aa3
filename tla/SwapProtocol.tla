---------------------------- MODULE SwapProtocol ----------------------------
(***************************************************************************)
(* The state machine of an atomic swap (coincync-swap, protocol.rs) and     *)
(* the negotiation session of coordinator.rs, as operators.  SwapNode runs  *)
(* one copy of each for Alice, who sells CYNC, and one for Bob, who sells   *)
(* BTC.                                                                     *)
(***************************************************************************)
EXTENDS Integers, Sequences

CONSTANTS
    None,     \* nothing there
    SwapId,   \* swap identifiers an operator may type
    Terms     \* parameters: records [amount, btc, cync, net], timeouts in blocks

Role == {"Alice", "Bob"}

opposite(r) == IF r = "Alice" THEN "Bob" ELSE "Alice"

State == {"Negotiated", "BobLocked", "AliceLocked", "SecretRevealed",
          "BtcRefunded", "Completed", "Refunded", "Aborted"}

---------------------------------------------------------------------------
\* SwapParameters

CyncBlockTime == 120
BtcBlockTime  == 600

\* The CYNC deadline outlasts the BTC timeout and a fifth of it.
is_timeout_safe(t) ==
    t.cync * CyncBlockTime > (t.btc * BtcBlockTime * 6) \div 5

---------------------------------------------------------------------------
\* Broken: Alice may claim before she has locked.
AliceMayClaimEarly ==
    {<<"Abort", "Alice", "Negotiated", "Aborted">>,
     <<"ObserveBobLocked", "Alice", "Negotiated", "BobLocked">>,
     <<"AliceClaimsBtc", "Alice", "BobLocked", "SecretRevealed">>,
     <<"AliceClaimsBtc", "Alice", "AliceLocked", "SecretRevealed">>,
     <<"AliceRefunds", "Alice", "BtcRefunded", "Refunded">>}

\* Broken: Bob may not refund once Alice has locked.
BobMayRefundEarly ==
    {<<"Abort", "Bob", "Negotiated", "Aborted">>,
     <<"BobLocksBtc", "Bob", "Negotiated", "BobLocked">>,
     <<"BobRefunds", "Bob", "BobLocked", "Refunded">>,
     <<"ObserveAliceLocked", "Bob", "BobLocked", "AliceLocked">>,
     <<"BobClaimsCync", "Bob", "SecretRevealed", "Completed">>,
     <<"ObserveCompleted", "Bob", "SecretRevealed", "Completed">>}

\* Swap::apply: the transitions that need no evidence, as <<transition, role,
\* from, to>>.  A tuple that is not listed is refused and changes nothing, so
\* the terminal states refuse everything.
AliceMay ==
    {<<"Abort", "Alice", "Negotiated", "Aborted">>,
     <<"ObserveBobLocked", "Alice", "Negotiated", "BobLocked">>,
     <<"AliceClaimsBtc", "Alice", "AliceLocked", "SecretRevealed">>,
     <<"AliceRefunds", "Alice", "BtcRefunded", "Refunded">>}

BobMay ==
    {<<"Abort", "Bob", "Negotiated", "Aborted">>,
     <<"BobLocksBtc", "Bob", "Negotiated", "BobLocked">>,
     <<"BobRefunds", "Bob", "BobLocked", "Refunded">>,
     <<"BobRefunds", "Bob", "AliceLocked", "Refunded">>,
     <<"ObserveAliceLocked", "Bob", "BobLocked", "AliceLocked">>,
     <<"BobClaimsCync", "Bob", "SecretRevealed", "Completed">>,
     <<"ObserveCompleted", "Bob", "SecretRevealed", "Completed">>}

apply(transition, r, from, to) == <<transition, r, from, to>> \in AliceMay \cup BobMay

\* The three transitions that take a verified capability instead.
apply_pre_cync_lock(r, from, to) ==
    r = "Alice" /\ from = "BobLocked" /\ to = "AliceLocked"

apply_verified_claim_reveal(r, from, to) ==
    r = "Bob" /\ from = "AliceLocked" /\ to = "SecretRevealed"

apply_verified_refund_reveal(r, from, to) ==
    /\ r = "Alice"
    /\ \/ from = "BobLocked" /\ to = "Refunded"
       \/ from = "AliceLocked" /\ to = "BtcRefunded"

---------------------------------------------------------------------------
\* HandshakeSession.  The adaptor material is opaque to the session; of the
\* public keys and parameters it caches, the parameters are kept.

Phase == {"Initial", "AwaitingAck", "ExchangingAdaptors", "AwaitingReady",
          "Negotiated"}

Kind == {"Hello", "HelloAck", "Accept", "AdaptorMaterial", "Ready"}

Session == [phase : Phase, parameters : Terms \cup {None},
            sent_adaptors : BOOLEAN, received_adaptors : BOOLEAN]

NewSession == [phase |-> "Initial", parameters |-> None,
               sent_adaptors |-> FALSE, received_adaptors |-> FALSE]

Message(kind, body) == [kind |-> kind, body |-> body]

\* Broken: having sent is enough to wait for Ready.
advance_when_either(s) ==
    IF s.sent_adaptors \/ s.received_adaptors
    THEN [s EXCEPT !.phase = "AwaitingReady"]
    ELSE s

maybe_advance_to_awaiting_ready(s) ==
    IF s.sent_adaptors /\ s.received_adaptors
    THEN [s EXCEPT !.phase = "AwaitingReady"]
    ELSE s

\* The calls that produce a message: when session s of role r may make them, and
\* what becomes of the session.
MaySend(r, s, terms, kind) ==
    \/ kind = "Hello" /\ r = "Bob" /\ s.phase = "Initial"
    \/ kind = "HelloAck" /\ r = "Alice" /\ s.phase = "AwaitingAck" /\ is_timeout_safe(terms)
    \/ kind = "Accept" /\ r = "Bob" /\ s.phase = "AwaitingAck" /\ s.parameters # None
    \/ kind = "AdaptorMaterial" /\ s.phase = "ExchangingAdaptors" /\ ~s.sent_adaptors
    \/ kind = "Ready" /\ s.phase = "AwaitingReady"

start_bob(s) == [s EXCEPT !.phase = "AwaitingAck"]

\* Broken: Alice does not keep the parameters she proposed.
respond_uncached(s, terms) == s

respond_with_hello_ack(s, terms) == [s EXCEPT !.parameters = terms]

accept(s) == [s EXCEPT !.phase = "ExchangingAdaptors"]

send_adaptors(s) == maybe_advance_to_awaiting_ready([s EXCEPT !.sent_adaptors = TRUE])

\* handle_inbound: the messages session s of role r in swap id accepts, and what
\* it becomes.  Anything else is an error that leaves it unchanged.  The Abort
\* message is left out: only the tests send it.
Handles(r, id, s, m) ==
    \/ m = Message("Hello", id) /\ r = "Alice" /\ s.phase = "Initial"
    \/ m.kind = "HelloAck" /\ r = "Bob" /\ s.phase = "AwaitingAck"
    \/ m.kind = "Accept" /\ r = "Alice" /\ s.phase = "AwaitingAck"
    \/ m.kind = "AdaptorMaterial" /\ s.phase = "ExchangingAdaptors" /\ ~s.received_adaptors
    \/ m.kind = "Ready" /\ s.phase = "AwaitingReady"

handle_inbound(s, m) ==
    CASE m.kind = "Hello"    -> [s EXCEPT !.phase = "AwaitingAck"]
      [] m.kind = "HelloAck" -> [s EXCEPT !.parameters = m.body]
      [] m.kind = "Accept"   -> [s EXCEPT !.phase = "ExchangingAdaptors"]
      [] m.kind = "AdaptorMaterial" ->
            maybe_advance_to_awaiting_ready([s EXCEPT !.received_adaptors = TRUE])
      [] m.kind = "Ready"    -> [s EXCEPT !.phase = "Negotiated"]

\* run_alice and run_bob: the messages each driver sends and receives, in order.
Recv(kind) == [op |-> "recv", kind |-> kind]
Send(kind) == [op |-> "send", kind |-> kind]

Script ==
    [r \in Role |->
        (IF r = "Alice"
         THEN <<Recv("Hello"), Send("HelloAck"), Recv("Accept")>>
         ELSE <<Send("Hello"), Recv("HelloAck"), Send("Accept")>>)
        \o <<Send("AdaptorMaterial"), Recv("AdaptorMaterial"), Send("Ready"), Recv("Ready")>>]
=============================================================================
