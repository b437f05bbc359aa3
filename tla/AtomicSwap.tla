----------------------------- MODULE AtomicSwap -----------------------------
(***************************************************************************)
(* What an atomic swap promises: who holds each of the two assets.  Bob     *)
(* starts with the BTC, Alice with the CYNC; "joint" is an asset locked     *)
(* under both their keys.  Alice gets the BTC only when her CYNC is locked, *)
(* and the locked CYNC goes to Bob only when Alice has the BTC, and back to *)
(* Alice only when Bob has his BTC back.                                    *)
(***************************************************************************)
VARIABLES btcOwner, cyncOwner

owners == <<btcOwner, cyncOwner>>

AInit == btcOwner = "Bob" /\ cyncOwner = "Alice"

LocksBtc ==
    btcOwner = "Bob" /\ cyncOwner = "Alice" /\ btcOwner' = "joint" /\ UNCHANGED cyncOwner

LocksCync ==
    cyncOwner = "Alice" /\ cyncOwner' = "joint" /\ UNCHANGED btcOwner

ClaimsBtc ==
    btcOwner = "joint" /\ cyncOwner = "joint" /\ btcOwner' = "Alice" /\ UNCHANGED cyncOwner

ClaimsCync ==
    btcOwner = "Alice" /\ cyncOwner = "joint" /\ cyncOwner' = "Bob" /\ UNCHANGED btcOwner

RefundsBtc == btcOwner = "joint" /\ btcOwner' = "Bob" /\ UNCHANGED cyncOwner

RefundsCync ==
    btcOwner = "Bob" /\ cyncOwner = "joint" /\ cyncOwner' = "Alice" /\ UNCHANGED btcOwner

ANext ==
    LocksBtc \/ LocksCync \/ ClaimsBtc \/ ClaimsCync \/ RefundsBtc \/ RefundsCync

ASpec == AInit /\ [][ANext]_owners
=============================================================================
