----------------------------- MODULE SwapProofs -----------------------------
(***************************************************************************)
(* The swap of SwapNode is atomic, for all identifiers and terms and any *)
(* number of handshakes and crashes.  SwapInv is the inductive invariant,*)
(* and its halves are proved one after the other: FundsInv is about the  *)
(* files and the chains, HandshakeInv about the sessions.                *)
(***************************************************************************)
EXTENDS SwapProperties, TLAPS

\* Leaves are first-order and left to Zenon, unless they cite the SMT solver.
USE ZenonT(60)

---------------------------------------------------------------------------
\* FundsInv is inductive

\* Before the first command nothing is locked and no file exists.
LEMMA InitInv == Init => FundsInv
<1> SUFFICES ASSUME Init PROVE FundsInv
  OBVIOUS
<1>1. FundsTypeOK
  <2>1. file \in [Role -> SwapFile \cup {None}] /\ doing \in [Role -> State \cup {None}]
    BY DEF Init
  <2>2. btc \in [lock : {"none", "mempool", "chain"}, mature : BOOLEAN,
                 sent : SUBSET {"claim", "refund"}, spent : {None, "claim", "refund"}]
    BY Zenon DEF Init
  <2>3. cync \in [lock : {"none", "mempool", "chain"}, sent : SUBSET Role,
                  spent : Role \cup {None}]
    BY DEF Init
  <2> QED
    BY <2>1, <2>2, <2>3 DEF FundsTypeOK
<1>2. /\ file["Alice"] = None /\ file["Bob"] = None
      /\ doing["Alice"] = None /\ doing["Bob"] = None
      /\ btc.lock = "none" /\ btc.sent = {} /\ btc.spent = None
      /\ cync.lock = "none" /\ cync.sent = {} /\ cync.spent = None
  BY DEF Init, Role
<1> QED
  BY <1>1, <1>2, SwapConstants DEF FundsInv, FileNotAhead, InState, State

\* The handshake and a crash aside, nothing but the commands and the chains
\* touches what the invariant reads.
LEMMA FundsUnchanged == FundsInv /\ UNCHANGED Funds => FundsInv'
  BY SMTT(30) DEF FundsInv, FundsTypeOK, FileNotAhead, InState, Funds

\* A new state file says Negotiated.
LEMMA StartInv == ASSUME FundsInv, NEW r \in Role, Start(r) PROVE FundsInv'
  BY SwapConstants, SMTT(30) DEF Start, FundsInv, FundsTypeOK, FileNotAhead, InState, Role, chains,
                       SwapFile, State

\* A save writes what the broadcast before it made true.
LEMMA SaveInv == ASSUME FundsInv, NEW r \in Role, Save(r) PROVE FundsInv'
  BY SwapConstants, SMTT(30) DEF Save, FundsInv, FundsTypeOK, FileNotAhead, InState, Role, chains,
                       SwapFile, State

\* A command that dies leaves its file as it was.
LEMMA CrashInv == ASSUME FundsInv, NEW r \in Role, Crash(r) PROVE FundsInv'
  BY SwapConstants, SMTT(30) DEF Crash, FundsInv, FundsTypeOK, FileNotAhead, InState, Role, chains,
                       SwapFile, State

\* cancel is for a file that says Negotiated.
LEMMA CancelInv == ASSUME FundsInv, NEW r \in Role, Cancel(r) PROVE FundsInv'
  BY SwapConstants, SMTT(30) DEF Cancel, Record, apply, AliceMay, BobMay, FundsInv, FundsTypeOK,
                       FileNotAhead, InState, Role, chains, SwapFile, State

\* lock-btc
LEMMA LockBtcInv == ASSUME FundsInv, LockBtc PROVE FundsInv'
  BY SwapConstants, SMTT(30) DEF LockBtc, Broadcast, WillSave, apply, AliceMay, BobMay, FundsInv,
                       FundsTypeOK, FileNotAhead, InState, Role, SwapFile, State

\* lock-cync: Alice has seen the BTC lock confirmed.
LEMMA LockCyncInv == ASSUME FundsInv, LockCync PROVE FundsInv'
  BY SwapConstants, SMTT(30) DEF LockCync, Broadcast, WillSave, apply_pre_cync_lock, FundsInv,
                       FundsTypeOK, FileNotAhead, InState, Role, SwapFile, State

\* claim-btc: Alice's file says that she has locked.
LEMMA ClaimBtcInv == ASSUME FundsInv, ClaimBtc PROVE FundsInv'
  BY SwapConstants, SMTT(30) DEF ClaimBtc, BroadcastSpend, WillSave, apply, AliceMay, BobMay, FundsInv,
                       FundsTypeOK, FileNotAhead, InState, Role, SwapFile, State

\* refund-btc
LEMMA RefundBtcInv == ASSUME FundsInv, RefundBtc PROVE FundsInv'
  BY SwapConstants, SMTT(30) DEF RefundBtc, BroadcastSpend, WillSave, apply, AliceMay, BobMay, FundsInv,
                       FundsTypeOK, FileNotAhead, InState, Role, SwapFile, State

\* claim-cync: Bob's file says SecretRevealed, so Alice's claim is mined.
LEMMA ClaimCyncInv == ASSUME FundsInv, ClaimCync PROVE FundsInv'
  BY SwapConstants, SMTT(30) DEF ClaimCync, BroadcastSpend, WillSave, apply, AliceMay, BobMay, FundsInv,
                       FundsTypeOK, FileNotAhead, InState, Role, SwapFile, State

\* refund-cync: Alice's file says BtcRefunded, so Bob's refund is mined.
LEMMA RefundCyncInv == ASSUME FundsInv, RefundCync PROVE FundsInv'
  BY SwapConstants, SMTT(30) DEF RefundCync, BroadcastSpend, WillSave, apply, AliceMay, BobMay, FundsInv,
                       FundsTypeOK, FileNotAhead, InState, Role, SwapFile, State

\* The observations that need no evidence: what they record is on the chain.
LEMMA ObserveInv ==
  ASSUME FundsInv, ObserveBobLocked \/ ObserveAliceLocked \/ ObserveCompleted PROVE FundsInv'
  BY SwapConstants, SMTT(30) DEF ObserveBobLocked, ObserveAliceLocked, ObserveCompleted, Observes, Record,
                       apply, AliceMay, BobMay, FundsInv, FundsTypeOK, FileNotAhead, InState,
                       Role, chains, SwapFile, State

\* A share is revealed by a mined claim or a mined refund.
LEMMA RevealInv ==
  ASSUME FundsInv, ObserveSecretRevealed \/ ObserveBtcRefunded PROVE FundsInv'
  BY SwapConstants, SMTT(30) DEF ObserveSecretRevealed, ObserveBtcRefunded, Record,
                       apply_verified_claim_reveal, apply_verified_refund_reveal, FundsInv,
                       FundsTypeOK, FileNotAhead, InState, Role, chains, SwapFile, State

\* The chains only confirm what was broadcast.
LEMMA MineInv == ASSUME FundsInv, Mine PROVE FundsInv'
<1>1. CASE MineBtcLock
  BY <1>1 DEF MineBtcLock, FundsInv, FundsTypeOK, FileNotAhead, InState
<1>2. CASE Mature
  <2>1. btc' \in [lock : {"none", "mempool", "chain"}, mature : BOOLEAN,
                  sent : SUBSET {"claim", "refund"}, spent : {None, "claim", "refund"}]
    BY <1>2, Zenon DEF Mature, FundsInv, FundsTypeOK
  <2>2. /\ UNCHANGED <<file, doing, cync>>
        /\ btc'.lock = btc.lock /\ btc'.sent = btc.sent /\ btc'.spent = btc.spent
    BY <1>2 DEF Mature, FundsInv, FundsTypeOK
  <2> QED
    BY <2>1, <2>2, SMTT(30) DEF FundsInv, FundsTypeOK, FileNotAhead, InState
<1>3. CASE MineBtcSpend
  BY <1>3, SwapConstants, SMTT(30) DEF MineBtcSpend, FundsInv, FundsTypeOK, FileNotAhead, InState
<1>4. CASE MineCyncLock
  BY <1>4, SMTT(30) DEF MineCyncLock, FundsInv, FundsTypeOK, FileNotAhead, InState
<1>5. CASE MineCyncSpend
  BY <1>5, SwapConstants, SMTT(30) DEF MineCyncSpend, FundsInv, FundsTypeOK, FileNotAhead, InState, Role
<1> QED
  BY <1>1, <1>2, <1>3, <1>4, <1>5 DEF Mine

\* The handshake moves no funds and writes no state file.
LEMMA HandshakeKeepsFunds ==
  ASSUME NEW r \in Role, SendMessage(r) \/ ReceiveMessage(r) \/ TimeOut(r) \/ Dial
  PROVE  UNCHANGED Funds
  BY DEF SendMessage, ReceiveMessage, TimeOut, Dial, Funds, chains

\* Every step keeps the invariant.
LEMMA NextInv == FundsInv /\ [Next]_vars => FundsInv'
<1> SUFFICES ASSUME FundsInv, [Next]_vars PROVE FundsInv'
  OBVIOUS
<1>1. CASE Dial
  BY <1>1, HandshakeKeepsFunds, FundsUnchanged DEF Role
<1>2. CASE \E r \in Role : SendMessage(r) \/ ReceiveMessage(r) \/ TimeOut(r)
  BY <1>2, HandshakeKeepsFunds, FundsUnchanged
<1>3. CASE \E r \in Role : Start(r) \/ Save(r) \/ Crash(r) \/ Cancel(r)
  BY <1>3, StartInv, SaveInv, CrashInv, CancelInv
<1>4. CASE LockBtc \/ LockCync \/ ClaimBtc \/ RefundBtc \/ ClaimCync \/ RefundCync
  BY <1>4, LockBtcInv, LockCyncInv, ClaimBtcInv, RefundBtcInv, ClaimCyncInv, RefundCyncInv
<1>5. CASE ObserveBobLocked \/ ObserveAliceLocked \/ ObserveCompleted
           \/ ObserveSecretRevealed \/ ObserveBtcRefunded
  BY <1>5, ObserveInv, RevealInv
<1>6. CASE Mine
  BY <1>6, MineInv
<1>7. CASE UNCHANGED vars
  BY <1>7, FundsUnchanged DEF vars, Funds, chains
<1> QED
  BY <1>1, <1>2, <1>3, <1>4, <1>5, <1>6, <1>7 DEF Next

---------------------------------------------------------------------------
\* HandshakeInv is inductive

\* The steps of run_alice and run_bob.
LEMMA ScriptSteps ==
  /\ Len(Script["Alice"]) = 7 /\ Len(Script["Bob"]) = 7
  /\ Script["Alice"][1] = Recv("Hello")
  /\ Script["Alice"][2] = Send("HelloAck")
  /\ Script["Alice"][3] = Recv("Accept")
  /\ Script["Bob"][1] = Send("Hello")
  /\ Script["Bob"][2] = Recv("HelloAck")
  /\ Script["Bob"][3] = Send("Accept")
  /\ \A r \in Role : /\ Script[r][4] = Send("AdaptorMaterial")
                     /\ Script[r][5] = Recv("AdaptorMaterial")
                     /\ Script[r][6] = Send("Ready")
                     /\ Script[r][7] = Recv("Ready")
  BY SMTT(30) DEF Script, Role, Recv, Send

\* The counts of messages at each step.
LEMMA Counts ==
  /\ \A r \in Role, k \in 1..8 : Got(r, k) \in 0..4 /\ Said(r, k) \in 0..4
  /\ \A r \in Role, k \in 1..7 :
        IF Script[r][k].op = "send"
        THEN Got(r, k + 1) = Got(r, k) /\ Said(r, k + 1) = Said(r, k) + 1
        ELSE Got(r, k + 1) = Got(r, k) + 1 /\ Said(r, k + 1) = Said(r, k)
  BY ScriptSteps, SMTT(30) DEF Got, Said, Role, Send, Recv

\* The letters of the two sides, one by one.
LEMMA Letters ==
  /\ Letter("Alice", Said("Bob", 1) + 1) = Message("Hello", file["Bob"].id)
  /\ Letter("Alice", Said("Bob", 3) + 1) = Message("Accept", None)
  /\ Letter("Alice", Said("Bob", 4) + 1) = Message("AdaptorMaterial", None)
  /\ Letter("Alice", Said("Bob", 6) + 1) = Message("Ready", None)
  /\ Letter("Bob", Said("Alice", 2) + 1) = Message("HelloAck", file["Alice"].terms)
  /\ Letter("Bob", Said("Alice", 4) + 1) = Message("AdaptorMaterial", None)
  /\ Letter("Bob", Said("Alice", 6) + 1) = Message("Ready", None)
  /\ opposite("Alice") = "Bob" /\ opposite("Bob") = "Alice"
<1>1. /\ Said("Bob", 1) + 1 = 1 /\ Said("Bob", 3) + 1 = 2 /\ Said("Bob", 4) + 1 = 3
      /\ Said("Bob", 6) + 1 = 4
      /\ Said("Alice", 2) + 1 = 1 /\ Said("Alice", 4) + 1 = 2 /\ Said("Alice", 6) + 1 = 3
  BY SMTT(30) DEF Said
<1> QED
  BY <1>1, SMTT(30) DEF Letter, opposite

\* A call that sends or accepts a message moves the session of one step on to the
\* session of the next.
LEMMA Sessions ==
  /\ NewSession = SessionAt(1)
  /\ start_bob(SessionAt(1)) = SessionAt(2)
  /\ handle_inbound(SessionAt(1), Letter("Alice", 1)) = SessionAt(2)
  /\ respond_with_hello_ack(SessionAt(2), file["Alice"].terms) = SessionAt(3)
  /\ handle_inbound(SessionAt(2), Letter("Bob", 1)) = SessionAt(3)
  /\ accept(SessionAt(3)) = SessionAt(4)
  /\ handle_inbound(SessionAt(3), Letter("Alice", 2)) = SessionAt(4)
  /\ send_adaptors(SessionAt(4)) = SessionAt(5)
  /\ handle_inbound(SessionAt(5), Letter("Alice", 3)) = SessionAt(6)
  /\ handle_inbound(SessionAt(5), Letter("Bob", 2)) = SessionAt(6)
  /\ SessionAt(7) = SessionAt(6)
<1> DEFINE terms == file["Alice"].terms
           In(phase, parameters, sent, received) ==
             [phase |-> phase, parameters |-> parameters,
              sent_adaptors |-> sent, received_adaptors |-> received]
<1>1. /\ SessionAt(1) = In("Initial", None, FALSE, FALSE)
      /\ SessionAt(2) = In("AwaitingAck", None, FALSE, FALSE)
      /\ SessionAt(3) = In("AwaitingAck", terms, FALSE, FALSE)
      /\ SessionAt(4) = In("ExchangingAdaptors", terms, FALSE, FALSE)
      /\ SessionAt(5) = In("ExchangingAdaptors", terms, TRUE, FALSE)
      /\ SessionAt(6) = In("AwaitingReady", terms, TRUE, TRUE)
      /\ SessionAt(7) = In("AwaitingReady", terms, TRUE, TRUE)
  BY DEF SessionAt
<1>2. /\ Letter("Alice", 1).kind = "Hello" /\ Letter("Alice", 2).kind = "Accept"
      /\ Letter("Alice", 3).kind = "AdaptorMaterial"
      /\ Letter("Bob", 1).kind = "HelloAck" /\ Letter("Bob", 1).body = terms
      /\ Letter("Bob", 2).kind = "AdaptorMaterial"
  BY DEF Letter, Message
<1>3. NewSession = SessionAt(1) /\ SessionAt(7) = SessionAt(6)
  BY <1>1 DEF NewSession
<1> DEFINE S == [phase : Phase, parameters : {None, terms},
                 sent_adaptors : BOOLEAN, received_adaptors : BOOLEAN]
<1>4. ASSUME NEW s \in S
      PROVE  start_bob(s) = In("AwaitingAck", s.parameters, s.sent_adaptors, s.received_adaptors)
  BY SMTT(30) DEF start_bob
<1>5. ASSUME NEW s \in S
      PROVE  respond_with_hello_ack(s, terms)
                = In(s.phase, terms, s.sent_adaptors, s.received_adaptors)
  BY SMTT(30) DEF respond_with_hello_ack
<1>6. ASSUME NEW s \in S
      PROVE  accept(s)
                = In("ExchangingAdaptors", s.parameters, s.sent_adaptors, s.received_adaptors)
  BY SMTT(30) DEF accept
<1>14. ASSUME NEW phase \in Phase, NEW parameters \in {None, terms}
       PROVE  In(phase, parameters, FALSE, FALSE) \in S
  OBVIOUS
<1>7. send_adaptors(In("ExchangingAdaptors", terms, FALSE, FALSE))
         = In("ExchangingAdaptors", terms, TRUE, FALSE)
  BY DEF send_adaptors, maybe_advance_to_awaiting_ready
<1>8. maybe_advance_to_awaiting_ready(
         [In("ExchangingAdaptors", terms, TRUE, FALSE) EXCEPT !.received_adaptors = TRUE])
         = In("AwaitingReady", terms, TRUE, TRUE)
  BY DEF maybe_advance_to_awaiting_ready
<1> HIDE DEF S
<1>15. ASSUME NEW phase \in Phase, NEW parameters \in {None, terms}
       PROVE  /\ start_bob(In(phase, parameters, FALSE, FALSE))
                    = In("AwaitingAck", parameters, FALSE, FALSE)
              /\ respond_with_hello_ack(In(phase, parameters, FALSE, FALSE), terms)
                    = In(phase, terms, FALSE, FALSE)
              /\ accept(In(phase, parameters, FALSE, FALSE))
                    = In("ExchangingAdaptors", parameters, FALSE, FALSE)
  BY <1>4, <1>5, <1>6, <1>14
<1> HIDE DEF In
<1>9. /\ start_bob(SessionAt(1)) = SessionAt(2)
      /\ respond_with_hello_ack(SessionAt(2), terms) = SessionAt(3)
      /\ accept(SessionAt(3)) = SessionAt(4)
  <2>1. "Initial" \in Phase /\ "AwaitingAck" \in Phase
    BY DEF Phase
  <2> QED
    BY <1>1, <1>15, <2>1, Zenon
<1> HIDE DEF In, terms
<1>10. \A s, m :
          /\ m.kind = "Hello" => handle_inbound(s, m) = start_bob(s)
          /\ m.kind = "HelloAck" => handle_inbound(s, m) = respond_with_hello_ack(s, m.body)
          /\ m.kind = "Accept" => handle_inbound(s, m) = accept(s)
          /\ m.kind = "AdaptorMaterial" =>
                handle_inbound(s, m) =
                   maybe_advance_to_awaiting_ready([s EXCEPT !.received_adaptors = TRUE])
  BY ZenonT(60) DEF handle_inbound, start_bob, respond_with_hello_ack, accept
<1>11. /\ handle_inbound(SessionAt(1), Letter("Alice", 1)) = SessionAt(2)
       /\ handle_inbound(SessionAt(2), Letter("Bob", 1)) = SessionAt(3)
       /\ handle_inbound(SessionAt(3), Letter("Alice", 2)) = SessionAt(4)
  BY <1>2, <1>9, <1>10, Zenon
<1>13. /\ handle_inbound(SessionAt(5), Letter("Alice", 3)) = SessionAt(6)
       /\ handle_inbound(SessionAt(5), Letter("Bob", 2)) = SessionAt(6)
  BY <1>1, <1>2, <1>8, <1>10, ZenonT(60)
<1>12. send_adaptors(SessionAt(4)) = SessionAt(5)
  BY <1>1, <1>7
<1> QED
  BY <1>3, <1>9, <1>11, <1>12, <1>13 DEF terms

\* A message that a driver sends is the next letter to the other side, and its
\* session is then the one of the next step.
LEMMA Sends ==
  ASSUME SwapInv, NEW r \in Role, SendMessage(r)
  PROVE  \E k \in 1..6 :
           /\ step[r] = k /\ Script[r][k].op = "send"
           /\ wire' = [wire EXCEPT ![opposite(r)] =
                          Append(@, Letter(opposite(r), Said(r, k) + 1))]
           /\ session' = [session EXCEPT ![r] = SessionAt(k + 1)]
           /\ step' = [step EXCEPT ![r] = k + 1]
           /\ UNCHANGED evidence
<1>1. step[r] \in 1..7 /\ session[r] = SessionAt(step[r])
  BY SMTT(30) DEF SwapInv, HandshakeInv, StreamOK, SendMessage
<1>2. \/ Says(r, "Hello", file[r].id, start_bob(session[r]))
      \/ Says(r, "HelloAck", file[r].terms, respond_with_hello_ack(session[r], file[r].terms))
      \/ Says(r, "Accept", None, accept(session[r]))
      \/ Says(r, "AdaptorMaterial", None, send_adaptors(session[r]))
      \/ Says(r, "Ready", None, session[r])
  BY DEF SendMessage
<1>3. ASSUME NEW k \in 1..6, step[r] = k, NEW kind, NEW body, NEW s, Says(r, kind, body, s)
      PROVE  /\ Script[r][k].op = "send"
             /\ wire' = [wire EXCEPT ![opposite(r)] = Append(@, Message(kind, body))]
             /\ session' = [session EXCEPT ![r] = s]
             /\ step' = [step EXCEPT ![r] = k + 1]
             /\ UNCHANGED evidence
  <2>1. Len(Script[r]) = 7 /\ step[r] # 7
    BY <1>3, ScriptSteps, SMTT(30) DEF Role
  <2> QED
    BY <1>3, <2>1, SMTT(30) DEF Says, Advance, Send
<1>4. CASE r = "Alice" /\ step[r] = 2
  <2>1. Says(r, "HelloAck", file[r].terms, respond_with_hello_ack(session[r], file[r].terms))
    BY <1>2, <1>4, ScriptSteps, SMTT(90) DEF Says, Send, Role
  <2>2. /\ respond_with_hello_ack(session[r], file[r].terms) = SessionAt(3)
        /\ Message("HelloAck", file[r].terms) = Letter(opposite(r), Said(r, 2) + 1)
    BY <1>1, <1>4, Sessions, Letters
  <2> QED
    BY <1>3, <1>4, <2>1, <2>2, SMTT(30)
<1>5. CASE r = "Bob" /\ step[r] = 1
  <2>1. Says(r, "Hello", file[r].id, start_bob(session[r]))
    BY <1>2, <1>5, ScriptSteps, SMTT(30) DEF Says, Send, Role
  <2>2. /\ start_bob(session[r]) = SessionAt(2)
        /\ Message("Hello", file[r].id) = Letter(opposite(r), Said(r, 1) + 1)
    BY <1>1, <1>5, Sessions, Letters
  <2> QED
    BY <1>3, <1>5, <2>1, <2>2, SMTT(30)
<1>6. CASE r = "Bob" /\ step[r] = 3
  <2>1. Says(r, "Accept", None, accept(session[r]))
    BY <1>2, <1>6, ScriptSteps, SMTT(30) DEF Says, Send, Role
  <2>2. /\ accept(session[r]) = SessionAt(4)
        /\ Message("Accept", None) = Letter(opposite(r), Said(r, 3) + 1)
    BY <1>1, <1>6, Sessions, Letters
  <2> QED
    BY <1>3, <1>6, <2>1, <2>2, SMTT(30)
<1>7. CASE r = "Alice" /\ step[r] = 4
  <2>1. Says(r, "AdaptorMaterial", None, send_adaptors(session[r]))
    BY <1>2, <1>7, ScriptSteps, SMTT(30) DEF Says, Send, Role
  <2>2. /\ send_adaptors(session[r]) = SessionAt(5)
        /\ Message("AdaptorMaterial", None) = Letter(opposite(r), Said(r, 4) + 1)
    BY <1>1, <1>7, Sessions, Letters
  <2> QED
    BY <1>3, <1>7, <2>1, <2>2, SMTT(30)
<1>8. CASE r = "Bob" /\ step[r] = 4
  <2>1. Says(r, "AdaptorMaterial", None, send_adaptors(session[r]))
    BY <1>2, <1>8, ScriptSteps, SMTT(30) DEF Says, Send, Role
  <2>2. /\ send_adaptors(session[r]) = SessionAt(5)
        /\ Message("AdaptorMaterial", None) = Letter(opposite(r), Said(r, 4) + 1)
    BY <1>1, <1>8, Sessions, Letters
  <2> QED
    BY <1>3, <1>8, <2>1, <2>2, SMTT(30)
<1>9. CASE r = "Alice" /\ step[r] = 6
  <2>1. Says(r, "Ready", None, session[r])
    BY <1>2, <1>9, ScriptSteps, SMTT(30) DEF Says, Send, Role
  <2>2. /\ session[r] = SessionAt(7)
        /\ Message("Ready", None) = Letter(opposite(r), Said(r, 6) + 1)
    BY <1>1, <1>9, Sessions, Letters
  <2> QED
    BY <1>3, <1>9, <2>1, <2>2, SMTT(30)
<1>10. CASE r = "Bob" /\ step[r] = 6
  <2>1. Says(r, "Ready", None, session[r])
    BY <1>2, <1>10, ScriptSteps, SMTT(30) DEF Says, Send, Role
  <2>2. /\ session[r] = SessionAt(7)
        /\ Message("Ready", None) = Letter(opposite(r), Said(r, 6) + 1)
    BY <1>1, <1>10, Sessions, Letters
  <2> QED
    BY <1>3, <1>10, <2>1, <2>2, SMTT(30)
<1>11. \/ r = "Alice" /\ step[r] \in {2, 4, 6}
       \/ r = "Bob" /\ step[r] \in {1, 3, 4, 6}
  BY <1>1, <1>2, ScriptSteps, SMTT(30) DEF Says, Recv, Send, Role
<1> QED
  BY <1>4, <1>5, <1>6, <1>7, <1>8, <1>9, <1>10, <1>11

\* Steps that leave the files alone leave the letters and the sessions alone.
LEMMA SameFiles ==
  ASSUME file'["Alice"].terms = file["Alice"].terms, file'["Bob"].id = file["Bob"].id
  PROVE  /\ \A k : SessionAt(k)' = SessionAt(k)
         /\ \A r, i : Letter(r, i)' = Letter(r, i)
         /\ \A r \in Role : SessionAt(step[r])' = SessionAt(step'[r])
         /\ \A r, i : Letter(r, Got(r, step[r]) + i)' = Letter(r, Got(r, step'[r]) + i)
  BY DEF SessionAt, Letter

\* The sessions and the letters are well formed once both files exist.
LEMMA LettersType ==
  ASSUME SwapTypeOK, file["Alice"] # None, file["Bob"] # None
  PROVE  /\ \A k \in 1..7 : SessionAt(k) \in Session
         /\ \A i \in 1..4 : Letter("Alice", i) \in [kind : Kind, body : SwapId \cup Terms \cup {None}]
         /\ \A i \in 1..3 : Letter("Bob", i) \in [kind : Kind, body : SwapId \cup Terms \cup {None}]
<1>1. file["Alice"].terms \in Terms /\ file["Bob"].id \in SwapId
  BY DEF SwapTypeOK, FundsTypeOK, SwapFile, Role
<1>2. ASSUME NEW k \in 1..7
      PROVE  SessionAt(k) \in Session
  <2> DEFINE In(phase, parameters, sent, received) ==
               [phase |-> phase, parameters |-> parameters,
                sent_adaptors |-> sent, received_adaptors |-> received]
  <2>1. \A phase \in Phase, parameters \in Terms \cup {None}, sent, received \in BOOLEAN :
           In(phase, parameters, sent, received) \in Session
    BY DEF Session
  <2>2. {"Initial", "AwaitingAck", "ExchangingAdaptors", "AwaitingReady"} \subseteq Phase
    BY DEF Phase
  <2>3. /\ SessionAt(1) = In("Initial", None, FALSE, FALSE)
        /\ SessionAt(2) = In("AwaitingAck", None, FALSE, FALSE)
        /\ SessionAt(3) = In("AwaitingAck", file["Alice"].terms, FALSE, FALSE)
        /\ SessionAt(4) = In("ExchangingAdaptors", file["Alice"].terms, FALSE, FALSE)
        /\ SessionAt(5) = In("ExchangingAdaptors", file["Alice"].terms, TRUE, FALSE)
        /\ SessionAt(6) = In("AwaitingReady", file["Alice"].terms, TRUE, TRUE)
        /\ SessionAt(7) = In("AwaitingReady", file["Alice"].terms, TRUE, TRUE)
    BY DEF SessionAt
  <2> HIDE DEF In
  <2>4. /\ SessionAt(1) \in Session /\ SessionAt(2) \in Session /\ SessionAt(3) \in Session
        /\ SessionAt(4) \in Session /\ SessionAt(5) \in Session /\ SessionAt(6) \in Session
        /\ SessionAt(7) \in Session
    BY <1>1, <2>1, <2>2, <2>3
  <2>5. k \in {1, 2, 3, 4, 5, 6, 7}
    BY SMTT(30)
  <2> QED
    BY <2>4, <2>5
<1>3. ASSUME NEW i \in 1..4
      PROVE  Letter("Alice", i) \in [kind : Kind, body : SwapId \cup Terms \cup {None}]
  BY <1>1, SMTT(30) DEF Letter, Message, Kind
<1>4. ASSUME NEW i \in 1..3
      PROVE  Letter("Bob", i) \in [kind : Kind, body : SwapId \cup Terms \cup {None}]
  BY <1>1, SMTT(30) DEF Letter, Message, Kind
<1> QED
  BY <1>2, <1>3, <1>4

\* What a driver reads is the letter its step waits for.
LEMMA Reads ==
  ASSUME SwapInv, NEW r \in Role,
         step[r] # 0, Script[r][step[r]].op = "recv", wire[r] # <<>>
  PROVE  /\ session[r] = SessionAt(step[r])
         /\ \/ r = "Alice" /\ step[r] = 1 /\ Head(wire[r]) = Message("Hello", file["Bob"].id)
            \/ r = "Alice" /\ step[r] = 3 /\ Head(wire[r]) = Message("Accept", None)
            \/ r = "Bob" /\ step[r] = 2 /\ Head(wire[r]) = Message("HelloAck", file["Alice"].terms)
            \/ step[r] = 5 /\ Head(wire[r]) = Message("AdaptorMaterial", None)
            \/ step[r] = 7 /\ Head(wire[r]) = Message("Ready", None)
<1>1. /\ step[r] \in 1..7 /\ StreamOK(r)
      /\ wire[r] \in Seq([kind : Kind, body : SwapId \cup Terms \cup {None}])
  <2>1. /\ step \in [Role -> 0..7] /\ \A q \in Role : step[q] # 0 => StreamOK(q)
        /\ wire \in [Role -> Seq([kind : Kind, body : SwapId \cup Terms \cup {None}])]
    BY DEF SwapInv, HandshakeInv
  <2>2. step[r] \in 1..7
    BY <2>1, SMTT(30)
  <2> QED
    BY <2>1, <2>2, Zenon
<1>2. Head(wire[r]) = Letter(r, Got(r, step[r]) + 1) /\ session[r] = SessionAt(step[r])
  <2>1. Len(wire[r]) \in Nat \ {0} /\ Head(wire[r]) = wire[r][1]
    BY <1>1, SMTT(30)
  <2> QED
    BY <1>1, <2>1, SMTT(30) DEF StreamOK
<1>3. \/ r = "Alice" /\ step[r] \in {1, 3, 5, 7}
      \/ r = "Bob" /\ step[r] \in {2, 5, 7}
  BY <1>1, ScriptSteps, SMTT(30) DEF Send, Role
<1>4. /\ Got("Alice", 1) + 1 = 1 /\ Got("Alice", 3) + 1 = 2 /\ Got("Alice", 5) + 1 = 3
      /\ Got("Alice", 7) + 1 = 4
      /\ Got("Bob", 2) + 1 = 1 /\ Got("Bob", 5) + 1 = 2 /\ Got("Bob", 7) + 1 = 3
  BY SMTT(30) DEF Got
<1>5. /\ Letter("Alice", 1) = Message("Hello", file["Bob"].id)
      /\ Letter("Alice", 2) = Message("Accept", None)
      /\ Letter("Alice", 3) = Message("AdaptorMaterial", None)
      /\ Letter("Alice", 4) = Message("Ready", None)
      /\ Letter("Bob", 1) = Message("HelloAck", file["Alice"].terms)
      /\ Letter("Bob", 2) = Message("AdaptorMaterial", None)
      /\ Letter("Bob", 3) = Message("Ready", None)
  BY DEF Letter
<1> QED
  BY <1>2, <1>3, <1>4, <1>5

\* A message that a driver accepts gives it the session of the next step, and the
\* last one its evidence.
LEMMA Receives ==
  ASSUME SwapInv, NEW r \in Role,
         step[r] # 0, Script[r][step[r]].op = "recv", wire[r] # <<>>,
         Advance(r, handle_inbound(session[r], Head(wire[r])))
  PROVE  \/ /\ step[r] \in 1..6
            /\ session' = [session EXCEPT ![r] = SessionAt(step[r] + 1)]
            /\ step' = [step EXCEPT ![r] = @ + 1]
            /\ UNCHANGED evidence
         \/ /\ step[r] = 7
            /\ \E s \in Session : session' = [session EXCEPT ![r] = s]
            /\ step' = [step EXCEPT ![r] = 0]
            /\ evidence' = [evidence EXCEPT ![r] =
                               [id |-> file[r].id, terms |-> file["Alice"].terms]]
<1>1. /\ session[r] = SessionAt(step[r])
      /\ \/ r = "Alice" /\ step[r] = 1 /\ Head(wire[r]) = Message("Hello", file["Bob"].id)
         \/ r = "Alice" /\ step[r] = 3 /\ Head(wire[r]) = Message("Accept", None)
         \/ r = "Bob" /\ step[r] = 2 /\ Head(wire[r]) = Message("HelloAck", file["Alice"].terms)
         \/ step[r] = 5 /\ Head(wire[r]) = Message("AdaptorMaterial", None)
         \/ step[r] = 7 /\ Head(wire[r]) = Message("Ready", None)
  BY Reads
<1>2. Len(Script[r]) = 7
  BY ScriptSteps DEF Role
<1> DEFINE s == handle_inbound(session[r], Head(wire[r]))
<1>3. /\ session' = [session EXCEPT ![r] = s]
      /\ step[r] # 7 => step' = [step EXCEPT ![r] = @ + 1] /\ UNCHANGED evidence
      /\ step[r] = 7 =>
            /\ step' = [step EXCEPT ![r] = 0]
            /\ evidence' = [evidence EXCEPT ![r] = [id |-> file[r].id, terms |-> s.parameters]]
  BY <1>2 DEF Advance
<1>4. /\ Letter("Alice", 1) = Message("Hello", file["Bob"].id)
      /\ Letter("Alice", 2) = Message("Accept", None)
      /\ Letter("Alice", 3) = Message("AdaptorMaterial", None)
      /\ Letter("Bob", 1) = Message("HelloAck", file["Alice"].terms)
  BY DEF Letter
<1>5. CASE step[r] # 7
  <2>1. s = SessionAt(step[r] + 1) /\ step[r] \in 1..6
    <3> HIDE DEF s
    <3>1. CASE step[r] = 1
      BY <1>1, <1>4, <3>1, Sessions, SMTT(30) DEF s
    <3>2. CASE step[r] = 2
      BY <1>1, <1>4, <3>2, Sessions, SMTT(30) DEF s
    <3>3. CASE step[r] = 3
      BY <1>1, <1>4, <3>3, Sessions, SMTT(30) DEF s
    <3>4. CASE step[r] = 5
      BY <1>1, <1>4, <3>4, Sessions, SMTT(30) DEF s
    <3> QED
      BY <1>1, <1>5, <3>1, <3>2, <3>3, <3>4
  <2> HIDE DEF s
  <2> QED
    BY <1>3, <1>5, <2>1
<1>6. CASE step[r] = 7
  <2>1. SwapTypeOK /\ file["Alice"] # None /\ file["Bob"] # None
    BY <1>6 DEF SwapInv, HandshakeInv, StreamOK
  <2>2. session[r] \in Session /\ session[r].parameters = file["Alice"].terms
    <3>1. SessionAt(7) \in Session
      BY <2>1, LettersType, SMTT(30)
    <3>2. SessionAt(7).parameters = file["Alice"].terms
      BY DEF SessionAt
    <3> QED
      BY <1>1, <1>6, <3>1, <3>2
  <2>3. s = [session[r] EXCEPT !.phase = "Negotiated"]
    <3>1. Head(wire[r]).kind = "Ready"
      BY <1>1, <1>6, SMTT(30) DEF Message
    <3> QED
      BY <3>1, Zenon DEF handle_inbound
  <2>4. s \in Session /\ s.parameters = file["Alice"].terms
    <3> HIDE DEF s
    <3> QED
      BY <2>2, <2>3 DEF Session, Phase
  <2> HIDE DEF s
  <2> QED
    BY <1>3, <1>6, <2>4
<1> QED
  BY <1>5, <1>6

\* What HandshakeInv says of a role in one step.
LEMMA Facts ==
  ASSUME SwapInv, NEW r \in Role
  PROVE  /\ opposite(r) \in Role /\ opposite(r) # r /\ opposite(opposite(r)) = r
         /\ Role = {r, opposite(r)}
         /\ step[r] \in 0..7 /\ step \in [Role -> 0..7]
         /\ session \in [Role -> Session]
         /\ wire \in [Role -> Seq([kind : Kind, body : SwapId \cup Terms \cup {None}])]
         /\ wire[r] \in Seq([kind : Kind, body : SwapId \cup Terms \cup {None}])
         /\ step[r] # 0 => StreamOK(r) /\ Len(wire[r]) \in Nat
         /\ SwapTypeOK
<1>1. /\ step \in [Role -> 0..7] /\ session \in [Role -> Session]
      /\ wire \in [Role -> Seq([kind : Kind, body : SwapId \cup Terms \cup {None}])]
      /\ \A q \in Role : step[q] # 0 => StreamOK(q)
      /\ SwapTypeOK
  BY DEF SwapInv, HandshakeInv
<1>2. /\ opposite(r) \in Role /\ opposite(r) # r /\ opposite(opposite(r)) = r
      /\ Role = {r, opposite(r)}
  BY DEF opposite, Role
<1>3. step[r] \in 0..7
  BY <1>1
<1>4. wire[r] \in Seq([kind : Kind, body : SwapId \cup Terms \cup {None}])
  BY <1>1, Zenon
<1>5. Len(wire[r]) \in Nat
  BY <1>4, SMTT(30)
<1> QED
  BY <1>1, <1>2, <1>3, <1>4, <1>5, Zenon

\* Sending keeps the streams: the letter is the next one to the other side.
LEMMA SendStreams ==
  ASSUME SwapInv, NEW r \in Role, SendMessage(r)
  PROVE  \A q \in Role : (step[q] # 0 => StreamOK(q))'
<1> DEFINE o == opposite(r)
<1>1. PICK k \in 1..6 :
           /\ step[r] = k /\ Script[r][k].op = "send"
           /\ wire' = [wire EXCEPT ![o] = Append(@, Letter(o, Said(r, k) + 1))]
           /\ session' = [session EXCEPT ![r] = SessionAt(k + 1)]
           /\ step' = [step EXCEPT ![r] = k + 1]
           /\ UNCHANGED evidence
  BY Sends
<1>2. /\ o \in Role /\ o # r /\ opposite(o) = r /\ Role = {r, o}
      /\ StreamOK(r) /\ step[o] \in 0..7
      /\ step[o] # 0 => StreamOK(o)
      /\ step \in [Role -> 0..7] /\ session \in [Role -> Session]
      /\ wire \in [Role -> Seq([kind : Kind, body : SwapId \cup Terms \cup {None}])]
      /\ wire[o] \in Seq([kind : Kind, body : SwapId \cup Terms \cup {None}])
      /\ Len(wire[r]) \in Nat /\ Len(wire[o]) \in Nat
  <2>1. o \in Role /\ step[r] # 0
    BY <1>1, Facts, SMTT(30)
  <2> HIDE DEF o
  <2>2. o = opposite(r)
    BY DEF o
  <2>3. Len(wire[o]) \in Nat
    <3>1. wire[o] \in Seq([kind : Kind, body : SwapId \cup Terms \cup {None}])
      BY Facts, <2>1, Zenon
    <3> QED
      BY <3>1, SMTT(30)
  <2> QED
    BY Facts, <2>1, <2>2, <2>3, Zenon
<1>3. UNCHANGED file /\ file'["Alice"].terms = file["Alice"].terms /\ file'["Bob"].id = file["Bob"].id
  BY DEF SendMessage
<1> HIDE DEF o
<1>4. /\ step'[r] = k + 1 /\ step'[o] = step[o]
      /\ session'[r] = SessionAt(k + 1) /\ session'[o] = session[o]
      /\ wire'[r] = wire[r] /\ wire'[o] = Append(wire[o], Letter(o, Said(r, k) + 1))
  BY <1>1, <1>2, Zenon
<1>5. Got(r, k + 1) = Got(r, k) /\ Said(r, k + 1) = Said(r, k) + 1 /\ Said(r, k) \in 0..4
  BY <1>1, Counts, SMTT(30)
<1>6. StreamOK(r)'
  <2>1. /\ file["Alice"] # None /\ file["Bob"] # None
        /\ \A i \in 1..Len(wire[r]) : wire[r][i] = Letter(r, Got(r, step[r]) + i)
        /\ IF step[o] = 0 THEN Reach(r) <= Said(o, 8) ELSE Reach(r) = Said(o, step[o])
        /\ Reach(r) = Got(r, step[r]) + Len(wire[r])
    BY <1>2 DEF StreamOK, Reach, o
  <2>2. session'[r] = SessionAt(step[r])'
    BY <1>3, <1>4, SameFiles
  <2>3. \A i \in 1..Len(wire'[r]) : wire'[r][i] = Letter(r, Got(r, step[r]) + i)'
    BY <1>1, <1>3, <1>4, <1>5, <2>1, SameFiles, SMTT(30)
  <2>4. Reach(r)' = Reach(r)
    BY <1>1, <1>4, <1>5 DEF Reach
  <2> QED
    BY <1>3, <1>4, <2>1, <2>2, <2>3, <2>4, Zenon DEF StreamOK, o
<1>7. ASSUME step'[o] # 0
      PROVE  StreamOK(o)'
  <2>1. /\ file["Alice"] # None /\ file["Bob"] # None
        /\ session[o] = SessionAt(step[o])
        /\ \A i \in 1..Len(wire[o]) : wire[o][i] = Letter(o, Got(o, step[o]) + i)
        /\ Reach(o) = Said(r, k)
        /\ Reach(o) = Got(o, step[o]) + Len(wire[o])
        /\ Got(o, step[o]) \in 0..4
    <3>1. StreamOK(o) /\ step[opposite(o)] = k /\ k # 0 /\ step[o] \in 1..8
      BY <1>1, <1>2, <1>4, <1>7, SMTT(30)
    <3>2. Got(o, step[o]) \in 0..4
      BY <1>2, <3>1, Counts
    <3> QED
      BY <1>2, <3>1, <3>2 DEF StreamOK, Reach
  <2>2. session'[o] = SessionAt(step[o])'
    BY <1>3, <1>4, <2>1, SameFiles
  <2>3. Len(wire'[o]) = Len(wire[o]) + 1
    BY <1>2, <1>4, SMTT(30)
  <2>4. ASSUME NEW i \in 1..Len(wire'[o])
        PROVE  wire'[o][i] = Letter(o, Got(o, step[o]) + i)'
    <3>1. Letter(o, Got(o, step[o]) + i)' = Letter(o, Got(o, step[o]) + i)
      BY <1>3, <1>4, SameFiles
    <3>2. CASE i \in 1..Len(wire[o])
      <4>1. wire'[o][i] = wire[o][i]
        BY <1>2, <1>4, <3>2, SMTT(30)
      <4> QED
        BY <2>1, <3>1, <3>2, <4>1
    <3>3. CASE i = Len(wire[o]) + 1
      <4>1. wire'[o][i] = Letter(o, Said(r, k) + 1)
        BY <1>2, <1>4, <3>3, SMTT(30)
      <4>2. Said(r, k) + 1 = Got(o, step[o]) + i
        BY <1>2, <2>1, <3>3, <1>5, SMTT(30)
      <4> QED
        BY <3>1, <4>1, <4>2
    <3> QED
      BY <1>2, <2>3, <3>2, <3>3, SMTT(30)
  <2>5. Reach(o)' = Said(r, k + 1)
    BY <1>2, <1>4, <1>5, <2>1, <2>3, SMTT(30) DEF Reach
  <2>6. step'[opposite(o)] = k + 1 /\ k + 1 # 0
    BY <1>2, <1>4, SMTT(30)
  <2>7. Reach(o)' = Said(opposite(o), step[opposite(o)])'
    BY <1>2, <2>5, <2>6
  <2> QED
    BY <1>3, <2>1, <2>2, <2>4, <2>6, <2>7 DEF StreamOK
<1> QED
  BY <1>2, <1>6, <1>7, Zenon

\* Sending keeps HandshakeInv: who says HelloAck or Ready may do so.
LEMMA SendKeeps == ASSUME SwapInv, NEW r \in Role, SendMessage(r) PROVE HandshakeInv'
<1> DEFINE o == opposite(r)
           Mail == [kind : Kind, body : SwapId \cup Terms \cup {None}]
<1>1. PICK k \in 1..6 :
           /\ step[r] = k /\ Script[r][k].op = "send"
           /\ wire' = [wire EXCEPT ![o] = Append(@, Letter(o, Said(r, k) + 1))]
           /\ session' = [session EXCEPT ![r] = SessionAt(k + 1)]
           /\ step' = [step EXCEPT ![r] = k + 1]
           /\ UNCHANGED evidence
  BY Sends
<1>2. /\ o \in Role /\ o # r /\ Role = {r, o}
      /\ StreamOK(r) /\ step[o] \in 0..7
      /\ step[o] # 0 => StreamOK(o)
      /\ step \in [Role -> 0..7] /\ session \in [Role -> Session]
      /\ wire \in [Role -> Seq(Mail)] /\ wire[o] \in Seq(Mail) /\ SwapTypeOK
  <2>1. o \in Role /\ step[r] # 0
    BY <1>1, Facts, SMTT(30)
  <2> HIDE DEF o
  <2>2. o = opposite(r)
    BY DEF o
  <2> QED
    BY Facts, <2>1, <2>2, Zenon
<1>3. UNCHANGED <<file, doing, verified, evidence, btc, cync>>
  BY <1>1 DEF SendMessage, chains
<1>4. /\ step["Alice"] > 1 \/ step["Bob"] > 2 => SameSwap
      /\ step["Bob"] # 0 /\ Reach("Bob") > 0 => SameSwap
      /\ \A q \in Role : step[q] > 5 => q \in verified
      /\ step["Bob"] # 0 /\ Reach("Bob") = 3 => "Alice" \in verified
      /\ verified \subseteq Role
  BY DEF SwapInv, HandshakeInv
<1>5. \/ r = "Alice" /\ k \in {2, 4, 6} /\ o = "Bob"
      \/ r = "Bob" /\ k \in {1, 3, 4, 6} /\ o = "Alice"
  BY <1>1, ScriptSteps, SMTT(30) DEF Recv, Role, opposite
<1>6. Letter(o, Said(r, k) + 1) \in Mail
  <2>1. file["Alice"] # None /\ file["Bob"] # None
    BY <1>2 DEF StreamOK
  <2>2. /\ Said("Alice", 2) = 0 /\ Said("Alice", 4) = 1 /\ Said("Alice", 6) = 2
        /\ Said("Bob", 1) = 0 /\ Said("Bob", 3) = 1 /\ Said("Bob", 4) = 2 /\ Said("Bob", 6) = 3
    BY DEF Said
  <2>3. r = "Alice" => Said(r, k) + 1 \in 1..3
    BY <1>5, <2>2, SMTT(30)
  <2>4. r = "Bob" => Said(r, k) + 1 \in 1..4
    BY <1>5, <2>2, SMTT(30)
  <2> QED
    BY <1>2, <1>5, <2>1, <2>3, <2>4, LettersType, Zenon
<1>7. SessionAt(k + 1) \in Session
  <2>1. file["Alice"] # None /\ file["Bob"] # None /\ k + 1 \in 1..7
    BY <1>2, SMTT(30) DEF StreamOK
  <2> QED
    BY <1>2, <2>1, LettersType
<1>8. step' \in [Role -> 0..7] /\ session' \in [Role -> Session]
  <2>1. k + 1 \in 0..7
    BY SMTT(30)
  <2> QED
    BY <1>1, <1>2, <1>7, <2>1, Zenon
<1>9. wire' \in [Role -> Seq(Mail)]
  <2>1. Append(wire[o], Letter(o, Said(r, k) + 1)) \in Seq(Mail)
    <3> HIDE DEF Mail
    <3> QED
      BY <1>2, <1>6, SMTT(30)
  <2> QED
    BY <1>1, <1>2, <2>1, Zenon
<1>10. \A q \in Role : (step[q] # 0 => StreamOK(q))'
  BY SendStreams
<1> HIDE DEF o
<1>11. step'[r] = k + 1 /\ step'[o] = step[o]
  BY <1>1, <1>2
<1>12. SameSwap' = SameSwap
  BY <1>3 DEF SameSwap
<1>13. (step["Alice"] > 1 \/ step["Bob"] > 2 => SameSwap)'
  BY <1>1, <1>4, <1>5, <1>11, <1>12, SMTT(30)
<1>14. (step["Bob"] # 0 /\ Reach("Bob") > 0 => SameSwap)'
  <2>1. CASE r = "Alice"
    BY <1>1, <1>4, <1>5, <1>12, <2>1, SMTT(30)
  <2>2. CASE r = "Bob"
    <3>1. wire'["Bob"] = wire["Bob"] /\ Got("Bob", k + 1) = Got("Bob", k)
      BY <1>1, <1>2, <1>5, <2>2, Counts, SMTT(30)
    <3> QED
      BY <1>1, <1>4, <1>11, <1>12, <2>2, <3>1, SMTT(30) DEF Reach
  <2> QED
    BY <1>5, <2>1, <2>2
<1>15. \A q \in Role : (step[q] > 5 => q \in verified)'
  BY <1>1, <1>2, <1>3, <1>4, <1>5, <1>11, SMTT(30)
<1>16. (step["Bob"] # 0 /\ Reach("Bob") = 3 => "Alice" \in verified)'
  <2>1. CASE r = "Alice"
    <3>1. ASSUME step'["Bob"] # 0, Reach("Bob")' = 3
          PROVE  k = 6
      <4>1. StreamOK("Bob")'
        BY <1>10, <3>1 DEF Role
      <4>2. Said("Alice", k + 1) = 3
        BY <1>5, <1>11, <2>1, <3>1, <4>1, SMTT(30) DEF StreamOK, opposite
      <4> QED
        BY <1>5, <2>1, <4>2, SMTT(30) DEF Said
    <3> QED
      BY <1>1, <1>3, <1>4, <2>1, <3>1, SMTT(30)
  <2>2. CASE r = "Bob"
    <3>1. wire'["Bob"] = wire["Bob"] /\ Got("Bob", k + 1) = Got("Bob", k)
      BY <1>1, <1>2, <1>5, <2>2, Counts, SMTT(30)
    <3> QED
      BY <1>1, <1>3, <1>4, <1>11, <2>2, <3>1, SMTT(30) DEF Reach
  <2> QED
    BY <1>5, <2>1, <2>2
<1>17. (/\ SwapTypeOK /\ verified \subseteq Role
        /\ evidence["Bob"] # None =>
              /\ file["Alice"] # None /\ file["Bob"] # None
              /\ SameSwap /\ verified = Role
              /\ evidence["Bob"].terms = file["Alice"].terms
        /\ btc.lock # "none" => file["Alice"] # None /\ file["Bob"] # None
        /\ AgreedBeforeLock)'
  BY <1>3 DEF SwapInv, HandshakeInv, SwapTypeOK, FundsTypeOK, AgreedBeforeLock, SameSwap
<1> QED
  BY <1>8, <1>9, <1>10, <1>13, <1>14, <1>15, <1>16, <1>17, Zenon DEF HandshakeInv

\* The stream to the other side stays as it is when a driver sends nothing, be it
\* that it goes on or that it stops.
LEMMA OtherStream ==
  ASSUME SwapInv, NEW r \in Role, NEW o \in Role, o = opposite(r),
         step[r] # 0, step'[o] # 0, UNCHANGED file,
         step'[o] = step[o], session'[o] = session[o], wire'[o] = wire[o],
         \/ step'[r] = 0
         \/ step'[r] # 0 /\ Said(r, step'[r]) = Said(r, step[r])
  PROVE  StreamOK(o)' /\ Reach(o)' = Reach(o)
<1>1. opposite(o) = r /\ step[r] \in 1..7 /\ StreamOK(o) /\ step[o] \in 1..7
  <2>1. opposite(o) = r /\ step[r] \in 0..7 /\ step[o] \in 0..7 /\ StreamOK(o)
    BY Facts, Zenon
  <2> QED
    BY <2>1, SMTT(30)
<1>2. file'["Alice"].terms = file["Alice"].terms /\ file'["Bob"].id = file["Bob"].id
  OBVIOUS
<1>3. /\ file["Alice"] # None /\ file["Bob"] # None
      /\ session[o] = SessionAt(step[o])
      /\ \A i \in 1..Len(wire[o]) : wire[o][i] = Letter(o, Got(o, step[o]) + i)
      /\ Reach(o) = Said(r, step[r])
  BY <1>1 DEF StreamOK
<1>4. session'[o] = SessionAt(step[o])'
  BY <1>2, <1>3, SameFiles
<1>5. \A i \in 1..Len(wire'[o]) : wire'[o][i] = Letter(o, Got(o, step[o]) + i)'
  BY <1>2, <1>3, SameFiles, SMTT(30)
<1>6. Reach(o)' = Reach(o)
  BY DEF Reach
<1>7. IF step'[r] = 0 THEN Reach(o)' <= Said(r, 8) ELSE Reach(o)' = Said(r, step'[r])
  <2>1. Said(r, step[r]) <= Said(r, 8)
    BY <1>1, SMTT(30) DEF Said, Role
  <2> QED
    BY <1>3, <1>6, <2>1
<1> QED
  BY <1>1, <1>3, <1>4, <1>5, <1>6, <1>7 DEF StreamOK

\* Accepting a letter keeps the stream: one more received, one less on the wire.
LEMMA OwnStream ==
  ASSUME SwapInv, NEW r \in Role,
         step[r] \in 1..6, Script[r][step[r]].op = "recv", wire[r] # <<>>, UNCHANGED file,
         session'[r] = SessionAt(step[r] + 1), step'[r] = step[r] + 1,
         step'[opposite(r)] = step[opposite(r)], wire'[r] = Tail(wire[r])
  PROVE  StreamOK(r)' /\ Reach(r)' = Reach(r)
<1> DEFINE k == step[r]
<1>1. StreamOK(r) /\ wire[r] \in Seq([kind : Kind, body : SwapId \cup Terms \cup {None}])
  <2>1. step[r] # 0
    BY SMTT(30)
  <2> QED
    BY <2>1, Facts, Zenon
<1>2. file'["Alice"].terms = file["Alice"].terms /\ file'["Bob"].id = file["Bob"].id
  OBVIOUS
<1>3. /\ Got(r, k + 1) = Got(r, k) + 1 /\ Got(r, k) \in 0..4
  <2>1. k \in 1..7 /\ k \in 1..8 /\ Script[r][k].op # "send"
    BY SMTT(30)
  <2> HIDE DEF k
  <2> QED
    BY <2>1, Counts
<1>4. /\ Len(wire[r]) \in Nat \ {0} /\ Len(wire'[r]) = Len(wire[r]) - 1
      /\ \A i \in 1..Len(wire'[r]) : wire'[r][i] = wire[r][i + 1]
  <2>1. wire[r] \in Seq([kind : Kind, body : SwapId \cup Terms \cup {None}]) /\ wire[r] # <<>>
    BY <1>1
  <2> QED
    BY <2>1, SMTT(30)
<1>5. /\ file["Alice"] # None /\ file["Bob"] # None
      /\ \A i \in 1..Len(wire[r]) : wire[r][i] = Letter(r, Got(r, k) + i)
      /\ IF step[opposite(r)] = 0 THEN Reach(r) <= Said(opposite(r), 8)
         ELSE Reach(r) = Said(opposite(r), step[opposite(r)])
  BY <1>1 DEF StreamOK
<1>6. session'[r] = SessionAt(step[r])'
  BY <1>2, SameFiles
<1>7. ASSUME NEW i \in 1..Len(wire'[r])
      PROVE  wire'[r][i] = Letter(r, Got(r, step[r]) + i)'
  <2>1. wire'[r][i] = Letter(r, Got(r, k) + (i + 1)) /\ i + 1 \in 1..Len(wire[r])
    BY <1>4, <1>5, SMTT(30)
  <2>2. Got(r, k) + (i + 1) = Got(r, step'[r]) + i
    BY <1>3, <1>4, SMTT(30)
  <2> QED
    BY <1>2, <2>1, <2>2, SameFiles
<1>8. Reach(r)' = Reach(r)
  BY <1>3, <1>4, SMTT(30) DEF Reach
<1> QED
  BY <1>5, <1>6, <1>7, <1>8, Zenon DEF StreamOK

\* What a step of one driver that changes no file and no chain leaves to be shown.
LEMMA StreamsKeep ==
  ASSUME SwapInv, UNCHANGED <<file, doing, btc, cync>>,
         step' \in [Role -> 0..7], session' \in [Role -> Session],
         wire' \in [Role -> Seq([kind : Kind, body : SwapId \cup Terms \cup {None}])],
         evidence' \in [Role -> [id : SwapId, terms : Terms] \cup {None}],
         \A q \in Role : (step[q] # 0 => StreamOK(q))',
         verified \subseteq verified', verified' \subseteq Role,
         (step["Alice"] > 1 \/ step["Bob"] > 2 => SameSwap)',
         (step["Bob"] # 0 /\ Reach("Bob") > 0 => SameSwap)',
         \A q \in Role : (step[q] > 5 => q \in verified)',
         (step["Bob"] # 0 /\ Reach("Bob") = 3 => "Alice" \in verified)',
         \/ evidence'["Bob"] = evidence["Bob"]
         \/ /\ file["Alice"] # None /\ file["Bob"] # None
            /\ SameSwap /\ verified' = Role
            /\ evidence'["Bob"].terms = file["Alice"].terms
  PROVE  HandshakeInv'
<1>1. SwapTypeOK'
  BY DEF SwapInv, HandshakeInv, SwapTypeOK, FundsTypeOK
<1>2. (evidence["Bob"] # None =>
          /\ file["Alice"] # None /\ file["Bob"] # None
          /\ SameSwap /\ verified = Role
          /\ evidence["Bob"].terms = file["Alice"].terms)'
  BY DEF SwapInv, HandshakeInv, SameSwap
<1>3. (btc.lock # "none" => file["Alice"] # None /\ file["Bob"] # None)'
  BY DEF SwapInv, HandshakeInv
<1>4. AgreedBeforeLock'
  <2>1. btc'.lock # "none" => verified' = Role
    BY DEF SwapInv, HandshakeInv, AgreedBeforeLock
  <2> QED
    BY <2>1 DEF SwapInv, HandshakeInv, AgreedBeforeLock
<1> QED
  BY <1>1, <1>2, <1>3, <1>4, Zenon DEF HandshakeInv

\* A driver that gives up leaves the invariant to the other one.
LEMMA FailKeeps ==
  ASSUME SwapInv, NEW r \in Role, step[r] # 0, Fail(r),
         wire' = wire \/ wire' = [wire EXCEPT ![r] = Tail(@)],
         wire[r] # <<>> \/ wire' = wire,
         UNCHANGED <<file, doing, btc, cync>>
  PROVE  HandshakeInv'
<1> DEFINE o == opposite(r)
           Mail == [kind : Kind, body : SwapId \cup Terms \cup {None}]
<1>1. /\ o \in Role /\ o # r /\ Role = {r, o}
      /\ step \in [Role -> 0..7] /\ session \in [Role -> Session]
      /\ wire \in [Role -> Seq(Mail)] /\ wire[r] \in Seq(Mail) /\ SwapTypeOK
  BY Facts, Zenon
<1>2. /\ step'[r] = 0 /\ step'[o] = step[o] /\ wire'[o] = wire[o]
      /\ session'[o] = session[o] /\ step' \in [Role -> 0..7]
      /\ UNCHANGED <<session, verified, evidence>>
  BY <1>1, SMTT(30) DEF Fail
<1>3. wire' \in [Role -> Seq(Mail)]
  <2>1. wire[r] # <<>> => Tail(wire[r]) \in Seq(Mail)
    <3> HIDE DEF Mail
    <3> QED
      BY <1>1, SMTT(30)
  <2> QED
    BY <1>1, <2>1, Zenon
<1>4. ASSUME step'[o] # 0
      PROVE  StreamOK(o)' /\ Reach(o)' = Reach(o)
  <2> HIDE DEF o
  <2>1. o = opposite(r)
    BY DEF o
  <2> QED
    BY <1>1, <1>2, <1>4, <2>1, OtherStream
<1>5. \A q \in Role : (step[q] # 0 => StreamOK(q))'
  BY <1>1, <1>2, <1>4, Zenon
<1>6. /\ step["Alice"] > 1 \/ step["Bob"] > 2 => SameSwap
      /\ step["Bob"] # 0 /\ Reach("Bob") > 0 => SameSwap
      /\ \A q \in Role : step[q] > 5 => q \in verified
      /\ step["Bob"] # 0 /\ Reach("Bob") = 3 => "Alice" \in verified
      /\ verified \subseteq Role
  BY DEF SwapInv, HandshakeInv
<1>7. SameSwap' = SameSwap
  BY DEF SameSwap
<1>8. \/ r = "Alice" /\ o = "Bob"
      \/ r = "Bob" /\ o = "Alice"
  BY DEF Role, opposite
<1> HIDE DEF o
<1>9. /\ (step["Alice"] > 1 \/ step["Bob"] > 2 => SameSwap)'
      /\ (step["Bob"] # 0 /\ Reach("Bob") > 0 => SameSwap)'
      /\ \A q \in Role : (step[q] > 5 => q \in verified)'
      /\ (step["Bob"] # 0 /\ Reach("Bob") = 3 => "Alice" \in verified)'
  <2>1. (step["Alice"] > 1 \/ step["Bob"] > 2 => SameSwap)'
    BY <1>2, <1>6, <1>7, <1>8, SMTT(30)
  <2>2. (step["Bob"] # 0 /\ Reach("Bob") > 0 => SameSwap)'
    BY <1>2, <1>4, <1>6, <1>7, <1>8
  <2>3. \A q \in Role : (step[q] > 5 => q \in verified)'
    BY <1>1, <1>2, <1>6, SMTT(30)
  <2>4. (step["Bob"] # 0 /\ Reach("Bob") = 3 => "Alice" \in verified)'
    BY <1>2, <1>4, <1>6, <1>8
  <2> QED
    BY <2>1, <2>2, <2>3, <2>4
<1>10. evidence' \in [Role -> [id : SwapId, terms : Terms] \cup {None}]
  BY <1>1, <1>2 DEF SwapTypeOK
<1>11. session' \in [Role -> Session] /\ verified \subseteq verified' /\ verified' \subseteq Role
  BY <1>1, <1>2, <1>6
<1> QED
  BY <1>2, <1>3, <1>5, <1>9, <1>10, <1>11, StreamsKeep

\* A driver that accepts a letter has its swap confirmed by it, its material
\* verified, or its evidence, according to the step.
LEMMA AcceptKeeps ==
  ASSUME SwapInv, NEW r \in Role, step[r] # 0, Script[r][step[r]].op = "recv", wire[r] # <<>>,
         wire' = [wire EXCEPT ![r] = Tail(@)], InOrder(r),
         verified' = IF Head(wire[r]).kind = "AdaptorMaterial" THEN verified \cup {r} ELSE verified,
         Advance(r, handle_inbound(session[r], Head(wire[r]))),
         UNCHANGED <<file, doing, btc, cync>>
  PROVE  HandshakeInv'
<1> DEFINE o == opposite(r)
           Mail == [kind : Kind, body : SwapId \cup Terms \cup {None}]
<1>1. /\ o \in Role /\ o # r /\ Role = {r, o} /\ o = opposite(r)
      /\ step \in [Role -> 0..7] /\ session \in [Role -> Session]
      /\ wire \in [Role -> Seq(Mail)] /\ wire[r] \in Seq(Mail) /\ SwapTypeOK
      /\ StreamOK(r)
  BY Facts, Zenon
<1>2. \/ /\ step[r] \in 1..6
         /\ session' = [session EXCEPT ![r] = SessionAt(step[r] + 1)]
         /\ step' = [step EXCEPT ![r] = @ + 1]
         /\ UNCHANGED evidence
      \/ /\ step[r] = 7
         /\ \E s \in Session : session' = [session EXCEPT ![r] = s]
         /\ step' = [step EXCEPT ![r] = 0]
         /\ evidence' = [evidence EXCEPT ![r] = [id |-> file[r].id, terms |-> file["Alice"].terms]]
  BY Receives
<1>3. \/ r = "Alice" /\ step[r] = 1 /\ Head(wire[r]) = Message("Hello", file["Bob"].id)
      \/ r = "Alice" /\ step[r] = 3 /\ Head(wire[r]) = Message("Accept", None)
      \/ r = "Bob" /\ step[r] = 2 /\ Head(wire[r]) = Message("HelloAck", file["Alice"].terms)
      \/ step[r] = 5 /\ Head(wire[r]) = Message("AdaptorMaterial", None)
      \/ step[r] = 7 /\ Head(wire[r]) = Message("Ready", None)
  BY Reads
<1>4. file["Alice"] # None /\ file["Bob"] # None
  BY <1>1 DEF StreamOK
<1>5. session' \in [Role -> Session]
  <2>1. step[r] \in 1..6 => SessionAt(step[r] + 1) \in Session
    <3>1. step[r] \in 1..6 => step[r] + 1 \in 1..7
      BY SMTT(30)
    <3> QED
      BY <1>1, <1>4, <3>1, LettersType
  <2> QED
    BY <1>1, <1>2, <2>1, Zenon
<1>6. step' \in [Role -> 0..7] /\ step'[o] = step[o] /\ session'[o] = session[o]
  BY <1>1, <1>2, SMTT(30)
<1>7. wire' \in [Role -> Seq(Mail)] /\ wire'[o] = wire[o] /\ wire'[r] = Tail(wire[r])
  <2>1. Tail(wire[r]) \in Seq(Mail)
    <3> HIDE DEF Mail
    <3> QED
      BY <1>1, SMTT(30)
  <2> QED
    BY <1>1, <2>1, Zenon
<1>8. evidence' \in [Role -> [id : SwapId, terms : Terms] \cup {None}]
  <2>1. file[r].id \in SwapId /\ file["Alice"].terms \in Terms
    BY <1>1, <1>4 DEF SwapTypeOK, FundsTypeOK, SwapFile, Role
  <2>2. [id |-> file[r].id, terms |-> file["Alice"].terms] \in [id : SwapId, terms : Terms]
    BY <2>1
  <2>3. evidence \in [Role -> [id : SwapId, terms : Terms] \cup {None}]
    BY <1>1 DEF SwapTypeOK
  <2> QED
    BY <1>2, <2>2, <2>3, Zenon
<1> HIDE DEF o
<1>9. ASSUME step'[o] # 0
      PROVE  StreamOK(o)' /\ Reach(o)' = Reach(o)
  <2>1. step[r] \in 1..6 => Said(r, step[r] + 1) = Said(r, step[r])
    BY Counts, SMTT(30)
  <2>2. \/ step'[r] = 0
        \/ step'[r] # 0 /\ Said(r, step'[r]) = Said(r, step[r])
    BY <1>1, <1>2, <2>1, SMTT(30)
  <2> QED
    BY <1>1, <1>6, <1>7, <1>9, <2>2, OtherStream
<1>10. ASSUME step'[r] # 0
       PROVE  /\ StreamOK(r)' /\ Reach(r)' = Reach(r)
              /\ step[r] \in 1..6 /\ step'[r] = step[r] + 1
  <2>1. /\ step[r] \in 1..6 /\ session'[r] = SessionAt(step[r] + 1) /\ step'[r] = step[r] + 1
    BY <1>1, <1>2, <1>10
  <2> QED
    BY <1>1, <1>6, <1>7, <2>1, OwnStream
<1>11. \A q \in Role : (step[q] # 0 => StreamOK(q))'
  BY <1>1, <1>9, <1>10, Zenon
<1>12. /\ step["Alice"] > 1 \/ step["Bob"] > 2 => SameSwap
       /\ step["Bob"] # 0 /\ Reach("Bob") > 0 => SameSwap
       /\ \A q \in Role : step[q] > 5 => q \in verified
       /\ step["Bob"] # 0 /\ Reach("Bob") = 3 => "Alice" \in verified
       /\ verified \subseteq Role
  BY DEF SwapInv, HandshakeInv
<1>13. SameSwap' = SameSwap
  BY DEF SameSwap
<1>14. \/ r = "Alice" /\ o = "Bob"
       \/ r = "Bob" /\ o = "Alice"
  BY DEF Role, opposite, o
<1>15. /\ Reach(r) = Got(r, step[r]) + Len(wire[r]) /\ Len(wire[r]) \in Nat \ {0}
  <2>1. Len(wire[r]) \in Nat \ {0}
    BY <1>1, SMTT(30)
  <2> QED
    BY <2>1 DEF Reach
<1>16. SameSwap
  <2>1. CASE r = "Alice" /\ step[r] = 1
    <3>1. Handles(r, file[r].id, session[r], Head(wire[r])) /\ Head(wire[r]).kind = "Hello"
      BY <1>3, <2>1, SMTT(30) DEF InOrder, Message
    <3>2. Head(wire[r]) = Message("Hello", file["Alice"].id)
      BY <2>1, <3>1 DEF Handles
    <3> QED
      BY <1>3, <2>1, <3>2, SMTT(30) DEF Message, SameSwap
  <2>2. CASE r = "Bob" /\ step[r] = 2
    <3>1. Got("Bob", 2) = 0
      BY DEF Got
    <3> QED
      BY <1>12, <1>15, <2>2, <3>1, SMTT(30)
  <2>3. CASE step[r] \in {3, 5, 7}
    BY <1>12, <1>14, <2>3, SMTT(30)
  <2> QED
    BY <1>3, <2>1, <2>2, <2>3
<1>17. verified \subseteq verified' /\ verified' \subseteq Role
  BY <1>12
<1>18. (step["Bob"] # 0 /\ Reach("Bob") = 3 => "Alice" \in verified)'
  BY <1>6, <1>9, <1>10, <1>12, <1>14, <1>17
<1>19. \A q \in Role : (step[q] > 5 => q \in verified)'
  <2>1. (step[o] > 5 => o \in verified)'
    BY <1>1, <1>6, <1>12, <1>17
  <2>2. (step[r] > 5 => r \in verified)'
    <3>1. CASE step[r] = 5
      <4>1. Head(wire[r]).kind = "AdaptorMaterial"
        BY <1>3, <3>1, SMTT(30) DEF Message
      <4> QED
        BY <4>1
    <3>2. CASE step[r] # 5
      BY <1>3, <1>10, <3>2, SMTT(30)
    <3> QED
      BY <3>1, <3>2
  <2> QED
    BY <1>1, <2>1, <2>2, Zenon
<1>20. \/ evidence'["Bob"] = evidence["Bob"]
       \/ /\ file["Alice"] # None /\ file["Bob"] # None
          /\ SameSwap /\ verified' = Role
          /\ evidence'["Bob"].terms = file["Alice"].terms
  <2>1. CASE r = "Bob" /\ step[r] = 7
    <3>1. evidence'["Bob"].terms = file["Alice"].terms
      <4>1. evidence \in [Role -> [id : SwapId, terms : Terms] \cup {None}]
        BY <1>1 DEF SwapTypeOK
      <4> QED
        BY <1>2, <2>1, <4>1, SMTT(30) DEF Role
    <3>2. Reach("Bob") <= 3
      <4>1. Said("Alice", 8) = 3 /\ \A k \in 1..7 : Said("Alice", k) <= 3
        BY SMTT(30) DEF Said
      <4>2. step["Alice"] \in 0..7 /\ opposite("Bob") = "Alice"
        BY <1>1 DEF opposite, Role
      <4> QED
        BY <1>1, <2>1, <4>1, <4>2, SMTT(30) DEF StreamOK
    <3>3. Got("Bob", 7) = 2
      BY DEF Got
    <3>4. Reach("Bob") = 3
      BY <1>15, <2>1, <3>2, <3>3, SMTT(30)
    <3>5. "Alice" \in verified /\ "Bob" \in verified
      BY <1>12, <2>1, <3>4, SMTT(30) DEF Role
    <3> QED
      BY <1>4, <1>16, <1>17, <3>1, <3>5 DEF Role
  <2>2. CASE ~(r = "Bob" /\ step[r] = 7)
    <3>1. evidence \in [Role -> [id : SwapId, terms : Terms] \cup {None}]
      BY <1>1 DEF SwapTypeOK
    <3>2. UNCHANGED evidence \/ r # "Bob"
      BY <1>2, <2>2
    <3> QED
      BY <1>2, <3>1, <3>2 DEF Role
  <2> QED
    BY <2>1, <2>2
<1> QED
  BY <1>5, <1>6, <1>7, <1>8, <1>11, <1>13, <1>16, <1>17, <1>18, <1>19, <1>20, StreamsKeep

\* The steps of a driver that reads.
LEMMA ReceiveKeeps ==
  ASSUME SwapInv, NEW r \in Role, ReceiveMessage(r) \/ TimeOut(r)
  PROVE  HandshakeInv'
<1>1. UNCHANGED <<file, doing, btc, cync>> /\ step[r] # 0 /\ Script[r][step[r]].op = "recv"
  BY DEF ReceiveMessage, TimeOut, chains
<1>2. CASE TimeOut(r)
  <2>1. Fail(r) /\ wire' = wire
    BY <1>2 DEF TimeOut
  <2> QED
    BY <1>1, <2>1, FailKeeps
<1>3. CASE ReceiveMessage(r) /\ Fail(r)
  <2>1. wire[r] # <<>> /\ wire' = [wire EXCEPT ![r] = Tail(@)]
    BY <1>3 DEF ReceiveMessage
  <2> QED
    BY <1>1, <1>3, <2>1, FailKeeps
<1>4. CASE ReceiveMessage(r) /\ ~Fail(r)
  <2>1. /\ wire[r] # <<>> /\ wire' = [wire EXCEPT ![r] = Tail(@)] /\ InOrder(r)
        /\ verified' = IF Head(wire[r]).kind = "AdaptorMaterial" THEN verified \cup {r} ELSE verified
        /\ Advance(r, handle_inbound(session[r], Head(wire[r])))
    BY <1>4, Zenon DEF ReceiveMessage
  <2> QED
    BY <1>1, <2>1, AcceptKeeps
<1> QED
  BY <1>2, <1>3, <1>4

\* Fresh sessions on a fresh stream.
LEMMA DialKeeps == ASSUME SwapInv, Dial PROVE HandshakeInv'
<1>1. /\ UNCHANGED <<file, doing, btc, cync, verified, evidence>>
      /\ file["Alice"] # None /\ file["Bob"] # None
      /\ step' = [r \in Role |-> 1] /\ session' = [r \in Role |-> NewSession]
      /\ wire' = [r \in Role |-> <<>>]
  BY DEF Dial, InState, chains, Role
<1>2. NewSession \in Session
  BY DEF NewSession, Session, Phase
<1>3. /\ step' \in [Role -> 0..7] /\ session' \in [Role -> Session]
      /\ wire' \in [Role -> Seq([kind : Kind, body : SwapId \cup Terms \cup {None}])]
  <2>1. <<>> \in Seq([kind : Kind, body : SwapId \cup Terms \cup {None}])
    BY SMTT(30)
  <2>2. step' \in [Role -> 0..7]
    BY <1>1, SMTT(30)
  <2> QED
    BY <1>1, <1>2, <2>1, <2>2, Zenon
<1>4. ASSUME NEW r \in Role
      PROVE  StreamOK(r)' /\ Reach(r)' = 0
  <2>1. step'[r] = 1 /\ step'[opposite(r)] = 1 /\ session'[r] = NewSession /\ wire'[r] = <<>>
    BY <1>1 DEF opposite, Role
  <2>2. SessionAt(step[r])' = NewSession
    <3>1. SessionAt(1)' = SessionAt(1)
      BY <1>1, SameFiles
    <3> QED
      BY <2>1, <3>1, Sessions
  <2>3. Got(r, 1) = 0 /\ Said(opposite(r), 1) = 0
    BY DEF Got, Said
  <2>4. Reach(r)' = 0 /\ Len(wire'[r]) = 0
    BY <2>1, <2>3, SMTT(30) DEF Reach
  <2> QED
    BY <1>1, <2>1, <2>2, <2>3, <2>4, SMTT(30) DEF StreamOK
<1>5. verified \subseteq Role /\ evidence \in [Role -> [id : SwapId, terms : Terms] \cup {None}]
  BY DEF SwapInv, HandshakeInv, SwapTypeOK
<1>6. \A q \in Role : (step[q] # 0 => StreamOK(q))'
  BY <1>4
<1>7. step'["Alice"] = 1 /\ step'["Bob"] = 1 /\ \A q \in Role : step'[q] = 1
  BY <1>1 DEF Role
<1>8. Reach("Bob")' = 0
  BY <1>4 DEF Role
<1> QED
  BY <1>1, <1>3, <1>5, <1>6, <1>7, <1>8, StreamsKeep, SMTT(30)

\* A side without a state file has not been in a handshake.
LEMMA StartKeeps == ASSUME SwapInv, NEW r \in Role, Start(r) PROVE HandshakeInv'
<1>1. UNCHANGED <<step, session, wire, verified, evidence, btc, cync, doing>>
  BY DEF Start, handshake, chains
<1>2. file["Alice"] = None \/ file["Bob"] = None
  BY DEF Start, Role
<1>3. step["Alice"] = 0 /\ step["Bob"] = 0 /\ \A q \in Role : step[q] = 0
  BY <1>2 DEF SwapInv, HandshakeInv, StreamOK, Role
<1>4. evidence["Bob"] = None /\ btc.lock = "none"
  BY <1>2 DEF SwapInv, HandshakeInv
<1>5. FundsTypeOK'
  BY StartInv DEF SwapInv, FundsInv
<1>6. SwapTypeOK'
  BY <1>1, <1>5 DEF SwapInv, HandshakeInv, SwapTypeOK
<1>7. /\ step' \in [Role -> 0..7] /\ session' \in [Role -> Session]
      /\ wire' \in [Role -> Seq([kind : Kind, body : SwapId \cup Terms \cup {None}])]
      /\ verified' \subseteq Role
  BY <1>1, Zenon DEF SwapInv, HandshakeInv
<1>8. step'["Alice"] = 0 /\ step'["Bob"] = 0 /\ \A q \in Role : step'[q] = 0
  BY <1>1, <1>3
<1>9. AgreedBeforeLock' /\ evidence'["Bob"] = None /\ btc'.lock = "none"
  BY <1>1, <1>4 DEF AgreedBeforeLock
<1>10. /\ ~(step'["Alice"] > 1) /\ ~(step'["Bob"] > 2) /\ ~(step'["Bob"] # 0)
       /\ \A q \in Role : ~(step'[q] > 5) /\ ~(step'[q] # 0)
  BY <1>8, SMTT(30)
<1> QED
  BY <1>6, <1>7, <1>9, <1>10, Zenon DEF HandshakeInv

\* A command takes no part in the handshake: it keeps the invariant while the
\* files keep their swap and terms and the BTC is locked with evidence only.
LEMMA CommandKeeps ==
  ASSUME SwapInv, FundsInv', UNCHANGED handshake,
         \A r \in Role : /\ file'[r] = None <=> file[r] = None
                         /\ file'[r].id = file[r].id /\ file'[r].terms = file[r].terms,
         btc'.lock # "none" => btc.lock # "none" \/ verify_pre_cync_lock("Bob")
  PROVE  HandshakeInv'
<1>1. UNCHANGED <<step, session, wire, verified, evidence>>
  BY DEF handshake
<1>2. /\ file'["Alice"].terms = file["Alice"].terms /\ file'["Bob"].terms = file["Bob"].terms
      /\ file'["Bob"].id = file["Bob"].id /\ file'["Alice"].id = file["Alice"].id
      /\ file'["Alice"] = None <=> file["Alice"] = None
      /\ file'["Bob"] = None <=> file["Bob"] = None
  BY DEF Role
<1>3. ASSUME NEW r \in Role
      PROVE  (step[r] # 0 => StreamOK(r))' /\ Reach(r)' = Reach(r)
  <2>1. Reach(r)' = Reach(r)
    BY <1>1 DEF Reach
  <2>2. /\ SessionAt(step[r])' = SessionAt(step[r])
        /\ \A i : Letter(r, Got(r, step[r]) + i)' = Letter(r, Got(r, step[r]) + i)
    BY <1>1, <1>2, SameFiles
  <2>3. step[r] # 0 => StreamOK(r)
    BY Facts
  <2> QED
    BY <1>1, <1>2, <2>1, <2>2, <2>3 DEF StreamOK
<1>4. SameSwap' = SameSwap
  BY <1>2 DEF SameSwap
<1>5. /\ SwapTypeOK' /\ (step \in [Role -> 0..7])' /\ (session \in [Role -> Session])'
      /\ (wire \in [Role -> Seq([kind : Kind, body : SwapId \cup Terms \cup {None}])])'
      /\ (verified \subseteq Role)'
  BY <1>1, Zenon DEF SwapInv, HandshakeInv, SwapTypeOK, FundsInv
<1>6. /\ (step["Alice"] > 1 \/ step["Bob"] > 2 => SameSwap)'
      /\ (step["Bob"] # 0 /\ Reach("Bob") > 0 => SameSwap)'
      /\ \A r \in Role : (step[r] > 5 => r \in verified)'
      /\ (step["Bob"] # 0 /\ Reach("Bob") = 3 => "Alice" \in verified)'
  <2>1. Reach("Bob")' = Reach("Bob")
    BY <1>3 DEF Role
  <2> QED
    BY <1>1, <1>4, <2>1, Zenon DEF SwapInv, HandshakeInv
<1>7. (evidence["Bob"] # None =>
          /\ file["Alice"] # None /\ file["Bob"] # None
          /\ SameSwap /\ verified = Role
          /\ evidence["Bob"].terms = file["Alice"].terms)'
  BY <1>1, <1>2, <1>4, Zenon DEF SwapInv, HandshakeInv
<1>8. (btc.lock # "none" => file["Alice"] # None /\ file["Bob"] # None)' /\ AgreedBeforeLock'
  <2>1. CASE btc.lock # "none"
    BY <1>1, <1>2, <2>1 DEF SwapInv, HandshakeInv, AgreedBeforeLock, SameTerms
  <2>2. CASE verify_pre_cync_lock("Bob")
    <3>1. /\ file["Alice"] # None /\ file["Bob"] # None /\ SameSwap /\ verified = Role
          /\ SameTerms(file["Alice"].terms, file["Bob"].terms)
      BY <2>2 DEF SwapInv, HandshakeInv, verify_pre_cync_lock
    <3> QED
      BY <1>1, <1>2, <3>1 DEF AgreedBeforeLock, SameTerms, SameSwap
  <2>3. CASE btc'.lock = "none"
    BY <2>3 DEF AgreedBeforeLock
  <2> QED
    BY <2>1, <2>2, <2>3
<1> QED
  BY <1>3, <1>5, <1>6, <1>7, <1>8, Zenon DEF HandshakeInv

\* A command writes nothing but the state into a file that exists.
LEMMA RecordKeeps ==
  ASSUME SwapInv, NEW r \in Role, file[r] # None, NEW to \in State,
         file' = [file EXCEPT ![r].state = to]
  PROVE  \A q \in Role : /\ file'[q] = None <=> file[q] = None
                         /\ file'[q].id = file[q].id /\ file'[q].terms = file[q].terms
<1>1. file \in [Role -> SwapFile \cup {None}]
  BY DEF SwapInv, FundsInv, FundsTypeOK
<1>2. file[r] \in SwapFile
  BY <1>1
<1> QED
  BY <1>1, <1>2, SwapConstants DEF SwapFile

\* Every step keeps the handshake's invariant.
LEMMA NextHandshake == ASSUME SwapInv, [Next]_vars PROVE HandshakeInv'
<1>1. FundsInv'
  BY NextInv DEF SwapInv
<1>2. CASE Dial
  BY <1>2, DialKeeps
<1>3. ASSUME NEW r \in Role, SendMessage(r) \/ ReceiveMessage(r) \/ TimeOut(r) \/ Start(r)
      PROVE  HandshakeInv'
  BY <1>3, SendKeeps, ReceiveKeeps, StartKeeps
<1>4. CASE UNCHANGED <<file, btc>> /\ UNCHANGED handshake
  BY <1>1, <1>4, CommandKeeps
<1>5. ASSUME NEW r \in Role, Save(r) \/ Crash(r) \/ Cancel(r)
      PROVE  HandshakeInv'
  <2>1. /\ UNCHANGED handshake /\ UNCHANGED btc
        /\ \/ UNCHANGED file
           \/ file[r] # None /\ \E to \in State : file' = [file EXCEPT ![r].state = to]
    <3>1. doing[r] \in State \cup {None}
      BY DEF SwapInv, FundsInv, FundsTypeOK
    <3> QED
      BY <1>5, <3>1, Zenon DEF Save, Crash, Cancel, Record, chains, SwapInv, FundsInv, Role
  <2> QED
    BY <1>1, <1>4, <2>1, RecordKeeps, CommandKeeps
<1>6. CASE ObserveBobLocked \/ ObserveAliceLocked \/ ObserveCompleted
           \/ ObserveSecretRevealed \/ ObserveBtcRefunded
  <2>1. /\ UNCHANGED handshake /\ UNCHANGED btc
        /\ \E r \in Role : file[r] # None /\ \E to \in State : file' = [file EXCEPT ![r].state = to]
    BY <1>6, Zenon DEF ObserveBobLocked, ObserveAliceLocked, ObserveCompleted, ObserveSecretRevealed,
                       ObserveBtcRefunded, Observes, Record, chains, Role
  <2> QED
    BY <1>1, <2>1, RecordKeeps, CommandKeeps
<1>7. CASE LockBtc
  BY <1>1, <1>7, CommandKeeps DEF LockBtc, WillSave
<1>8. CASE LockCync \/ ClaimBtc \/ RefundBtc \/ ClaimCync \/ RefundCync
  <2>1. UNCHANGED file /\ UNCHANGED handshake /\ btc'.lock = btc.lock
    BY <1>8 DEF LockCync, ClaimBtc, RefundBtc, ClaimCync, RefundCync, WillSave, BroadcastSpend,
                SwapInv, FundsInv, FundsTypeOK
  <2> QED
    BY <1>1, <2>1, CommandKeeps
<1>9. CASE Mine
  <2>1. UNCHANGED file /\ UNCHANGED handshake /\ (btc'.lock # "none" => btc.lock # "none")
    BY <1>9 DEF Mine, MineBtcLock, Mature, MineBtcSpend, MineCyncLock, MineCyncSpend,
                SwapInv, FundsInv, FundsTypeOK
  <2> QED
    BY <1>1, <2>1, CommandKeeps
<1>10. CASE UNCHANGED vars
  BY <1>4, <1>10 DEF vars, chains
<1> QED
  BY <1>2, <1>3, <1>5, <1>6, <1>7, <1>8, <1>9, <1>10 DEF Next

---------------------------------------------------------------------------
\* The theorems

\* Nobody has dialled, received or locked anything yet.
LEMMA InitHandshake == Init => HandshakeInv
<1> SUFFICES ASSUME Init PROVE HandshakeInv
  OBVIOUS
<1>1. step["Alice"] = 0 /\ step["Bob"] = 0 /\ evidence["Bob"] = None /\ btc.lock = "none"
  BY DEF Init, Role
<1>2. NewSession \in Session
  BY DEF NewSession, Session, Phase
<1>3. /\ step \in [Role -> 0..7] /\ session \in [Role -> Session]
      /\ wire \in [Role -> Seq([kind : Kind, body : SwapId \cup Terms \cup {None}])]
      /\ verified \subseteq Role /\ evidence \in [Role -> [id : SwapId, terms : Terms] \cup {None}]
  <2>1. <<>> \in Seq([kind : Kind, body : SwapId \cup Terms \cup {None}]) /\ 0 \in 0..7
    BY SMTT(30)
  <2> QED
    BY <1>2, <2>1, Zenon DEF Init
<1>4. SwapTypeOK
  BY <1>3, InitInv DEF SwapTypeOK, FundsInv
<1>5. \A r \in Role : step[r] = 0
  BY DEF Init
<1>6. AgreedBeforeLock
  BY <1>1 DEF AgreedBeforeLock
<1>7. /\ ~(step["Alice"] > 1) /\ ~(step["Bob"] > 2) /\ ~(step["Bob"] # 0)
      /\ \A q \in Role : ~(step[q] > 5) /\ ~(step[q] # 0)
  BY <1>1, <1>5, SMTT(30)
<1> QED
  BY <1>1, <1>3, <1>4, <1>6, <1>7, Zenon DEF HandshakeInv

\* In every state that the handshakes, the commands of both sides, their crashes
\* and the two chains reach, the state files agree with the chains as FundsInv
\* says, and the drivers with the streams as HandshakeInv says.
THEOREM SwapInvariant == Spec => []SwapInv
<1>1. Init => SwapInv
  BY InitInv, InitHandshake DEF SwapInv
<1>2. SwapInv /\ [Next]_vars => SwapInv'
  BY NextInv, NextHandshake DEF SwapInv
<1> QED
  BY <1>1, <1>2, PTL DEF Spec

\* lock-btc never broadcasts before both verifiers accepted and both files agree
\* on the swap and its terms, whatever was typed and however often the handshake
\* of coordinator.rs was tried.
THEOREM LockFollowsAgreement == Spec => []AgreedBeforeLock
<1>1. SwapInv => AgreedBeforeLock
  BY DEF SwapInv, HandshakeInv
<1> QED
  BY <1>1, SwapInvariant, PTL

\* Between the two sides of one swap, every message that run_alice or run_bob
\* reads is the one it waits for, and its session accepts it.
THEOREM MessagesInOrder == Spec => []HandshakeInOrder
<1>1. ASSUME SwapInv
      PROVE  HandshakeInOrder
  <2> SUFFICES ASSUME NEW r \in Role, step[r] # 0, Script[r][step[r]].op = "recv", wire[r] # <<>>,
                      file["Alice"].id = file["Bob"].id
               PROVE  InOrder(r)
    BY DEF HandshakeInOrder
  <2>1. /\ session[r] = SessionAt(step[r])
        /\ \/ r = "Alice" /\ step[r] = 1 /\ Head(wire[r]) = Message("Hello", file["Bob"].id)
           \/ r = "Alice" /\ step[r] = 3 /\ Head(wire[r]) = Message("Accept", None)
           \/ r = "Bob" /\ step[r] = 2 /\ Head(wire[r]) = Message("HelloAck", file["Alice"].terms)
           \/ step[r] = 5 /\ Head(wire[r]) = Message("AdaptorMaterial", None)
           \/ step[r] = 7 /\ Head(wire[r]) = Message("Ready", None)
    BY <1>1, Reads
  <2>2. Script[r][step[r]] = Recv(Head(wire[r]).kind)
    BY <2>1, ScriptSteps, SMTT(30) DEF Message
  <2>3. /\ SessionAt(1).phase = "Initial" /\ SessionAt(2).phase = "AwaitingAck"
        /\ SessionAt(3).phase = "AwaitingAck" /\ SessionAt(5).phase = "ExchangingAdaptors"
        /\ SessionAt(5).received_adaptors = FALSE /\ SessionAt(7).phase = "AwaitingReady"
    BY DEF SessionAt
  <2>4. Handles(r, file[r].id, session[r], Head(wire[r]))
    BY <2>1, <2>3, SMTT(30) DEF Handles, Message
  <2> QED
    BY <2>2, <2>4 DEF InOrder
<1> QED
  BY <1>1, SwapInvariant, PTL

\* No state file ever stands for a transaction that no node was given: every
\* orchestration command of cyncswap broadcasts before it saves.
THEOREM FilesNeverAhead == Spec => []FileNotAhead
<1>1. SwapInv => FileNotAhead
  BY DEF SwapInv, FundsInv
<1> QED
  BY <1>1, SwapInvariant, PTL

\* A step that leaves both chains alone moves no coin.
LEMMA ChainsKeepOwners == UNCHANGED chains => UNCHANGED Promise!owners
  BY DEF chains, Promise!owners

\* lock-btc and lock-cync put a coin in a joint output, the first time.
LEMMA LocksMove == FundsInv /\ (LockBtc \/ LockCync) => [Promise!ANext]_(Promise!owners)
<1> SUFFICES ASSUME FundsInv, LockBtc \/ LockCync PROVE [Promise!ANext]_(Promise!owners)
  OBVIOUS
<1>1. CASE LockBtc
  BY <1>1, SwapConstants DEF LockBtc, Broadcast, FundsInv, FundsTypeOK, Role, Promise!ANext,
                             Promise!LocksBtc, Promise!owners
<1>2. CASE LockCync
  BY <1>2, SwapConstants DEF LockCync, Broadcast, FundsInv, FundsTypeOK, Role, Promise!ANext,
                             Promise!LocksCync, Promise!owners
<1> QED
  BY <1>1, <1>2

\* The broadcast of a spend moves nothing yet.
LEMMA SpendsWait ==
  FundsInv /\ (ClaimBtc \/ RefundBtc \/ ClaimCync \/ RefundCync) => UNCHANGED Promise!owners
<1> SUFFICES ASSUME FundsInv, ClaimBtc \/ RefundBtc \/ ClaimCync \/ RefundCync
             PROVE  UNCHANGED Promise!owners
  OBVIOUS
<1>1. CASE ClaimBtc \/ RefundBtc
  BY <1>1 DEF ClaimBtc, RefundBtc, BroadcastSpend, FundsInv, FundsTypeOK, Promise!owners
<1>2. CASE ClaimCync \/ RefundCync
  BY <1>2 DEF ClaimCync, RefundCync, BroadcastSpend, FundsInv, FundsTypeOK, Promise!owners
<1> QED
  BY <1>1, <1>2

\* A mined spend gives the coin to the side that FundsInv allows it to.
LEMMA MineMoves == FundsInv /\ Mine => [Promise!ANext]_(Promise!owners)
<1> SUFFICES ASSUME FundsInv, Mine PROVE [Promise!ANext]_(Promise!owners)
  OBVIOUS
<1>1. CASE MineBtcLock \/ Mature
  BY <1>1 DEF MineBtcLock, Mature, FundsInv, FundsTypeOK, Promise!owners
<1>2. CASE MineCyncLock
  BY <1>2 DEF MineCyncLock, FundsInv, FundsTypeOK, Promise!owners
<1>3. CASE MineBtcSpend
  BY <1>3, SwapConstants DEF MineBtcSpend, FundsInv, FundsTypeOK, Role, Promise!ANext,
                             Promise!ClaimsBtc, Promise!RefundsBtc, Promise!owners
<1>4. CASE MineCyncSpend
  BY <1>4, SwapConstants DEF MineCyncSpend, FundsInv, FundsTypeOK, Role, Promise!ANext,
                             Promise!ClaimsCync, Promise!RefundsCync, Promise!owners
<1> QED
  BY <1>1, <1>2, <1>3, <1>4 DEF Mine

\* Every step of the two sides and the chains is a step of the abstract swap or
\* changes no owner.
LEMMA StepRefines == FundsInv /\ [Next]_vars => [Promise!ANext]_(Promise!owners)
<1> SUFFICES ASSUME FundsInv, [Next]_vars PROVE [Promise!ANext]_(Promise!owners)
  OBVIOUS
<1>1. CASE LockBtc \/ LockCync
  BY <1>1, LocksMove
<1>2. CASE ClaimBtc \/ RefundBtc \/ ClaimCync \/ RefundCync
  BY <1>2, SpendsWait
<1>3. CASE Mine
  BY <1>3, MineMoves
<1>4. CASE ObserveBobLocked \/ ObserveAliceLocked \/ ObserveCompleted
           \/ ObserveSecretRevealed \/ ObserveBtcRefunded
  BY <1>4, ChainsKeepOwners
     DEF ObserveBobLocked, ObserveAliceLocked, ObserveCompleted, Observes,
         ObserveSecretRevealed, ObserveBtcRefunded, Record, chains
<1>5. CASE \E r \in Role : \/ Start(r) \/ SendMessage(r) \/ ReceiveMessage(r) \/ TimeOut(r)
                           \/ Save(r) \/ Crash(r) \/ Cancel(r)
  BY <1>5, ChainsKeepOwners
     DEF Start, SendMessage, ReceiveMessage, TimeOut, Save, Crash, Cancel, Record, chains
<1>6. CASE Dial \/ UNCHANGED vars
  BY <1>6, ChainsKeepOwners DEF Dial, vars, chains
<1> QED
  BY <1>1, <1>2, <1>3, <1>4, <1>5, <1>6 DEF Next

\* The swap is atomic: whatever the two sides do, in whatever order and however
\* often a command dies before it saves, Alice gets the BTC only with her CYNC
\* locked, and the locked CYNC goes to whoever did not get the BTC.
THEOREM SwapIsAtomic == Spec => ImplementsAtomicSwap
<1>1. Init => Promise!AInit
  BY SwapConstants, SMTT(30) DEF Init, Promise!AInit
<1>2. SwapInv => FundsInv
  BY DEF SwapInv
<1> QED
  BY <1>1, <1>2, SwapInvariant, StepRefines, PTL DEF Spec, ImplementsAtomicSwap, Promise!ASpec
=============================================================================
