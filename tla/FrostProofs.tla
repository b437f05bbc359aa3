---------------------------- MODULE FrostProofs ----------------------------
(***************************************************************************)
(* The coordinator of FrostCoord keeps what it tells, for any participants,*)
(* threshold, connections and number of faults.  FrostInv is the inductive *)
(* invariant: first what Session::apply does to one session, then one      *)
(* lemma for each step of the process.                                     *)
(***************************************************************************)
EXTENDS FrostProperties, FiniteSetTheorems, TLAPS

\* Leaves are first-order and left to Zenon, unless they cite the SMT solver.
USE ZenonT(60)

---------------------------------------------------------------------------
\* One session under apply

\* The outcomes that a handler of Session::apply can have, as the step from s to r.
Grows(s, r) ==
    /\ r \in Session
    /\ Sound(r)
    /\ Facts(s) \subseteq Facts(r)

\* What is on record about a session is a set of facts.
LEMMA FactsType == ASSUME NEW s \in Session PROVE Facts(s) \subseteq Fact
<1> SUFFICES ASSUME NEW x \in Facts(s) PROVE x \in Fact
  OBVIOUS
<1>1. CASE x \in {<<"attached", p>> : p \in s.attached}
  BY <1>1, SMTT(30) DEF Fact, Session
<1>2. CASE x \in {<<"message", b>> : b \in {s.message} \ {None}}
  BY <1>2, SMTT(30) DEF Fact, Session
<1>3. CASE x \in {<<"commitment", p, s.commitment[p]>> : p \in Submitted(s.commitment)}
  BY <1>3, SMTT(30) DEF Fact, Session, Submitted
<1>4. CASE x \in {<<"share", p, s.share[p]>> : p \in Submitted(s.share)}
  BY <1>4, SMTT(30) DEF Fact, Session, Submitted
<1>5. CASE x \in {<<"signature", b>> : b \in {s.signature} \ {None}}
  BY <1>5, SMTT(30) DEF Fact, Session
<1>6. CASE x \in {<<"ended", y>> : y \in {s.state} \cap {"Aggregated", "Aborted"}}
  BY <1>6, SMTT(30) DEF Fact
<1> QED
  BY <1>1, <1>2, <1>3, <1>4, <1>5, <1>6 DEF Facts

\* A session that has every entry of another, unchanged, has all that is on record
\* about it.
LEMMA FactsGrow ==
  ASSUME NEW s \in Session, NEW r \in Session,
         s.attached \subseteq r.attached,
         s.message # None => r.message = s.message,
         \A p \in Submitted(s.commitment) :
            p \in Submitted(r.commitment) /\ r.commitment[p] = s.commitment[p],
         \A p \in Submitted(s.share) :
            p \in Submitted(r.share) /\ r.share[p] = s.share[p],
         s.signature # None => r.signature = s.signature,
         s.state \in {"Aggregated", "Aborted"} => r.state = s.state
  PROVE  Facts(s) \subseteq Facts(r)
<1> SUFFICES ASSUME NEW x \in Facts(s) PROVE x \in Facts(r)
  OBVIOUS
<1>1. CASE x \in {<<"attached", p>> : p \in s.attached}
  BY <1>1, Zenon DEF Facts
<1>2. CASE x \in {<<"message", b>> : b \in {s.message} \ {None}}
  BY <1>2, Zenon DEF Facts
<1>3. CASE x \in {<<"commitment", p, s.commitment[p]>> : p \in Submitted(s.commitment)}
  BY <1>3, Zenon DEF Facts
<1>4. CASE x \in {<<"share", p, s.share[p]>> : p \in Submitted(s.share)}
  BY <1>4, Zenon DEF Facts
<1>5. CASE x \in {<<"signature", b>> : b \in {s.signature} \ {None}}
  BY <1>5, Zenon DEF Facts
<1>6. CASE x \in {<<"ended", y>> : y \in {s.state} \cap {"Aggregated", "Aborted"}}
  BY <1>6, Zenon DEF Facts
<1> QED
  BY <1>1, <1>2, <1>3, <1>4, <1>5, <1>6 DEF Facts

\* A new session has no quorum and needs none.
LEMMA NewSound == New \in Session /\ Sound(New) /\ Facts(New) = {}
<1>1. New \in Session
  BY DEF New, Session, SessionState
<1>2. Submitted(New.commitment) = {} /\ Submitted(New.share) = {} /\ New.attached = {}
  BY DEF New, Submitted
<1>3. IsFiniteSet({}) /\ Cardinality({}) = 0
  BY FS_EmptySet
<1>4. Sound(New)
  BY <1>2, <1>3, FrostConstants, SMTT(30) DEF Sound, QuorumBehind, New
<1>5. Facts(New) = {}
  BY <1>2 DEF Facts, New
<1> QED
  BY <1>1, <1>4, <1>5

\* The end of a session by an abort or by its deadline leaves its record alone.
LEMMA EndGrows ==
  ASSUME NEW s \in Session, Sound(s), ~is_terminal(s.state),
         NEW x \in {"Aborted", "Expired"}
  PROVE  Grows(s, transition_to(s, x))
<1> DEFINE r == transition_to(s, x)
<1>1. /\ r \in Session /\ r.state = x
      /\ r.attached = s.attached /\ r.message = s.message /\ r.signature = s.signature
      /\ r.commitment = s.commitment /\ r.share = s.share
  BY DEF transition_to, Session, SessionState
<1> HIDE DEF r
<1>2. Sound(r)
  BY <1>1 DEF Sound, QuorumBehind, is_terminal
<1>3. Facts(s) \subseteq Facts(r)
  BY <1>1, FactsGrow DEF is_terminal
<1> QED
  BY <1>1, <1>2, <1>3 DEF Grows, r

\* handle_attach never has more than Total participants; a refused attach may still
\* move a new session on to Invited.
LEMMA AttachGrows ==
  ASSUME NEW s \in Session, Sound(s), ~is_terminal(s.state), NEW p \in Participant
  PROVE  Grows(s, handle_attach(s, p).session)
<1> DEFINE i == IF s.state = "Created" THEN transition_to(s, "Invited") ELSE s
           j == [i EXCEPT !.attached = @ \cup {p}]
<1>1. /\ i \in Session
      /\ i.state = IF s.state = "Created" THEN "Invited" ELSE s.state
      /\ i.attached = s.attached /\ i.message = s.message /\ i.signature = s.signature
      /\ i.commitment = s.commitment /\ i.share = s.share
  BY DEF transition_to, Session, SessionState
<1>2. /\ j \in Session /\ j.state = i.state
      /\ j.attached = i.attached \cup {p} /\ j.message = i.message
      /\ j.signature = i.signature /\ j.commitment = i.commitment /\ j.share = i.share
  BY <1>1 DEF Session
<1>3. \/ handle_attach(s, p).session \in {s, i}
      \/ /\ handle_attach(s, p).session = j
         /\ p \in s.attached \/ ~(Cardinality(s.attached) >= Total)
  BY <1>1 DEF handle_attach, Ok, Err
<1> HIDE DEF i, j
<1>4. Grows(s, s)
  BY DEF Grows
<1>5. Sound(i)
  BY <1>1 DEF Sound, QuorumBehind
<1>6. Grows(s, i)
  BY <1>1, <1>5, FactsGrow DEF Grows
<1>7. ASSUME p \in s.attached \/ ~(Cardinality(s.attached) >= Total)
      PROVE  Grows(s, j)
  <2>1. IsFiniteSet(s.attached) /\ Cardinality(s.attached) \in Nat
    BY FS_CardinalityType DEF Sound
  <2>2. /\ IsFiniteSet(s.attached \cup {p})
        /\ p \in s.attached => Cardinality(s.attached \cup {p}) = Cardinality(s.attached)
        /\ p \notin s.attached =>
              Cardinality(s.attached \cup {p}) = Cardinality(s.attached) + 1
    BY <2>1, FS_AddElement
  <2>3. Cardinality(j.attached) <= Total /\ IsFiniteSet(j.attached)
    BY <1>1, <1>2, <1>7, <2>1, <2>2, FrostConstants, SMTT(30) DEF Sound, QuorumBehind
  <2>4. Sound(j)
    BY <1>1, <1>2, <1>5, <2>3 DEF Sound, QuorumBehind
  <2> QED
    BY <1>1, <1>2, <2>4, FactsGrow DEF Grows
<1> QED
  BY <1>3, <1>4, <1>6, <1>7

\* handle_declare_message sets the message once.
LEMMA MessageGrows ==
  ASSUME NEW s \in Session, Sound(s), NEW m \in Message
  PROVE  Grows(s, handle_declare_message(s, m).session)
<1> DEFINE r == transition_to([s EXCEPT !.message = m], "Round1")
<1>1. /\ r \in Session /\ r.state = "Round1" /\ r.message = m
      /\ r.attached = s.attached /\ r.signature = s.signature
      /\ r.commitment = s.commitment /\ r.share = s.share
  BY DEF transition_to, Session, SessionState
<1>2. \/ handle_declare_message(s, m).session = s
      \/ /\ handle_declare_message(s, m).session = r
         /\ s.state = "Invited" /\ s.message = None
  BY DEF handle_declare_message, Ok, Err
<1> HIDE DEF r
<1>3. Grows(s, s)
  BY DEF Grows
<1>4. ASSUME s.state = "Invited", s.message = None PROVE Grows(s, r)
  <2>1. Sound(r)
    BY <1>1, <1>4, FrostConstants DEF Sound, QuorumBehind
  <2> QED
    BY <1>1, <1>4, <2>1, FactsGrow DEF Grows
<1> QED
  BY <1>2, <1>3, <1>4

\* handle_round1 takes one commitment of each participant, and round 2 begins with
\* exactly Threshold of them.
LEMMA Round1Grows ==
  ASSUME NEW s \in Session, Sound(s), NEW p \in Participant, NEW k \in Commitment
  PROVE  Grows(s, handle_round1(s, p, k).session)
<1> DEFINE t == [s EXCEPT !.commitment[p] = k]
           u == transition_to(t, "Round2")
           full == Cardinality(Submitted(t.commitment)) >= Threshold
<1>1. /\ t \in Session /\ t.state = s.state /\ t.message = s.message
      /\ t.attached = s.attached /\ t.signature = s.signature /\ t.share = s.share
      /\ t.commitment = [s.commitment EXCEPT ![p] = k]
  BY DEF Session
<1>2. /\ u \in Session /\ u.state = "Round2" /\ u.message = s.message
      /\ u.attached = s.attached /\ u.signature = s.signature /\ u.share = s.share
      /\ u.commitment = t.commitment
  BY <1>1 DEF transition_to, Session, SessionState
<1>3. \/ handle_round1(s, p, k).session = s
      \/ /\ handle_round1(s, p, k).session = IF full THEN u ELSE t
         /\ s.state = "Round1" /\ p \in s.attached /\ s.commitment[p] = None
  BY DEF handle_round1, Ok, Err
<1> HIDE DEF t, u
<1>4. Grows(s, s)
  BY DEF Grows
<1>5. ASSUME s.state = "Round1", p \in s.attached, s.commitment[p] = None
      PROVE  Grows(s, IF full THEN u ELSE t)
  <2> DEFINE before == Submitted(s.commitment)
             after  == Submitted(t.commitment)
  <2>1. k # None
    BY FrostConstants
  <2>2. after = before \cup {p} /\ p \notin before
    BY <1>1, <1>5, <2>1, SMTT(30) DEF Submitted, Session
  <2>3. \A q \in before : q \in after /\ t.commitment[q] = s.commitment[q]
    BY <1>1, <1>5, <2>2 DEF Submitted, Session
  <2>4. after \subseteq s.attached /\ before \subseteq s.attached
    BY <1>5, <2>2 DEF Sound, QuorumBehind
  <2> HIDE DEF before, after
  <2>5. IsFiniteSet(before) /\ Cardinality(before) \in Nat
    BY <2>4, FS_Subset, FS_CardinalityType DEF Sound
  <2>6. Cardinality(after) = Cardinality(before) + 1
    BY <2>2, <2>5, FS_AddElement
  <2>7. Cardinality(before) < Threshold
    BY <1>5 DEF Sound, before
  <2>8. /\ full => Cardinality(after) = Threshold
        /\ ~full => Cardinality(after) < Threshold
    BY <2>5, <2>6, <2>7, FrostConstants, SMTT(30) DEF after
  <2>9. s.share = t.share /\ Submitted(s.share) \subseteq after
    BY <1>1, <2>2 DEF Sound, QuorumBehind, before
  <2>10. ASSUME full PROVE Sound(u)
    BY <1>2, <1>5, <2>4, <2>8, <2>9, <2>10 DEF Sound, QuorumBehind, after
  <2>11. ASSUME ~full PROVE Sound(t)
    BY <1>1, <1>5, <2>4, <2>8, <2>9, <2>11 DEF Sound, QuorumBehind, after
  <2>12. Facts(s) \subseteq Facts(t) /\ Facts(s) \subseteq Facts(u)
    BY <1>1, <1>2, <1>5, <2>3, FactsGrow DEF before, after
  <2> QED
    BY <1>1, <1>2, <2>10, <2>11, <2>12 DEF Grows
<1> QED
  BY <1>3, <1>4, <1>5

\* handle_round2 takes one share of each participant who committed.
LEMMA Round2Grows ==
  ASSUME NEW s \in Session, Sound(s), NEW p \in Participant, NEW z \in Share
  PROVE  Grows(s, handle_round2(s, p, z).session)
<1> DEFINE t == [s EXCEPT !.share[p] = z]
<1>1. /\ t \in Session /\ t.state = s.state /\ t.message = s.message
      /\ t.attached = s.attached /\ t.signature = s.signature
      /\ t.commitment = s.commitment
      /\ t.share = [s.share EXCEPT ![p] = z]
  BY DEF Session
<1>2. \/ handle_round2(s, p, z).session = s
      \/ /\ handle_round2(s, p, z).session = t
         /\ s.state = "Round2" /\ s.commitment[p] # None /\ s.share[p] = None
  BY DEF handle_round2, Ok, Err
<1> HIDE DEF t
<1>3. Grows(s, s)
  BY DEF Grows
<1>4. ASSUME s.state = "Round2", s.commitment[p] # None, s.share[p] = None
      PROVE  Grows(s, t)
  <2>1. z # None
    BY FrostConstants
  <2>2. Submitted(t.share) = Submitted(s.share) \cup {p}
    BY <1>1, <1>4, <2>1 DEF Submitted, Session
  <2>3. \A q \in Submitted(s.share) : q \in Submitted(t.share) /\ t.share[q] = s.share[q]
    BY <1>1, <1>4, <2>2 DEF Submitted, Session
  <2>4. p \in Submitted(s.commitment)
    BY <1>4 DEF Submitted
  <2>5. Sound(t)
    BY <1>1, <1>4, <2>2, <2>4 DEF Sound, QuorumBehind
  <2> QED
    BY <1>1, <1>4, <2>3, <2>5, FactsGrow DEF Grows
<1> QED
  BY <1>2, <1>3, <1>4

\* handle_aggregate signs only over Threshold shares, and there are no more.
LEMMA AggregateGrows ==
  ASSUME NEW s \in Session, Sound(s), NEW g \in Signature
  PROVE  Grows(s, handle_aggregate(s, g).session)
<1> DEFINE r == transition_to([s EXCEPT !.signature = g], "Aggregated")
           enough == Cardinality(Submitted(s.share)) >= Threshold
<1>1. /\ r \in Session /\ r.state = "Aggregated" /\ r.signature = g
      /\ r.attached = s.attached /\ r.message = s.message
      /\ r.commitment = s.commitment /\ r.share = s.share
  BY DEF transition_to, Session, SessionState
<1>2. \/ handle_aggregate(s, g).session = s
      \/ /\ handle_aggregate(s, g).session = r
         /\ s.state = "Round2" /\ enough
  BY DEF handle_aggregate, Ok, Err
<1> HIDE DEF r
<1>3. Grows(s, s)
  BY DEF Grows
<1>4. ASSUME s.state = "Round2", enough PROVE Grows(s, r)
  <2> DEFINE committed == Submitted(s.commitment)
             shared    == Submitted(s.share)
  <2>1. shared \subseteq committed /\ committed \subseteq s.attached
        /\ Cardinality(committed) = Threshold
    BY <1>4 DEF Sound, QuorumBehind
  <2> HIDE DEF committed, shared
  <2>2. IsFiniteSet(committed)
    BY <2>1, FS_Subset DEF Sound
  <2>3. IsFiniteSet(shared) /\ Cardinality(shared) <= Cardinality(committed)
        /\ Cardinality(shared) \in Nat
    BY <2>1, <2>2, FS_Subset, FS_CardinalityType
  <2>4. Cardinality(shared) = Threshold
    BY <1>4, <2>1, <2>3, FrostConstants, SMTT(30) DEF shared
  <2>5. g # None
    BY FrostConstants
  <2>6. s.signature = None
    BY <1>4 DEF Sound, QuorumBehind
  <2>7. Sound(r)
    BY <1>1, <1>4, <2>1, <2>4, <2>5 DEF Sound, QuorumBehind, committed, shared
  <2> QED
    BY <1>1, <1>4, <2>6, <2>7, FactsGrow DEF Grows
<1> QED
  BY <1>2, <1>3, <1>4

\* Whatever is asked of a session, in time or past its deadline, apply leaves a
\* session with its quorum behind it and everything on record that was.
LEMMA ApplyGrows ==
  ASSUME NEW s \in Session, Sound(s), NEW t \in Transition, NEW late \in BOOLEAN
  PROVE  /\ Grows(s, apply(s, t, late).session)
         /\ apply(s, t, late).ok \in BOOLEAN
<1>1. Grows(s, s)
  BY DEF Grows
<1>2. CASE is_terminal(s.state)
  BY <1>1, <1>2 DEF apply, Err
<1>3. CASE ~is_terminal(s.state) /\ late
  BY <1>3, EndGrows DEF apply, Err
<1>4. CASE ~is_terminal(s.state) /\ ~late
  <2>1. CASE t.kind = "attach"
    <3>1. t.who \in Participant
      BY <2>1 DEF Transition
    <3>2. apply(s, t, late) = handle_attach(s, t.who)
      BY <1>4, <2>1 DEF apply
    <3> QED
      BY <1>4, <3>1, <3>2, AttachGrows, SMTT(30) DEF handle_attach, Ok, Err
  <2>2. CASE t.kind = "message"
    <3>1. t.bytes \in Message
      BY <2>2 DEF Transition
    <3>2. apply(s, t, late) = handle_declare_message(s, t.bytes)
      BY <1>4, <2>2 DEF apply
    <3> QED
      BY <3>1, <3>2, MessageGrows, SMTT(30) DEF handle_declare_message, Ok, Err
  <2>3. CASE t.kind = "round1"
    <3>1. t.who \in Participant /\ t.bytes \in Commitment
      BY <2>3 DEF Transition
    <3>2. apply(s, t, late) = handle_round1(s, t.who, t.bytes)
      BY <1>4, <2>3 DEF apply
    <3> QED
      BY <3>1, <3>2, Round1Grows, SMTT(30) DEF handle_round1, Ok, Err
  <2>4. CASE t.kind = "round2"
    <3>1. t.who \in Participant /\ t.bytes \in Share
      BY <2>4 DEF Transition
    <3>2. apply(s, t, late) = handle_round2(s, t.who, t.bytes)
      BY <1>4, <2>4 DEF apply
    <3> QED
      BY <3>1, <3>2, Round2Grows, SMTT(30) DEF handle_round2, Ok, Err
  <2>5. CASE t.kind = "aggregate"
    <3>1. t.bytes \in Signature
      BY <2>5 DEF Transition
    <3>2. apply(s, t, late) = handle_aggregate(s, t.bytes)
      BY <1>4, <2>5 DEF apply
    <3> QED
      BY <3>1, <3>2, AggregateGrows, SMTT(30) DEF handle_aggregate, Ok, Err
  <2>6. CASE t.kind = "abort"
    <3>1. apply(s, t, late) = Ok(transition_to(s, "Aborted"))
      BY <1>4, <2>6 DEF apply
    <3> QED
      BY <1>4, <3>1, EndGrows, SMTT(30) DEF Ok
  <2>7. CASE t.kind = "tick"
    <3>1. apply(s, t, late) = Ok(s)
      BY <1>4, <2>7 DEF apply
    <3> QED
      BY <1>1, <3>1, SMTT(30) DEF Ok
  <2> QED
    BY <2>1, <2>2, <2>3, <2>4, <2>5, <2>6, <2>7 DEF Transition
<1> QED
  BY <1>2, <1>3, <1>4

\* A session that has ended refuses everything and stays as it is.
LEMMA EndedRefuses ==
  ASSUME NEW s, NEW t, NEW late, is_terminal(s.state)
  PROVE  apply(s, t, late) = Err(s)
BY DEF apply

---------------------------------------------------------------------------
\* The steps of the process

\* The fields of a task at rest.
LEMMA RestFields ==
  ASSUME NEW pc \in {"main", "idle", "answer"}, NEW rx \in {"none", "quiet", "end"}
  PROVE  /\ Rest(pc, rx) \in TaskState
         /\ Rest(pc, rx).pc = pc /\ Rest(pc, rx).rx = rx
         /\ ~Rest(pc, rx).joins /\ ~Rest(pc, rx).ends /\ Rest(pc, rx).adds = {}
  BY DEF Rest, TaskState

\* The coordinator starts with the session it has just created and saved.
LEMMA InitInv == Init => FrostInv
<1> SUFFICES ASSUME Init PROVE FrostInv
  OBVIOUS
<1>1. /\ task \in [Task -> TaskState]
      /\ \A t \in Task : /\ task[t].pc \in {"main", "idle"} /\ task[t].rx = "none"
                         /\ task[t].adds = {}
  BY RestFields DEF Init
<1>2. New \in Session /\ Sound(New) /\ Facts(New) = {}
  BY NewSound
<1>3. FrostTypeOK
  BY <1>1, <1>2, CoordConstants, SMTT(30) DEF Init, FrostTypeOK, FileContents
<1>4. LockHolds
  BY <1>1 DEF LockHolds, ReadLocked
<1>5. TellsWhatIsKept
  BY <1>1, <1>2 DEF Init, TellsWhatIsKept, InRequest, Task
<1>6. EndIsOnItsWay
  BY <1>1 DEF Init, EndIsOnItsWay, Task
<1> QED
  BY <1>1, <1>2, <1>3, <1>4, <1>5, <1>6 DEF Init, FrostInv, up

\* A connection that closes is owed nothing any more.
LEMMA CloseInv == ASSUME FrostInv, NEW c \in Conn, Close(c) PROVE FrostInv'
<1>1. /\ task' \in [Task -> TaskState] /\ c \in Task
      /\ \A t \in Task \ {c} : task'[t] = task[t]
      /\ task[c].pc = "idle" /\ task'[c].pc = "idle"
  BY RestFields DEF Close, FrostInv, FrostTypeOK, Task
<1>2. FrostTypeOK'
  BY <1>1 DEF Close, FrostInv, FrostTypeOK
<1>3. LockHolds'
  BY <1>1 DEF Close, FrostInv, LockHolds, ReadLocked
<1>4. TellsWhatIsKept'
  BY <1>1, SMTT(30) DEF Close, FrostInv, TellsWhatIsKept, InRequest, up
<1>5. EndIsOnItsWay'
  BY <1>1 DEF Close, FrostInv, FrostTypeOK, EndIsOnItsWay, InRequest, Task, up
<1>6. up' = up /\ \A s \in {session', file'} \ {None, Torn} : Sound(s)
  BY DEF Close, FrostInv, up
<1> QED
  BY <1>1, <1>2, <1>3, <1>4, <1>5, <1>6 DEF FrostInv, Close

\* The session grows in apply_transition, which waits for every save; what the file
\* has and what was told stays part of it, and whoever listens to a session that
\* ends is owed the news by the request that ended it.
LEMMA ApplyInv ==
  ASSUME FrostInv, NEW c \in Conn, NEW t \in Transition, NEW late \in BOOLEAN,
         ApplyTransition(c, t, late)
  PROVE  FrostInv'
<1> DEFINE r == apply(session, t, late)
           ends == r.ok /\ is_terminal(r.session.state)
<1>1. /\ session \in Session /\ session # None /\ session # Torn /\ Sound(session)
      /\ c \in Task
  BY CoordConstants DEF ApplyTransition, FrostInv, FrostTypeOK, up, Task
<1>2. /\ r.session \in Session /\ Sound(r.session) /\ r.ok \in BOOLEAN
      /\ Facts(session) \subseteq Facts(r.session)
  BY <1>1, ApplyGrows DEF Grows
<1>3. is_terminal(session.state) => ~r.ok /\ r.session = session
  BY EndedRefuses, SMTT(30) DEF Err
<1>4. r.ok /\ t.kind = "attach" => ~is_terminal(r.session.state)
  <2>1. handle_attach(session, t.who).ok =>
          handle_attach(session, t.who).session.state = "Invited"
    BY <1>1 DEF handle_attach, transition_to, Ok, Err, Session
  <2> QED
    BY <2>1 DEF apply, is_terminal, Err, r
<1> HIDE DEF r
<1>type. Facts(r.session) \subseteq Fact
  BY <1>2, FactsType
<1>5. /\ task[c].pc = "idle" /\ ~ReadLocked /\ session' = r.session
      /\ UNCHANGED <<file, tmp, faults, promised>>
      /\ owed' = IF ends THEN {d \in Conn : Listening(d)} ELSE owed
      /\ task' = [task EXCEPT ![c] =
                IF r.ok THEN [@ EXCEPT !.pc = "save", !.ends = ends,
                                       !.joins = (t.kind = "attach"),
                                       !.adds = Facts(r.session) \ Facts(session)]
                ELSE Rest("idle", @.rx)]
  BY DEF ApplyTransition, r
<1>6. /\ task' \in [Task -> TaskState]
      /\ \A u \in Task \ {c} : task'[u] = task[u]
      /\ task'[c].rx = task[c].rx
      /\ r.ok => /\ task'[c].pc = "save" /\ task'[c].ends = ends
                 /\ task'[c].joins = (t.kind = "attach")
                 /\ task'[c].adds = Facts(r.session) \ Facts(session)
      /\ ~r.ok => /\ task'[c].pc = "idle" /\ ~task'[c].joins
  <2>1. task \in [Task -> TaskState] /\ task[c] \in TaskState
    BY <1>1 DEF FrostInv, FrostTypeOK
  <2> DEFINE k == [task[c] EXCEPT !.pc = "save", !.ends = ends,
                                  !.joins = (t.kind = "attach"),
                                  !.adds = Facts(r.session) \ Facts(session)]
             i == Rest("idle", task[c].rx)
  <2>2. /\ k \in TaskState /\ k.pc = "save" /\ k.ends = ends /\ k.rx = task[c].rx
        /\ k.joins = (t.kind = "attach")
        /\ k.adds = Facts(r.session) \ Facts(session)
    BY <1>2, <1>type, <2>1 DEF TaskState
  <2>3. i \in TaskState /\ i.pc = "idle" /\ ~i.joins /\ i.rx = task[c].rx
    BY <2>1, RestFields, SMTT(30) DEF TaskState
  <2>4. task' = [task EXCEPT ![c] = IF r.ok THEN k ELSE i]
    BY <1>5
  <2> HIDE DEF k, i
  <2> QED
    BY <1>1, <1>2, <2>1, <2>2, <2>3, <2>4
<1>7. FrostTypeOK'
  BY <1>2, <1>5, <1>6 DEF FrostInv, FrostTypeOK
<1>8. LockHolds'
  BY <1>5, <1>6 DEF LockHolds, ReadLocked
<1>9. TellsWhatIsKept'
  BY <1>1, <1>2, <1>5, <1>6, SMTT(30) DEF FrostInv, TellsWhatIsKept, InRequest, up
<1>10. EndIsOnItsWay'
  <2>1. CASE ends
    <3>1. owed = {} /\ owed' = {d \in Conn : task[d].rx # "none" /\ ~task[d].joins}
      BY <1>3, <1>5, <2>1 DEF FrostInv, EndIsOnItsWay, Listening
    <3>2. session' # None /\ is_terminal(session'.state)
      BY <1>2, <1>5, <2>1, CoordConstants
    <3>3. \A d \in owed' : task'[d].rx # "none" /\ ~task'[d].joins
      BY <1>1, <1>6, <1>4, <2>1, <3>1 DEF Task
    <3>4. task'[c].ends /\ task'[c].pc = "save"
      BY <1>6, <2>1
    <3>5. \A d \in Conn : task'[d].pc = "answer" => task'[d].joins
      BY <1>6, <3>4 DEF FrostInv, EndIsOnItsWay, Task
    <3> QED
      BY <3>2, <3>3, <3>4, <3>5 DEF EndIsOnItsWay, InRequest, up
  <2>2. CASE ~ends
    <3>1. owed' = owed /\ (owed # {} => ~r.ok /\ session' = session)
      BY <1>3, <1>5, <2>2 DEF FrostInv, EndIsOnItsWay
    <3>2. \A d \in owed' : task'[d].rx = task[d].rx /\ ~task'[d].joins
      BY <1>6, <3>1 DEF FrostInv, FrostTypeOK, EndIsOnItsWay, Task
    <3>3. \A d \in Conn : task[d].pc \in InRequest => task'[d] = task[d]
      BY <1>5, <1>6 DEF InRequest, Task
    <3>4. \A d \in Conn : task'[d].pc = "answer" => task'[d].joins
      BY <1>2, <1>6 DEF FrostInv, EndIsOnItsWay, Task
    <3> QED
      BY <3>1, <3>2, <3>3, <3>4 DEF FrostInv, EndIsOnItsWay, up
  <2> QED
    BY <2>1, <2>2
<1>11. up' /\ \A s \in {session', file'} \ {None, Torn} : Sound(s)
  BY <1>2, <1>5, CoordConstants DEF FrostInv, up
<1> QED
  BY <1>7, <1>8, <1>9, <1>10, <1>11 DEF FrostInv

\* A save begins: the temporary file is empty and the session is as it was read.
LEMMA StartSaveInv ==
  ASSUME FrostInv, up, NEW t \in Task, task[t].pc \in {"save", "main"}, StartSave(t),
         UNCHANGED <<session, file, promised, owed>>,
         t = Main \/ task[t].pc = "save",
         faults' \in 0..MaxFaults
  PROVE  FrostInv'
<1>1. task \in [Task -> TaskState] /\ session \in Session
  BY DEF FrostInv, FrostTypeOK, up
<1>2. /\ task' \in [Task -> TaskState]
      /\ \A u \in Task \ {t} : task'[u] = task[u]
      /\ task'[t].pc = "write" /\ task'[t].snap = session
      /\ task'[t].ends = task[t].ends /\ task'[t].joins = task[t].joins
      /\ task'[t].adds = task[t].adds /\ task'[t].rx = task[t].rx
  <2> DEFINE k == [task[t] EXCEPT !.pc = "write", !.snap = session, !.fd = "tmp"]
  <2>1. task' = [task EXCEPT ![t] = k]
    BY <1>1 DEF StartSave
  <2>2. /\ k \in TaskState /\ k.pc = "write" /\ k.snap = session
        /\ k.ends = task[t].ends /\ k.joins = task[t].joins
        /\ k.adds = task[t].adds /\ k.rx = task[t].rx
    BY <1>1 DEF TaskState
  <2> HIDE DEF k
  <2> QED
    BY <1>1, <2>1, <2>2
<1>3. FrostTypeOK'
  BY <1>2 DEF FrostInv, FrostTypeOK, StartSave, FileContents
<1>4. LockHolds'
  <2>1. \A u \in Task : task'[u].pc \in {"write", "rename"} => task'[u].snap = session'
    BY <1>2 DEF FrostInv, LockHolds
  <2>2. tmp' = Torn
    BY DEF StartSave
  <2> QED
    BY <2>1, <2>2, CoordConstants DEF LockHolds
<1>5. TellsWhatIsKept'
  BY <1>2, CoordConstants DEF FrostInv, TellsWhatIsKept, InRequest, Task, up
<1>6. EndIsOnItsWay'
  BY <1>2, CoordConstants, SMTT(30) DEF FrostInv, FrostTypeOK, EndIsOnItsWay, InRequest, Task, up
<1> QED
  BY <1>3, <1>4, <1>5, <1>6 DEF FrostInv, up

\* A task that has not come to rest belongs to a process that is up.
LEMMA BusyIsUp ==
  ASSUME FrostInv, NEW t \in Task, task[t].pc \notin {"main", "idle"}
  PROVE  up /\ session \in Session /\ session # Torn /\ Sound(session)
  BY CoordConstants DEF FrostInv, FrostTypeOK, up

\* persist opens the temporary file.
LEMMA SaveOpenInv == ASSUME FrostInv, NEW c \in Conn, SaveOpen(c) PROVE FrostInv'
  BY StartSaveInv, BusyIsUp DEF SaveOpen, FrostInv, FrostTypeOK, Task

\* SIGINT starts the last save.
LEMMA ShutdownInv == ASSUME FrostInv, Shutdown PROVE FrostInv'
<1>1. faults' \in 0..MaxFaults
  BY CoordConstants, SMTT(30) DEF Shutdown, FrostInv, FrostTypeOK
<1> QED
  BY <1>1, StartSaveInv DEF Shutdown, Task

\* What a task carries besides the place of its open file.
SameRequest(u) ==
    /\ task'[u].pc = task[u].pc /\ task'[u].joins = task[u].joins
    /\ task'[u].ends = task[u].ends /\ task'[u].adds = task[u].adds
    /\ task'[u].snap = task[u].snap /\ task'[u].kept = task[u].kept
    /\ task'[u].rx = task[u].rx

\* The write reaches the file it opened, wherever that is by now: the temporary
\* file, the file itself, or none.  It writes the session of now.
LEMMA SaveWriteInv == ASSUME FrostInv, NEW t \in Task, SaveWrite(t) PROVE FrostInv'
<1>1. /\ task \in [Task -> TaskState] /\ up /\ session \in Session /\ Sound(session)
      /\ task[t].pc = "write" /\ task[t].snap = session /\ session \notin {Torn, None}
  BY BusyIsUp DEF SaveWrite, FrostInv, FrostTypeOK, LockHolds, up
<1>2. /\ task' \in [Task -> TaskState]
      /\ \A u \in Task \ {t} : task'[u] = task[u]
      /\ task'[t].pc = "rename" /\ task'[t].snap = session
      /\ task'[t].ends = task[t].ends /\ task'[t].joins = task[t].joins
      /\ task'[t].adds = task[t].adds /\ task'[t].rx = task[t].rx
  <2> DEFINE k == [task[t] EXCEPT !.pc = "rename", !.fd = "gone"]
  <2>1. task' = [task EXCEPT ![t] = k]
    BY <1>1 DEF SaveWrite
  <2>2. /\ k \in TaskState /\ k.pc = "rename" /\ k.snap = session
        /\ k.ends = task[t].ends /\ k.joins = task[t].joins
        /\ k.adds = task[t].adds /\ k.rx = task[t].rx
    BY <1>1 DEF TaskState
  <2> HIDE DEF k
  <2> QED
    BY <1>1, <2>1, <2>2
<1>3. /\ tmp' \in {tmp, session} /\ file' \in {file, session}
      /\ UNCHANGED <<session, faults, promised, owed>>
  BY <1>1 DEF SaveWrite
<1>4. ReadLocked
  BY <1>1 DEF ReadLocked
<1>5. FrostTypeOK'
  BY <1>1, <1>2, <1>3 DEF FrostInv, FrostTypeOK, FileContents
<1>6. LockHolds'
  <2>1. \A u \in Task : task'[u].pc \in {"write", "rename"} => task'[u].snap = session'
    BY <1>2, <1>3 DEF FrostInv, LockHolds
  <2>2. tmp' \in {None, Torn, session'} /\ (tmp' = None => file' \in {Torn, session'})
    BY <1>1, <1>3, <1>4 DEF FrostInv, LockHolds
  <2> QED
    BY <2>1, <2>2 DEF LockHolds
<1>7. TellsWhatIsKept'
  BY <1>1, <1>2, <1>3, CoordConstants DEF FrostInv, TellsWhatIsKept, InRequest, Task, up
<1>8. EndIsOnItsWay'
  BY <1>1, <1>2, <1>3, SMTT(30) DEF FrostInv, FrostTypeOK, EndIsOnItsWay, InRequest, Task, up
<1> QED
  BY <1>1, <1>3, <1>5, <1>6, <1>7, <1>8 DEF FrostInv, up

\* The rename puts the session of now in the file, or an empty file that another
\* save has still to write; when another save has renamed the temporary file
\* already, the same holds of what that one left.
LEMMA SaveRenameInv == ASSUME FrostInv, NEW c \in Conn, SaveRename(c) PROVE FrostInv'
<1>1. /\ task \in [Task -> TaskState] /\ c \in Task
      /\ up /\ session \in Session /\ Sound(session)
      /\ task[c].pc = "rename" /\ session \notin {Torn, None}
  BY BusyIsUp DEF SaveRename, FrostInv, FrostTypeOK, Task, up
<1>2. ReadLocked
  BY <1>1 DEF ReadLocked
<1>3. /\ tmp' = None /\ file' \in {Torn, session}
      /\ UNCHANGED <<session, faults, promised, owed>>
  BY <1>1, <1>2 DEF SaveRename, FrostInv, LockHolds
<1>4. /\ task' \in [Task -> TaskState]
      /\ \A u \in Task \ {c} : SameRequest(u)
      /\ task'[c].pc = "tell"
      /\ task'[c].ends = task[c].ends /\ task'[c].joins = task[c].joins
      /\ task'[c].adds = task[c].adds /\ task'[c].rx = task[c].rx
  <2> DEFINE k == [task[c] EXCEPT !.pc = "tell", !.snap = None]
             moved(u) == [task[u] EXCEPT !.fd = IF @ = "tmp" THEN "file" ELSE "gone"]
  <2>1. /\ k \in TaskState /\ k.pc = "tell"
        /\ k.ends = task[c].ends /\ k.joins = task[c].joins
        /\ k.adds = task[c].adds /\ k.rx = task[c].rx
    BY <1>1 DEF TaskState
  <2>2. ASSUME NEW u \in Task
        PROVE  /\ moved(u) \in TaskState
               /\ moved(u).pc = task[u].pc /\ moved(u).joins = task[u].joins
               /\ moved(u).ends = task[u].ends /\ moved(u).adds = task[u].adds
               /\ moved(u).snap = task[u].snap /\ moved(u).kept = task[u].kept
               /\ moved(u).rx = task[u].rx
    <3>1. task[u] \in TaskState
      BY <1>1
    <3> QED
      BY <3>1 DEF TaskState
  <2>3. CASE tmp = None
    <3>1. task' = [task EXCEPT ![c] = k]
      BY <1>1, <2>3 DEF SaveRename
    <3> HIDE DEF k
    <3> QED
      BY <1>1, <2>1, <3>1 DEF SameRequest
  <2>4. CASE tmp # None
    <3>1. task' = [u \in Task |-> IF u = c THEN k ELSE moved(u)]
      BY <1>1, <2>4 DEF SaveRename
    <3> HIDE DEF k, moved
    <3> QED
      BY <1>1, <2>1, <2>2, <3>1 DEF SameRequest
  <2> QED
    BY <2>3, <2>4
<1>5. FrostTypeOK'
  BY <1>1, <1>3, <1>4 DEF FrostInv, FrostTypeOK, FileContents
<1>6. LockHolds'
  <2>1. \A u \in Task : task'[u].pc \in {"write", "rename"} => task'[u].snap = session'
    BY <1>3, <1>4 DEF FrostInv, LockHolds, SameRequest
  <2> QED
    BY <1>3, <2>1 DEF LockHolds
<1>7. TellsWhatIsKept'
  BY <1>1, <1>3, <1>4, SMTT(30) DEF FrostInv, TellsWhatIsKept, InRequest, SameRequest, Task, up
<1>8. EndIsOnItsWay'
  BY <1>1, <1>3, <1>4, SMTT(30)
     DEF FrostInv, FrostTypeOK, EndIsOnItsWay, InRequest, SameRequest, Task, up
<1> QED
  BY <1>1, <1>3, <1>5, <1>6, <1>7, <1>8 DEF FrostInv, up

\* An I/O error ends the save and not the request: it tells, but promises nothing.
LEMMA SaveFailsInv == ASSUME FrostInv, NEW c \in Conn, SaveFails(c) PROVE FrostInv'
<1>1. /\ task \in [Task -> TaskState] /\ c \in Task /\ up
      /\ task[c].pc \in {"save", "write", "rename"}
      /\ UNCHANGED <<session, file, tmp, promised, owed>>
  BY BusyIsUp DEF SaveFails, FrostInv, FrostTypeOK, Task
<1>2. /\ task' \in [Task -> TaskState]
      /\ \A u \in Task \ {c} : task'[u] = task[u]
      /\ task'[c].pc = "tell" /\ ~task'[c].kept
      /\ task'[c].ends = task[c].ends /\ task'[c].joins = task[c].joins
      /\ task'[c].adds = task[c].adds /\ task'[c].rx = task[c].rx
  <2> DEFINE k == [task[c] EXCEPT !.pc = "tell", !.snap = None, !.fd = "gone",
                                  !.kept = FALSE]
  <2>1. task' = [task EXCEPT ![c] = k]
    BY <1>1 DEF SaveFails
  <2>2. /\ k \in TaskState /\ k.pc = "tell" /\ ~k.kept
        /\ k.ends = task[c].ends /\ k.joins = task[c].joins
        /\ k.adds = task[c].adds /\ k.rx = task[c].rx
    BY <1>1 DEF TaskState
  <2> HIDE DEF k
  <2> QED
    BY <1>1, <2>1, <2>2
<1>3. faults' \in 0..MaxFaults
  BY CoordConstants, SMTT(30) DEF SaveFails, FrostInv, FrostTypeOK
<1>4. FrostTypeOK'
  BY <1>1, <1>2, <1>3 DEF FrostInv, FrostTypeOK
<1>5. LockHolds'
  BY <1>1, <1>2 DEF FrostInv, LockHolds, ReadLocked
<1>6. TellsWhatIsKept'
  BY <1>1, <1>2 DEF FrostInv, TellsWhatIsKept, InRequest, Task, up
<1>7. EndIsOnItsWay'
  BY <1>1, <1>2 DEF FrostInv, FrostTypeOK, EndIsOnItsWay, InRequest, Task, up
<1> QED
  BY <1>1, <1>4, <1>5, <1>6, <1>7 DEF FrostInv, up

\* The broadcast puts the news of the end in every receiver, and what was told is
\* in the file, or in an empty file's place in the session, by then.
LEMMA TellInv == ASSUME FrostInv, NEW c \in Conn, Tell(c) PROVE FrostInv'
<1> DEFINE heard(t) == IF task[t].rx = "quiet" /\ task[c].ends THEN "end" ELSE task[t].rx
<1>1. /\ task \in [Task -> TaskState] /\ c \in Task /\ up
      /\ task[c].pc = "tell"
      /\ UNCHANGED <<session, file, tmp, faults, owed>>
  BY BusyIsUp DEF Tell, FrostInv, FrostTypeOK, Task
<1>2. /\ task' \in [Task -> TaskState]
      /\ \A u \in Task : task'[u].rx = heard(u)
      /\ \A u \in Task \ {c} :
            /\ task'[u].pc = task[u].pc /\ task'[u].joins = task[u].joins
            /\ task'[u].ends = task[u].ends /\ task'[u].adds = task[u].adds
            /\ task'[u].snap = task[u].snap /\ task'[u].kept = task[u].kept
      /\ task'[c].pc = IF task[c].joins THEN "answer" ELSE "idle"
      /\ task'[c].joins = task[c].joins
  <2> DEFINE other(u) == [task[u] EXCEPT !.rx = heard(u)]
             joined   == [Rest("answer", heard(c)) EXCEPT !.joins = TRUE]
             rested   == Rest("idle", heard(c))
  <2>1. \A u \in Task : task[u] \in TaskState /\ heard(u) \in {"none", "quiet", "end"}
    BY <1>1 DEF TaskState
  <2>2. ASSUME NEW u \in Task
        PROVE  /\ other(u) \in TaskState /\ other(u).rx = heard(u)
               /\ other(u).pc = task[u].pc /\ other(u).joins = task[u].joins
               /\ other(u).ends = task[u].ends /\ other(u).adds = task[u].adds
               /\ other(u).snap = task[u].snap /\ other(u).kept = task[u].kept
    BY <2>1 DEF TaskState
  <2>3. /\ joined \in TaskState /\ joined.pc = "answer" /\ joined.rx = heard(c)
        /\ joined.joins
    <3>1. heard(c) \in {"none", "quiet", "end"}
      BY <1>1, <2>1
    <3> HIDE DEF heard
    <3> QED
      BY <3>1 DEF Rest, TaskState
  <2>4. rested \in TaskState /\ rested.pc = "idle" /\ rested.rx = heard(c) /\ ~rested.joins
    BY <1>1, <2>1, RestFields
  <2>5. task' = [t \in Task |-> IF t # c THEN other(t)
                                ELSE IF task[c].joins THEN joined ELSE rested]
    BY DEF Tell
  <2>6. task[c].joins \in BOOLEAN
    BY <1>1 DEF TaskState
  <2> HIDE DEF other, joined, rested, heard
  <2>7. \A u \in Task \ {c} : task'[u] = other(u)
    BY <2>5
  <2>8. task'[c] = IF task[c].joins THEN joined ELSE rested
    BY <1>1, <2>5
  <2>9. task' \in [Task -> TaskState]
    BY <2>2, <2>3, <2>4, <2>5
  <2>10. /\ task'[c].rx = heard(c)
         /\ task'[c].pc = IF task[c].joins THEN "answer" ELSE "idle"
         /\ task'[c].joins = task[c].joins
    BY <2>3, <2>4, <2>6, <2>8, <2>9, <1>1 DEF TaskState
  <2>11. \A u \in Task : task'[u].rx = heard(u)
    BY <2>2, <2>7, <2>10
  <2> QED
    BY <2>2, <2>7, <2>9, <2>10, <2>11
<1>3. promised' \in {promised, promised \cup task[c].adds}
  BY DEF Tell
<1>4. FrostTypeOK'
  BY <1>1, <1>2, <1>3 DEF FrostInv, FrostTypeOK, TaskState
<1>5. LockHolds'
  BY <1>1, <1>2 DEF FrostInv, LockHolds, ReadLocked
<1>6. TellsWhatIsKept'
  <2>1. /\ task[c].adds \subseteq Facts(session)
        /\ task[c].kept /\ file # Torn => task[c].adds \subseteq Facts(file)
    BY <1>1 DEF FrostInv, TellsWhatIsKept, InRequest
  <2>2. promised' = IF task[c].kept THEN promised \cup task[c].adds ELSE promised
    BY DEF Tell
  <2> QED
    BY <1>1, <1>2, <2>1, <2>2 DEF FrostInv, TellsWhatIsKept, InRequest, Task, up
<1>7. EndIsOnItsWay'
  <2>1. \A d \in owed : d \in Task /\ task[d].rx # "none" /\ ~task[d].joins
    BY DEF FrostInv, FrostTypeOK, EndIsOnItsWay, Task
  <2>2. \A d \in owed : task'[d].rx # "none" /\ ~task'[d].joins
    BY <1>2, <2>1
  <2>3. ASSUME NEW d \in owed, task'[d].rx = "quiet"
        PROVE  \E e \in Conn : task'[e].ends /\ task'[e].pc \in InRequest
    <3>1. task[d].rx = "quiet" /\ ~task[c].ends
      BY <1>2, <2>1, <2>3
    <3>2. PICK e \in Conn : task[e].ends /\ task[e].pc \in InRequest
      BY <3>1 DEF FrostInv, EndIsOnItsWay
    <3> QED
      BY <1>2, <3>1, <3>2 DEF Task
  <2>4. \A d \in Conn : task'[d].pc = "answer" => task'[d].joins
    BY <1>2 DEF FrostInv, EndIsOnItsWay, Task
  <2> QED
    BY <1>1, <2>2, <2>3, <2>4 DEF FrostInv, EndIsOnItsWay, up
<1> QED
  BY <1>1, <1>4, <1>5, <1>6, <1>7 DEF FrostInv, up

\* The answer to an attach subscribes a connection that nothing is owed.
LEMMA AnswerInv == ASSUME FrostInv, NEW c \in Conn, Answer(c) PROVE FrostInv'
<1>1. /\ task \in [Task -> TaskState] /\ c \in Task /\ up
      /\ task[c].pc = "answer" /\ task[c].joins /\ c \notin owed
      /\ UNCHANGED <<session, file, tmp, faults, promised, owed>>
  BY BusyIsUp DEF Answer, FrostInv, FrostTypeOK, EndIsOnItsWay, Task
<1>2. /\ task' \in [Task -> TaskState]
      /\ \A u \in Task \ {c} : task'[u] = task[u]
      /\ task'[c].pc = "idle" /\ ~task'[c].joins
  BY <1>1, RestFields DEF Answer
<1>3. FrostTypeOK'
  BY <1>1, <1>2 DEF FrostInv, FrostTypeOK
<1>4. LockHolds'
  BY <1>1, <1>2 DEF FrostInv, LockHolds, ReadLocked
<1>5. TellsWhatIsKept'
  BY <1>1, <1>2 DEF FrostInv, TellsWhatIsKept, InRequest, Task, up
<1>6. EndIsOnItsWay'
  BY <1>1, <1>2 DEF FrostInv, FrostTypeOK, EndIsOnItsWay, InRequest, Task, up
<1> QED
  BY <1>1, <1>3, <1>4, <1>5, <1>6 DEF FrostInv, up

\* A connection that reads the end from its receiver is owed it no more.
LEMMA DeliverInv == ASSUME FrostInv, NEW c \in Conn, Deliver(c) PROVE FrostInv'
<1>1. /\ task \in [Task -> TaskState] /\ c \in Task
      /\ task[c].pc = "idle" /\ owed' = owed \ {c}
      /\ UNCHANGED <<session, file, tmp, faults, promised>>
  BY DEF Deliver, FrostInv, FrostTypeOK, Task
<1>2. /\ task' \in [Task -> TaskState]
      /\ \A u \in Task \ {c} : task'[u] = task[u]
      /\ task'[c].pc = "idle"
  <2> DEFINE k == [task[c] EXCEPT !.rx = "quiet"]
  <2>1. task' = [task EXCEPT ![c] = k]
    BY <1>1 DEF Deliver
  <2>2. k \in TaskState /\ k.pc = "idle"
    BY <1>1 DEF TaskState
  <2> HIDE DEF k
  <2> QED
    BY <1>1, <2>1, <2>2
<1>3. FrostTypeOK'
  BY <1>1, <1>2 DEF FrostInv, FrostTypeOK
<1>4. LockHolds'
  BY <1>1, <1>2 DEF FrostInv, LockHolds, ReadLocked
<1>5. TellsWhatIsKept'
  BY <1>1, <1>2 DEF FrostInv, TellsWhatIsKept, InRequest, Task, up
<1>6. EndIsOnItsWay'
  BY <1>1, <1>2 DEF FrostInv, FrostTypeOK, EndIsOnItsWay, InRequest, Task, up
<1> QED
  BY <1>1, <1>2, <1>3, <1>4, <1>5, <1>6 DEF FrostInv, up

\* The process ends, with or without its last save: no task is left, and what was
\* told is in the file unless that was left empty.
LEMMA EndedInv ==
  ASSUME FrostInv, up, Ended,
         file' \in {file, Torn, session}, tmp' \in {tmp, None}, faults' \in 0..MaxFaults
  PROVE  FrostInv'
<1>1. session \in Session /\ session \notin {None, Torn} /\ Sound(session)
  BY CoordConstants DEF FrostInv, FrostTypeOK, up
<1>2. /\ session' = None /\ owed' = {} /\ promised' = promised
      /\ task' \in [Task -> TaskState]
      /\ \A t \in Task : task'[t].pc \in {"main", "idle"}
  BY RestFields DEF Ended
<1>3. FrostTypeOK'
  BY <1>1, <1>2 DEF FrostInv, FrostTypeOK, FileContents
<1>4. LockHolds'
  BY <1>2 DEF LockHolds, ReadLocked
<1>5. TellsWhatIsKept'
  BY <1>1, <1>2 DEF FrostInv, TellsWhatIsKept, InRequest, Task, up
<1>6. EndIsOnItsWay'
  BY <1>2 DEF EndIsOnItsWay, Task
<1> QED
  BY <1>1, <1>2, <1>3, <1>4, <1>5, <1>6 DEF FrostInv

\* The process exits with the rename of its last save.
LEMMA ExitInv == ASSUME FrostInv, Exit PROVE FrostInv'
<1>1. up /\ ReadLocked
  BY BusyIsUp DEF Exit, ReadLocked, Task
<1>2. file' \in {file, Torn, session}
  BY <1>1 DEF Exit, FrostInv, LockHolds
<1> QED
  BY <1>1, <1>2, EndedInv DEF Exit, FrostInv, FrostTypeOK

\* A crash leaves both files as they are.
LEMMA CrashInv == ASSUME FrostInv, Crash PROVE FrostInv'
<1>1. faults' \in 0..MaxFaults
  BY CoordConstants, SMTT(30) DEF Crash, FrostInv, FrostTypeOK
<1> QED
  BY <1>1, EndedInv DEF Crash

\* A restart loads the file: all that was told before is in it.
LEMMA StartInv == ASSUME FrostInv, Start PROVE FrostInv'
<1>1. /\ session' = file /\ file # Torn /\ file \in Session /\ file # None /\ ~up
      /\ UNCHANGED <<file, tmp, task, faults, promised, owed>>
  BY CoordConstants DEF Start, FrostInv, FrostTypeOK, FileContents
<1>2. /\ \A t \in Task : task[t].pc \in {"main", "idle"}
      /\ owed = {}
  BY <1>1 DEF FrostInv, EndIsOnItsWay
<1>3. FrostTypeOK'
  BY <1>1 DEF FrostInv, FrostTypeOK
<1>4. LockHolds'
  BY <1>1, <1>2 DEF LockHolds, ReadLocked
<1>5. TellsWhatIsKept'
  BY <1>1, <1>2 DEF FrostInv, TellsWhatIsKept, InRequest, Task, up
<1>6. EndIsOnItsWay'
  BY <1>1, <1>2 DEF EndIsOnItsWay, Task
<1> QED
  BY <1>1, <1>2, <1>3, <1>4, <1>5, <1>6 DEF FrostInv, up

\* The request that finds a session past its deadline may be any: a tick is one.
LEMMA AnythingType == Anything \in Transition
<1>1. [kind |-> "tick", who |-> None, bytes |-> None] \in Transition
  BY DEF Transition
<1>2. \E t \in Transition : t.kind = "tick"
  BY <1>1
<1> QED
  BY <1>2 DEF Anything

\* Every step of the coordinator keeps the invariant.
LEMMA NextInv == FrostInv /\ [Next]_vars => FrostInv'
<1> SUFFICES ASSUME FrostInv, [Next]_vars PROVE FrostInv'
  OBVIOUS
<1>1. CASE \E c \in Conn : \/ Close(c) \/ Tell(c) \/ Answer(c) \/ Deliver(c)
  BY <1>1, CloseInv, TellInv, AnswerInv, DeliverInv
<1>2. CASE \E c \in Conn : \/ \E t \in Transition : ApplyTransition(c, t, FALSE)
                           \/ ApplyTransition(c, Anything, TRUE)
  BY <1>2, ApplyInv, AnythingType
<1>3. CASE \E c \in Conn : SaveOpen(c) \/ SaveRename(c) \/ SaveFails(c)
  BY <1>3, SaveOpenInv, SaveRenameInv, SaveFailsInv
<1>4. CASE \E t \in Task : SaveWrite(t)
  BY <1>4, SaveWriteInv
<1>5. CASE Shutdown \/ Exit \/ Crash \/ Start
  BY <1>5, ShutdownInv, ExitInv, CrashInv, StartInv
<1>6. CASE UNCHANGED vars
  BY <1>6 DEF vars, FrostInv, FrostTypeOK, LockHolds, ReadLocked, TellsWhatIsKept,
              EndIsOnItsWay, up
<1> QED
  BY <1>1, <1>2, <1>3, <1>4, <1>5, <1>6 DEF Next

\* A step leaves the file alone, empties it, or makes it the session of now.
LEMMA FileMoves ==
  ASSUME FrostInv, [Next]_vars
  PROVE  file' = file \/ (up /\ file' \in {Torn, session})
<1>1. CASE \E c \in Conn : \/ Close(c) \/ Tell(c) \/ Answer(c) \/ Deliver(c)
                           \/ SaveOpen(c) \/ SaveFails(c)
                           \/ \E t \in Transition : ApplyTransition(c, t, FALSE)
                           \/ ApplyTransition(c, Anything, TRUE)
  BY <1>1 DEF Close, Tell, Answer, Deliver, SaveOpen, SaveFails, ApplyTransition
<1>2. CASE \E t \in Task : SaveWrite(t)
  BY <1>2, BusyIsUp DEF SaveWrite, FrostInv, LockHolds
<1>3. CASE \E c \in Conn : SaveRename(c)
  <2>1. PICK c \in Conn : SaveRename(c)
    BY <1>3
  <2>2. c \in Task /\ task[c].pc = "rename"
    BY <2>1 DEF SaveRename, Task
  <2>3. up /\ ReadLocked
    BY <2>2, BusyIsUp DEF ReadLocked
  <2> QED
    BY <2>1, <2>3 DEF SaveRename, FrostInv, LockHolds
<1>4. CASE Exit
  <2>1. up /\ ReadLocked
    BY <1>4, BusyIsUp DEF Exit, ReadLocked, Task
  <2> QED
    BY <1>4, <2>1 DEF Exit, FrostInv, LockHolds
<1>5. CASE Shutdown \/ Crash \/ Start \/ UNCHANGED vars
  BY <1>5 DEF Shutdown, Crash, Start, vars
<1> QED
  BY <1>1, <1>2, <1>3, <1>4, <1>5 DEF Next

---------------------------------------------------------------------------
\* The theorems

\* In every state that requests, concurrent saves, deadlines, failing writes,
\* shutdowns, crashes and restarts reach, the session, its file and the requests
\* under way agree as FrostInv says.
THEOREM FrostInvariant == Spec => []FrostInv
  BY InitInv, NextInv, PTL DEF Spec

\* A signature stands on exactly Threshold commitments and shares, in memory and in
\* the file a restart would load (Session::apply).
THEOREM SignaturesHaveQuorum == Spec => []SignedByQuorum
<1>1. FrostInv => SignedByQuorum
  BY DEF FrostInv, SignedByQuorum, Sound
<1> QED
  BY <1>1, FrostInvariant, PTL

\* Nothing the coordinator broadcast or answered as accepted is lost by a restart,
\* unless the save of that very request failed (apply_transition, persist).
THEOREM AnnouncedIsKept == Spec => []AcceptedIsKept
<1>1. FrostInv => AcceptedIsKept
  BY DEF FrostInv, TellsWhatIsKept, AcceptedIsKept
<1> QED
  BY <1>1, FrostInvariant, PTL

\* The file never goes back to an earlier session, however the saves of several
\* connections interleave over the one temporary name (SessionStore::save).
THEOREM FileNeverGoesBack == Spec => FileAdvances
<1>1. FrostInv /\ [Next]_vars =>
        [Torn \notin {file, file'} => Facts(file) \subseteq Facts(file')]_vars
  BY FileMoves DEF FrostInv, TellsWhatIsKept
<1> QED
  BY <1>1, FrostInvariant, PTL DEF Spec, FileAdvances

\* Once no request is under way, every connection that listened when the session
\* ended and has not left has the news of the end (the broadcast of apply_transition,
\* also after a save that failed).
THEOREM EndIsHeard == Spec => []ListenersHearTheEnd
<1>1. FrostInv => ListenersHearTheEnd
  BY DEF FrostInv, FrostTypeOK, TaskState, EndIsOnItsWay, InRequest, ListenersHearTheEnd, Task
<1> QED
  BY <1>1, FrostInvariant, PTL
=============================================================================
