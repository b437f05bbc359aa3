-------------------------- MODULE FrostProperties --------------------------
(***************************************************************************)
(* What the FROST coordinator must keep, through concurrent requests,      *)
(* deadlines, crashes and failing saves.                                   *)
(***************************************************************************)
EXTENDS FrostCoord

FileContents == Session \cup {Torn}

\* All that can be on record about a session.
Fact ==
    ({"attached"} \X Participant) \cup
    ({"message"} \X Message) \cup
    ({"commitment"} \X Participant \X Commitment) \cup
    ({"share"} \X Participant \X Share) \cup
    ({"signature"} \X Signature) \cup
    ({"ended"} \X {"Aggregated", "Aborted"})

TaskState ==
    [pc    : {"main", "idle", "save", "write", "rename", "tell", "answer"},
     joins : BOOLEAN,
     ends  : BOOLEAN,
     adds  : SUBSET Fact,
     snap  : Session \cup {None},
     fd    : {"tmp", "file", "gone"},
     kept  : BOOLEAN,
     rx    : {"none", "quiet", "end"}]

\* Every variable has its type.
FrostTypeOK ==
    /\ session \in Session \cup {None}
    /\ file \in FileContents
    /\ tmp \in FileContents \cup {None}
    /\ task \in [Task -> TaskState]
    /\ faults \in 0..MaxFaults
    /\ promised \subseteq Fact
    /\ owed \subseteq Conn

\* A signature stands on a quorum: the session in memory and the one a restart
\* would load have a message once round 1 began, exactly Threshold commitments
\* once round 2 began (a commitment too many is refused), shares only from
\* those who committed, and a signature only over Threshold shares
\* (session.rs, invariants 2 and 3).
QuorumBehind(s) ==
    /\ s.state \in {"Round1", "Round2", "Aggregated"} => s.message # None
    /\ Submitted(s.commitment) \subseteq s.attached
    /\ Cardinality(s.attached) <= Total
    /\ s.state \in {"Round2", "Aggregated"} =>
          Cardinality(Submitted(s.commitment)) = Threshold
    /\ Submitted(s.share) \subseteq Submitted(s.commitment)
    /\ s.signature # None <=> s.state = "Aggregated"
    /\ s.state = "Aggregated" => Cardinality(Submitted(s.share)) = Threshold

SignedByQuorum == \A s \in {session, file} \ {None, Torn} : QuorumBehind(s)

\* Nothing that was broadcast or answered as accepted is ever taken back: the
\* message, the commitments, the shares, the signature and the end of a session
\* stay as they were announced, also after a crash and a restart from the file,
\* unless the save of that very request met an I/O error (apply_transition
\* saves before it tells, and persist holds the read lock to its end).
AcceptedIsKept == up => promised \subseteq Facts(session)

\* The file never goes back to an earlier session: when a task's save lands on
\* it, all that a restart would have loaded before is still there.
FileAdvances ==
    [][Torn \notin {file, file'} => Facts(file) \subseteq Facts(file')]_vars

\* Whoever listened when a session was completed or aborted hears of its end:
\* once no request is under way, the news is in the receiver of every connection
\* that has not had it yet and has not left, also when the save failed.
ListenersHearTheEnd ==
    (\A c \in Conn : task[c].pc = "idle") => \A c \in owed : task[c].rx = "end"

---------------------------------------------------------------------------
\* The inductive invariant behind them

\* A session as apply leaves it: the quorum behind it, and fewer commitments than
\* Threshold as long as round 2 has not begun.
Sound(s) ==
    /\ QuorumBehind(s)
    /\ IsFiniteSet(s.attached)
    /\ s.state \in {"Created", "Invited", "Round1"} =>
          Cardinality(Submitted(s.commitment)) < Threshold

\* While a save holds the read lock the session stands still: every open save
\* has the session of now, and so has what it wrote to the temporary file or,
\* when that file has been renamed already, to the file itself.
LockHolds ==
    /\ \A t \in Task : task[t].pc \in {"write", "rename"} => task[t].snap = session
    /\ ReadLocked => tmp \in {None, Torn, session}
    /\ ReadLocked /\ tmp = None => file \in {Torn, session}

InRequest == {"save", "write", "rename", "tell"}

\* The file is behind the session, and what was told is in both; a request that is
\* about to tell without an error has its own additions in the file.
TellsWhatIsKept ==
    /\ up => promised \subseteq Facts(session)
    /\ file # Torn => promised \subseteq Facts(file)
    /\ up /\ file # Torn => Facts(file) \subseteq Facts(session)
    /\ \A c \in Conn :
          /\ task[c].pc \in InRequest => task[c].adds \subseteq Facts(session)
          /\ task[c].pc = "tell" /\ task[c].kept /\ file # Torn =>
                task[c].adds \subseteq Facts(file)

\* A connection that is owed the end has it, or a request that will tell of it is
\* under way; no connection that is owed it is about to subscribe afresh.
EndIsOnItsWay ==
    /\ owed # {} => up /\ is_terminal(session.state)
    /\ \A c \in owed : ~task[c].joins /\ task[c].rx # "none"
    /\ \A c \in owed : task[c].rx = "quiet" =>
          \E d \in Conn : task[d].ends /\ task[d].pc \in InRequest
    /\ \A c \in Conn : task[c].pc = "answer" => task[c].joins

\* The inductive invariant of the coordinator: the session and what can be read of
\* the file are sound, a task that saves holds the lock on the session it saves, what
\* was told is kept, and an end that is owed is on its way (coord.rs, session.rs,
\* persistence.rs).
FrostInv ==
    /\ FrostTypeOK
    /\ \A s \in {session, file} \ {None, Torn} : Sound(s)
    /\ ~up => \A t \in Task : task[t].pc \in {"main", "idle"}
    /\ LockHolds
    /\ TellsWhatIsKept
    /\ EndIsOnItsWay
=============================================================================
