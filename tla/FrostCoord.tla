----------------------------- MODULE FrostCoord -----------------------------
(***************************************************************************)
(* The FROST coordinator, bin/coord.rs over persistence.rs: connections    *)
(* that apply transitions to a session under the write lock, save it to a  *)
(* file under the read lock, broadcast the change and answer, one request  *)
(* at a time each, interleaved with one another, with crashes, with        *)
(* failing writes and with the save at shutdown.                           *)
(*                                                                         *)
(* One session is served: sessions share nothing but the file, which every *)
(* save writes whole.  A save opens (and truncates) <path>.tmp, writes it  *)
(* and renames it to <path>; every task uses the same temporary name.      *)
(* Requests that are refused before they reach the session (a malformed    *)
(* one, a bad token, the rate limit) change nothing and are left out, as   *)
(* are metrics.  A crash ends the process, not the machine: what was       *)
(* written to a file stays.                                                *)
(***************************************************************************)
EXTENDS FrostSession

CONSTANTS
    Conn,            \* connections, at most MAX_CONNECTIONS
    Main,            \* the task that waits for SIGINT
    Torn,            \* contents of a file that was opened and not yet written
    MaxFaults        \* bound: crashes, shutdowns and saves that fail

ASSUME CoordConstants ==
    /\ Main \notin Conn
    /\ Torn # None /\ {Torn, None} \cap Session = {}
    /\ MaxFaults \in Nat

Task == Conn \cup {Main}

VARIABLES
    session,    \* the session in memory, None while the process is down
    file, tmp,  \* contents of <path> and of <path>.tmp, None when absent
    task,       \* per task: where it is and what it holds
    faults,
    promised,   \* history: what was broadcast or answered as accepted
    owed        \* history: connections that must still hear how it ended

vars == <<session, file, tmp, task, faults, promised, owed>>

up == session # None

\* pc: idle, save (a transition was applied), write and rename (of the save,
\* under the read lock), tell, answer; Main rests at main.
\* fd is where the file the task has open is found now: tmp, file or gone.
\* joins: the request is an attach; ends: it ended the session; adds: what it put
\* on record; kept: its save met no error.
\* rx: none, or quiet, or end when the receiver holds the news of the end.
Rest(pc, rx) ==
    [pc |-> pc, joins |-> FALSE, ends |-> FALSE, adds |-> {},
     snap |-> None, fd |-> "gone", kept |-> TRUE, rx |-> rx]

\* What a session has on record, none of which may ever be taken back.
Facts(s) ==
    {<<"attached", p>> : p \in s.attached} \cup
    {<<"message", b>> : b \in {s.message} \ {None}} \cup
    {<<"commitment", p, s.commitment[p]>> : p \in Submitted(s.commitment)} \cup
    {<<"share", p, s.share[p]>> : p \in Submitted(s.share)} \cup
    {<<"signature", b>> : b \in {s.signature} \ {None}} \cup
    {<<"ended", x>> : x \in {s.state} \cap {"Aggregated", "Aborted"}}

Init ==
    /\ session = New /\ file = New /\ tmp = None
    /\ task = [t \in Task |-> Rest(IF t = Main THEN "main" ELSE "idle", "none")]
    /\ faults = 0
    /\ promised = {} /\ owed = {}

---------------------------------------------------------------------------
\* Connections and requests

\* The client leaves, or the idle timeout fires; another connection takes the
\* place.
Close(c) ==
    /\ task[c].pc = "idle" /\ task[c].rx # "none"
    /\ task' = [task EXCEPT ![c] = Rest("idle", "none")]
    /\ owed' = owed \ {c}
    /\ UNCHANGED <<session, file, tmp, faults, promised>>

\* Broken: a save does not keep the sessions locked.
NeverLocked == FALSE

ReadLocked == \E t \in Task : task[t].pc \in {"write", "rename"}

\* Subscribed, and not about to replace the receiver by a fresh one.
Listening(c) == task[c].rx # "none" /\ ~task[c].joins

\* A request, up to the release of the write lock in apply_transition.  An error
\* answers at once: no save and no broadcast, even when the session has just
\* expired.
ApplyTransition(c, t, late) ==
    LET r    == apply(session, t, late)
        ends == r.ok /\ is_terminal(r.session.state)
    IN  /\ up /\ task[c].pc = "idle" /\ ~ReadLocked
        /\ session' = r.session
        /\ task' = [task EXCEPT ![c] =
                IF r.ok THEN [@ EXCEPT !.pc = "save", !.ends = ends,
                                       !.joins = (t.kind = "attach"),
                                       !.adds = Facts(r.session) \ Facts(session)]
                ELSE Rest("idle", @.rx)]
        /\ owed' = IF ends THEN {d \in Conn : Listening(d)} ELSE owed
        /\ UNCHANGED <<file, tmp, faults, promised>>

---------------------------------------------------------------------------
\* persist, and SessionStore::save: the read lock is held to its end.

StartSave(t) ==
    /\ tmp' = Torn
    /\ task' = [task EXCEPT ![t].pc = "write", ![t].snap = session, ![t].fd = "tmp"]

SaveOpen(t) ==
    /\ task[t].pc = "save"
    /\ StartSave(t)
    /\ UNCHANGED <<session, file, faults, promised, owed>>

SaveWrite(t) ==
    /\ task[t].pc = "write"
    /\ tmp' = IF task[t].fd = "tmp" THEN task[t].snap ELSE tmp
    /\ file' = IF task[t].fd = "file" THEN task[t].snap ELSE file
    /\ task' = [task EXCEPT ![t].pc = "rename", ![t].fd = "gone"]
    /\ UNCHANGED <<session, faults, promised, owed>>

\* Broken: a temporary file that has gone is renamed all the same.
SaveRenameGone(t) ==
    /\ task[t].pc = "rename"
    /\ file' = tmp /\ tmp' = None
    /\ task' = [u \in Task |->
          IF u = t THEN [task[u] EXCEPT !.pc = "tell", !.snap = None]
          ELSE [task[u] EXCEPT !.fd = IF @ = "tmp" THEN "file" ELSE "gone"]]
    /\ UNCHANGED <<session, faults, promised, owed>>

\* The rename takes whatever the temporary name stands for, and fails when
\* another save has taken it; persist's error is only logged.
SaveRename(t) ==
    /\ task[t].pc = "rename"
    /\ IF tmp = None
       THEN /\ UNCHANGED <<file, tmp>>
            /\ task' = [task EXCEPT ![t].pc = "tell", ![t].snap = None]
       ELSE /\ file' = tmp /\ tmp' = None
            /\ task' = [u \in Task |->
                  IF u = t THEN [task[u] EXCEPT !.pc = "tell", !.snap = None]
                  ELSE [task[u] EXCEPT !.fd = IF @ = "tmp" THEN "file" ELSE "gone"]]
    /\ UNCHANGED <<session, faults, promised, owed>>

\* Broken: a failed save ends the request like any other error.
SaveFailsRequest(t) ==
    /\ task[t].pc \in {"save", "write", "rename"} /\ faults < MaxFaults
    /\ faults' = faults + 1
    /\ task' = [task EXCEPT ![t] = Rest("idle", @.rx)]
    /\ UNCHANGED <<session, file, tmp, promised, owed>>

\* An I/O error at any of the three calls.
SaveFails(t) ==
    /\ task[t].pc \in {"save", "write", "rename"} /\ faults < MaxFaults
    /\ faults' = faults + 1
    /\ task' = [task EXCEPT ![t].pc = "tell", ![t].snap = None, ![t].fd = "gone",
                            ![t].kept = FALSE]
    /\ UNCHANGED <<session, file, tmp, promised, owed>>

---------------------------------------------------------------------------
\* Broadcast and answer

\* Changes of state are not kept in the receivers, only the news of the end; a
\* receiver that lags loses the oldest of SESSION_BROADCAST_CAPACITY events, and
\* at most one change from each other connection follows the end.  The answer
\* to anything but an attach has no effect of its own.
Tell(c) ==
    /\ task[c].pc = "tell"
    /\ task' = [t \in Task |->
          LET rx == IF task[t].rx = "quiet" /\ task[c].ends THEN "end" ELSE task[t].rx
          IN  IF t # c THEN [task[t] EXCEPT !.rx = rx]
              ELSE IF task[c].joins THEN [Rest("answer", rx) EXCEPT !.joins = TRUE]
              ELSE Rest("idle", rx)]
    /\ promised' = IF task[c].kept THEN promised \cup task[c].adds ELSE promised
    /\ UNCHANGED <<session, file, tmp, faults, owed>>

\* An attach subscribes the connection only now.
Answer(c) ==
    /\ task[c].pc = "answer"
    /\ task' = [task EXCEPT ![c] = Rest("idle", "quiet")]
    /\ UNCHANGED <<session, file, tmp, faults, promised, owed>>

Deliver(c) ==
    /\ task[c].pc = "idle" /\ task[c].rx = "end"
    /\ task' = [task EXCEPT ![c].rx = "quiet"]
    /\ owed' = owed \ {c}
    /\ UNCHANGED <<session, file, tmp, faults, promised>>

---------------------------------------------------------------------------
\* The process

\* SIGINT: the last save, while open connections go on.  The process ends with
\* it, or dies before its end.
Shutdown ==
    /\ up /\ task[Main].pc = "main" /\ faults < MaxFaults
    /\ faults' = faults + 1
    /\ StartSave(Main)
    /\ UNCHANGED <<session, file, promised, owed>>

Ended ==
    /\ session' = None /\ owed' = {}
    /\ task' = [t \in Task |-> Rest(IF t = Main THEN "main" ELSE "idle", "none")]
    /\ UNCHANGED promised

Exit ==
    /\ task[Main].pc = "rename"
    /\ file' = (IF tmp = None THEN file ELSE tmp) /\ tmp' = None
    /\ Ended /\ UNCHANGED faults

Crash ==
    /\ up /\ (faults < MaxFaults \/ task[Main].pc # "main")
    /\ faults' = IF task[Main].pc = "main" THEN faults + 1 ELSE faults
    /\ Ended /\ UNCHANGED <<file, tmp>>

\* load_existing_sessions: a file that does not parse keeps the process down.
Start ==
    /\ ~up /\ file # Torn
    /\ session' = file
    /\ UNCHANGED <<file, tmp, task, faults, promised, owed>>

\* Past its deadline a session expires whatever is asked of it.
Anything == CHOOSE t \in Transition : t.kind = "tick"

Next ==
    \/ \E c \in Conn :
          \/ Close(c)
          \/ \E t \in Transition : ApplyTransition(c, t, FALSE)
          \/ ApplyTransition(c, Anything, TRUE)
          \/ SaveOpen(c) \/ SaveRename(c) \/ SaveFails(c)
          \/ Tell(c) \/ Answer(c) \/ Deliver(c)
    \/ \E t \in Task : SaveWrite(t)
    \/ Shutdown \/ Exit \/ Crash \/ Start

Spec == Init /\ [][Next]_vars
=============================================================================
