---------------------------- MODULE FrostSession ----------------------------
(***************************************************************************)
(* A FROST signing session of crates/coincync-frost-coordinator:           *)
(* struct Session as a record and Session::apply, with its handlers, as    *)
(* operators that return the verdict and the session it leaves behind.     *)
(* The bytes a participant submits are opaque to the coordinator: they are *)
(* members of the small sets Message, Commitment, Share and Signature.     *)
(* Time is abstracted to the one question the code asks of it, whether the *)
(* deadline of the state has passed when a transition is applied: late.    *)
(***************************************************************************)
EXTENDS Naturals, FiniteSets

CONSTANTS
    Participant,     \* pubkeys that hold an invitation token
    Message, Commitment, Share, Signature,
    None,            \* nothing submitted yet
    Threshold, Total

ASSUME FrostConstants ==
    /\ None \notin Message \cup Commitment \cup Share \cup Signature
    /\ Total \in Nat
    /\ Threshold \in 2..Total

SessionState ==
    {"Created", "Invited", "Round1", "Round2", "Aggregated", "Aborted", "Expired"}

is_terminal(state) == state \in {"Aggregated", "Aborted", "Expired"}

\* An entry of participants is made by an attach, so its flag is always set:
\* attached is the set of its keys.
Session ==
    [state      : SessionState,
     message    : Message \cup {None},
     attached   : SUBSET Participant,
     commitment : [Participant -> Commitment \cup {None}],
     share      : [Participant -> Share \cup {None}],
     signature  : Signature \cup {None}]

New ==
    [state |-> "Created", message |-> None, attached |-> {},
     commitment |-> [p \in Participant |-> None],
     share |-> [p \in Participant |-> None],
     signature |-> None]

Transition ==
    [kind : {"attach", "abort"}, who : Participant, bytes : {None}] \cup
    [kind : {"message"}, who : {None}, bytes : Message] \cup
    [kind : {"round1"}, who : Participant, bytes : Commitment] \cup
    [kind : {"round2"}, who : Participant, bytes : Share] \cup
    [kind : {"aggregate"}, who : {None}, bytes : Signature] \cup
    [kind : {"tick"}, who : {None}, bytes : {None}]

Submitted(f) == {p \in Participant : f[p] # None}

Ok(s) == [ok |-> TRUE, session |-> s]
Err(s) == [ok |-> FALSE, session |-> s]

transition_to(s, state) == [s EXCEPT !.state = state]

---------------------------------------------------------------------------
handle_attach(s, p) ==
    LET i == IF s.state = "Created" THEN transition_to(s, "Invited") ELSE s
    IN  IF i.state # "Invited" THEN Err(s)
        ELSE IF Cardinality(i.attached) >= Total /\ p \notin i.attached THEN Err(i)
        ELSE Ok([i EXCEPT !.attached = @ \cup {p}])

handle_declare_message(s, message) ==
    IF /\ s.state = "Invited"
       /\ s.message = None
       /\ Cardinality(s.attached) >= Threshold
    THEN Ok(transition_to([s EXCEPT !.message = message], "Round1"))
    ELSE Err(s)

\* Broken: a second commitment replaces the first.
handle_round1_replaces(s, p, commitment) ==
    LET t == [s EXCEPT !.commitment[p] = commitment]
    IN  IF s.state # "Round1" \/ p \notin s.attached THEN Err(s)
        ELSE IF Cardinality(Submitted(t.commitment)) >= Threshold
        THEN Ok(transition_to(t, "Round2"))
        ELSE Ok(t)

handle_round1(s, p, commitment) ==
    LET t == [s EXCEPT !.commitment[p] = commitment]
    IN  IF s.state # "Round1" \/ p \notin s.attached \/ s.commitment[p] # None
        THEN Err(s)
        ELSE IF Cardinality(Submitted(t.commitment)) >= Threshold
        THEN Ok(transition_to(t, "Round2"))
        ELSE Ok(t)

handle_round2(s, p, share) ==
    IF s.state = "Round2" /\ s.commitment[p] # None /\ s.share[p] = None
    THEN Ok([s EXCEPT !.share[p] = share])
    ELSE Err(s)

\* Broken: a share short of the threshold is enough.
handle_aggregate_short(s, signature) ==
    IF s.state = "Round2" /\ Cardinality(Submitted(s.share)) >= Threshold - 1
    THEN Ok(transition_to([s EXCEPT !.signature = signature], "Aggregated"))
    ELSE Err(s)

handle_aggregate(s, signature) ==
    IF s.state = "Round2" /\ Cardinality(Submitted(s.share)) >= Threshold
    THEN Ok(transition_to([s EXCEPT !.signature = signature], "Aggregated"))
    ELSE Err(s)

\* A session past its deadline expires whatever is asked of it, and the caller
\* gets an error.
apply(s, t, late) ==
    IF is_terminal(s.state) THEN Err(s)
    ELSE IF late THEN Err(transition_to(s, "Expired"))
    ELSE CASE t.kind = "attach"    -> handle_attach(s, t.who)
           [] t.kind = "message"   -> handle_declare_message(s, t.bytes)
           [] t.kind = "round1"    -> handle_round1(s, t.who, t.bytes)
           [] t.kind = "round2"    -> handle_round2(s, t.who, t.bytes)
           [] t.kind = "aggregate" -> handle_aggregate(s, t.bytes)
           [] t.kind = "abort"     -> Ok(transition_to(s, "Aborted"))
           [] t.kind = "tick"      -> Ok(s)
=============================================================================
