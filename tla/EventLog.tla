------------------------------ MODULE EventLog ------------------------------
(***************************************************************************)
(* The durable log of one aggregate (a session) in one database            *)
(* (tui/packages/core/src/event.ts): publish appends, replay copies an     *)
(* event that another process has numbered, and the owner column fences    *)
(* replays.  The operators give the outcome of one transaction on a store; *)
(* the modules that use them keep the stores in their variables.           *)
(*                                                                         *)
(* A sequence number is the position of an event in the log: the code      *)
(* counts from 0, the log from 1.  The events and event_sequence rows of   *)
(* the aggregate exist as long as the log is not empty.                    *)
(***************************************************************************)
EXTENDS Naturals, Sequences

CONSTANT None   \* the owner column is null, or no ownerID is given

EmptyStore == [log |-> <<>>, owner |-> None]

Latest(s) == Len(s.log)

\* The event ID is taken, at whatever position.
Known(s, e) == \E i \in DOMAIN s.log : s.log[i] = e

\* The event of that number is this very event.
Stored(s, e, seq) == seq \in DOMAIN s.log /\ s.log[seq] = e

\* Replays from anybody but the owner are refused.
Fenced(s, owner) == s.owner # None /\ s.owner # owner

\* A replay adopts an aggregate that has no owner.
Adopted(s, owner) == IF s.owner = None THEN owner ELSE s.owner

\* publish(): the next number, whoever owns the aggregate.
Publish(s, e) == [s EXCEPT !.log = Append(@, e)]

\* Mutant: an old number is taken for a duplicate without a comparison.
DiesUnlessOld(s, e, seq, owner, strict) ==
    \/ strict /\ Fenced(s, owner)
    \/ /\ seq > Latest(s)
       /\ ~Fenced(s, owner)
       /\ seq # Latest(s) + 1 \/ Known(s, e)

\* Mutant: a number beyond the next one is accepted.
DiesUnlessGap(s, e, seq, owner, strict) ==
    \/ strict /\ Fenced(s, owner)
    \/ seq <= Latest(s) /\ ~Stored(s, e, seq)
    \/ seq > Latest(s) /\ ~Fenced(s, owner) /\ Known(s, e)

\* replay() dies, and its transaction rolls back: a strict owner mismatch, a
\* different event under an old number, a gap, or an ID used elsewhere.  A
\* replay that is fenced and not strict dies only under an old number.
Dies(s, e, seq, owner, strict) ==
    \/ strict /\ Fenced(s, owner)
    \/ seq <= Latest(s) /\ ~Stored(s, e, seq)
    \/ /\ seq > Latest(s)
       /\ ~Fenced(s, owner)
       /\ seq # Latest(s) + 1 \/ Known(s, e)

\* Mutant: the owner of a store is not looked at.
ReplayAnyway(s, e, seq, owner) ==
    IF seq <= Latest(s) THEN [s EXCEPT !.owner = Adopted(s, owner)]
    ELSE [log |-> Append(s.log, e), owner |-> Adopted(s, owner)]

\* Mutant: a duplicate is appended again.
ReplayTwice(s, e, seq, owner) ==
    IF Fenced(s, owner) THEN s
    ELSE [log |-> Append(s.log, e), owner |-> Adopted(s, owner)]

\* replay() otherwise: a duplicate only adopts, a fenced event is dropped, the
\* next event is appended.
Replay(s, e, seq, owner) ==
    IF seq <= Latest(s) THEN [s EXCEPT !.owner = Adopted(s, owner)]
    ELSE IF Fenced(s, owner) THEN s
    ELSE [log |-> Append(s.log, e), owner |-> Adopted(s, owner)]

\* The transaction as a whole.
Replayed(s, e, seq, owner, strict) ==
    IF Dies(s, e, seq, owner, strict) THEN s ELSE Replay(s, e, seq, owner)

\* claim(): an update, which finds no row for an unknown aggregate.
Claim(s, owner) == IF s.log = <<>> THEN s ELSE [s EXCEPT !.owner = owner]

=============================================================================
