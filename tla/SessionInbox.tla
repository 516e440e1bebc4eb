---------------------------- MODULE SessionInbox ----------------------------
(***************************************************************************)
(* The durable inbox of one session                                        *)
(* (tui/packages/core/src/session/input.ts): prompts are admitted under a  *)
(* message ID and a delivery mode, stay pending, and are promoted into the *)
(* visible history once.  Admission and promotion are durable events; each *)
(* takes the next sequence number of the session in the transaction that   *)
(* projects it.  Only inbox events are counted: the other events of a      *)
(* session lie between them and change no comparison.                      *)
(***************************************************************************)
EXTENDS Naturals, FiniteSets

CONSTANT Messages   \* message IDs

VARIABLES seq,      \* latest sequence number of the session
          input     \* the session_input rows

vars == <<seq, input>>

Deliveries == {"steer", "queue"}

\* A row; an ID without a row has admitted = 0.  promoted = 0 stands for null.
Row == [delivery : Deliveries, admitted : Nat, promoted : Nat]
NoRow == [delivery |-> "steer", admitted |-> 0, promoted |-> 0]

TypeOK == /\ seq \in Nat
          /\ input \in [Messages -> Row]

Init == /\ seq = 0
        /\ input = [m \in Messages |-> NoRow]

Stored(m) == input[m].admitted # 0

Pending(d) == {m \in Messages : /\ Stored(m)
                                /\ input[m].delivery = d
                                /\ input[m].promoted = 0}

\* Mutant: ORDER BY admitted_seq DESC.
LastAdmitted(S, m) ==
    m \in S /\ \A n \in S : input[m].admitted >= input[n].admitted

\* ORDER BY admitted_seq: the first row of a set of rows.
FirstAdmitted(S, m) ==
    m \in S /\ \A n \in S : input[m].admitted <= input[n].admitted

\* equivalent(): a retried prompt must repeat the delivery (and the text, which
\* belongs to the ID here).
Equivalent(m, d) == input[m].delivery = d

\* Mutant: the projection overwrites a row that is already there.
ProjectOver(m, d) ==
    /\ seq' = seq + 1
    /\ input' = [input EXCEPT ![m] = [delivery |-> d, admitted |-> seq + 1,
                                      promoted |-> 0]]

\* A PromptAdmitted event commits with its projection.  If the row exists the
\* projection dies with a LifecycleConflict and the transaction rolls back.
ProjectAdmitted(m, d) ==
    \/ /\ ~Stored(m)
       /\ seq' = seq + 1
       /\ input' = [input EXCEPT ![m] = [delivery |-> d, admitted |-> seq + 1,
                                         promoted |-> 0]]
    \/ Stored(m) /\ UNCHANGED vars

\* Mutant: promoted_seq is set whether or not it is null.
ProjectAgain(m) ==
    /\ seq' = seq + 1
    /\ input' = [input EXCEPT ![m].promoted = seq + 1]

\* A Prompted event commits with its projection.  If the row was promoted by
\* somebody else the transaction rolls back, and publish() ignores the
\* conflict.
ProjectPrompted(m) ==
    \/ /\ input[m].promoted = 0
       /\ seq' = seq + 1
       /\ input' = [input EXCEPT ![m].promoted = seq + 1]
    \/ input[m].promoted # 0 /\ UNCHANGED vars

=============================================================================
