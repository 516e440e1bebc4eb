-------------------------- MODULE PermissionDesk --------------------------
(***************************************************************************)
(* The requests that tools put to the user: permissions                    *)
(* (tui/packages/core/src/permission.ts) and questions (question.ts).  A   *)
(* tool's fiber lists its request, publishes it and waits for a deferred;  *)
(* a reply is published before it resolves the deferred and takes the      *)
(* request from the list, and then cascades: a rejection over the requests *)
(* of the same session, a rule that is kept over all that it allows.       *)
(* Between any two publications everybody else goes on.                    *)
(*                                                                         *)
(* An asker is the fiber of a tool; it asks for one permission and may     *)
(* then ask one question.  An asker's name is the id of its requests, and  *)
(* the deferred it waits for is part of its place: nobody else reads it.   *)
(***************************************************************************)
EXTENDS Sequences, FiniteSets, SequencesExt

CONSTANTS Askers, None,
          Repliers,   \* clients that reply, each to one request at a time
          SessionOf,  \* the session of an asker
          Covers      \* the askers whose requests are allowed by the rule an
                      \* asker offers to save, none if it offers none

ASSUME CoversAssumption == Covers \in [Askers -> SUBSET Askers]

VARIABLES
    permissions, \* the pending permission requests, in the order of the map
    questions,   \* the pending questions
    asker,       \* per asker, how far it is
    saved,       \* the askers whose rules are saved
    replies      \* per replier, the reply it is making

desk == <<permissions, questions, asker, saved, replies>>

(* An asker is idle, judged when it has read the rules and has to ask, and *)
(* waiting; its request is then allowed or rejected, and when it notices,  *)
(* it is through or refused.  Likewise it is questioning, its question     *)
(* answered or unanswered, and it is informed or dismissed.  An asker that *)
(* is gone has left the desk.                                              *)
Idle == [at |-> "idle", reply |-> "none", on |-> None, item |-> None, seen |-> {}, rules |-> {}]

DeskInit ==
    /\ permissions = <<>>
    /\ questions = {}
    /\ asker = [a \in Askers |-> "idle"]
    /\ saved = {}
    /\ replies = [i \in Repliers |-> Idle]

Allowed(rules) == UNION {Covers[a] : a \in rules}

GoTo(a, place) == asker' = [asker EXCEPT ![a] = place]

Unlist(a) ==
    /\ permissions' = RemoveFirst(permissions, a)
    /\ questions' = questions \ {a}

-----------------------------------------------------------------------------
(* assert: the rules in force may allow or deny whatever is saved; to ask  *)
(* is a step of its own, and other rules may be saved before it.           *)
Judge(a) ==
    /\ asker[a] = "idle"
    /\ \/ GoTo(a, "refused")
       \/ GoTo(a, "through")
       \/ a \notin Allowed(saved) /\ GoTo(a, "judged")
    /\ UNCHANGED <<permissions, questions, saved, replies>>

\* create: nothing interrupts it.  (A request that a client posts with `ask` is an
\* asker's that never leaves.)
Create(a) ==
    /\ asker[a] = "judged"
    /\ permissions' = Append(permissions, a)
    /\ GoTo(a, "waiting")
    /\ UNCHANGED <<questions, saved, replies>>

\* question.ask
Ask(a) ==
    /\ asker[a] = "through"
    /\ questions' = questions \cup {a}
    /\ GoTo(a, "questioning")
    /\ UNCHANGED <<permissions, saved, replies>>

Notice(a) ==
    /\ \/ asker[a] = "allowed"    /\ GoTo(a, "through")
       \/ asker[a] = "rejected"   /\ GoTo(a, "refused")
       \/ asker[a] = "answered"   /\ GoTo(a, "informed")
       \/ asker[a] = "unanswered" /\ GoTo(a, "dismissed")
    /\ Unlist(a)
    /\ UNCHANGED <<saved, replies>>

Interruptible == {"idle", "waiting", "allowed", "rejected", "through", "questioning",
                  "answered", "unanswered", "informed"}

\* Mutant: the request of an interrupted asker stays.
LeaveRequest(a) ==
    /\ asker[a] \in Interruptible
    /\ GoTo(a, "gone")
    /\ UNCHANGED <<permissions, questions, saved, replies>>

\* An interrupted asker takes its request back, and no event tells of it.
Leave(a) ==
    /\ asker[a] \in Interruptible
    /\ Unlist(a)
    /\ GoTo(a, "gone")
    /\ UNCHANGED <<saved, replies>>

-----------------------------------------------------------------------------
(* reply and reject.  The reply is first published.                        *)
Begin(i, a, reply) ==
    /\ replies[i] = Idle
    /\ replies' = [replies EXCEPT ![i] = [Idle EXCEPT !.at = "telling", !.reply = reply,
                                                      !.on = a, !.item = a]]
    /\ UNCHANGED <<permissions, questions, asker, saved>>

Reply(i, a, reply) == a \in ToSet(permissions) /\ Begin(i, a, reply)
ReplyQuestion(i, a, reply) == a \in questions /\ Begin(i, a, reply)

\* The request is settled, by the first who comes to it and if its asker is there.
Resolve(a, from, to) ==
    asker' = IF asker[a] = from THEN [asker EXCEPT ![a] = to] ELSE asker

Settle(a, to) ==
    /\ Resolve(a, "waiting", to)
    /\ permissions' = RemoveFirst(permissions, a)
    /\ UNCHANGED questions

\* The walk is over the live map: requests that are added are visited as well.
Ahead(i, b) == b \notin replies[i].seen

\* Mutant: a rejection stops at the first request of another session.
ConcernedUntilOther(i, list) ==
    LET n == SelectInSeq(list, LAMBDA b : Ahead(i, b))
    IN  IF n # 0 /\ replies[i].reply = "reject"
           /\ SessionOf[list[n]] # SessionOf[replies[i].on]
        THEN 0
        ELSE n

\* Where the next request is that a reply concerns, 0 if there is none: a rejection
\* passes over the requests of other sessions.
Concerned(i, list) ==
    SelectInSeq(list, LAMBDA b : Ahead(i, b) /\ \/ replies[i].reply # "reject"
                                                \/ SessionOf[b] = SessionOf[replies[i].on])

(* On to the next request of the walk, which a rejection publishes and a   *)
(* kept rule looks at; the reply returns when there is none.               *)
Walk(i, list, rules) ==
    LET next == list[Concerned(i, list)]
        at == IF replies[i].reply = "reject" THEN "telling" ELSE "checking"
    IN  IF Concerned(i, list) = 0
        THEN replies' = [replies EXCEPT ![i] = Idle]
        ELSE replies' = [replies EXCEPT ![i].at = at, ![i].item = next,
                                        ![i].seen = @ \cup {next}, ![i].rules = rules]

\* A reply that keeps a rule saves it before its own request is settled.
Keeps(i) == replies[i].reply = "always" /\ Covers[replies[i].on] # {}
First(i) == replies[i].seen = {}

Told(i, reply) == replies[i].at = "telling" /\ replies[i].reply = reply

Reject(i) ==
    /\ Told(i, "reject")
    /\ Settle(replies[i].item, "rejected")
    /\ Walk(i, permissions', {})
    /\ UNCHANGED saved

Allow(i) ==
    /\ Told(i, "once") \/ Told(i, "always")
    /\ ~(Keeps(i) /\ First(i))
    /\ Settle(replies[i].item, "allowed")
    /\ IF Keeps(i) THEN Walk(i, permissions', replies[i].rules)
                   ELSE replies' = [replies EXCEPT ![i] = Idle]
    /\ UNCHANGED saved

Keep(i) ==
    /\ Told(i, "always")
    /\ Keeps(i) /\ First(i)
    /\ replies' = [replies EXCEPT ![i].at = "saving"]
    /\ UNCHANGED <<permissions, questions, asker, saved>>

\* The rule is saved and the request settled; then the saved rules are read.
Save(i) ==
    /\ replies[i].at = "saving"
    /\ saved' = saved \cup {replies[i].on}
    /\ Settle(replies[i].on, "allowed")
    /\ replies' = [replies EXCEPT ![i].at = "recalling"]

Recall(i) ==
    /\ replies[i].at = "recalling"
    /\ Walk(i, permissions, saved)
    /\ UNCHANGED <<permissions, questions, asker, saved>>

\* The request at hand is allowed by the saved rules, unless those in force deny it.
Check(i) ==
    /\ replies[i].at = "checking"
    /\ \/ /\ replies[i].item \in Allowed(replies[i].rules)
          /\ replies' = [replies EXCEPT ![i].at = "telling"]
       \/ Walk(i, permissions, replies[i].rules)
    /\ UNCHANGED <<permissions, questions, asker, saved>>

SettleQuestion(i) ==
    /\ \/ Told(i, "answer")  /\ Resolve(replies[i].on, "questioning", "answered")
       \/ Told(i, "dismiss") /\ Resolve(replies[i].on, "questioning", "unanswered")
    /\ questions' = questions \ {replies[i].on}
    /\ replies' = [replies EXCEPT ![i] = Idle]
    /\ UNCHANGED <<permissions, saved>>

\* A publication that dies takes the reply with it, wherever it is.
Die(i) ==
    /\ replies[i].at = "telling"
    /\ replies' = [replies EXCEPT ![i] = Idle]
    /\ UNCHANGED <<permissions, questions, asker, saved>>

UserStep(i) ==
    \E a \in Askers : \/ \E reply \in {"once", "always", "reject"} : Reply(i, a, reply)
                      \/ \E reply \in {"answer", "dismiss"} : ReplyQuestion(i, a, reply)

ReplyStep(i) == Reject(i) \/ Allow(i) \/ Keep(i) \/ Save(i) \/ Recall(i) \/ Check(i)
                \/ SettleQuestion(i) \/ Die(i)

\* The location closes: whoever waits is rejected.
Finalize ==
    /\ permissions' = <<>>
    /\ questions' = {}
    /\ asker' = [a \in Askers |-> CASE asker[a] = "waiting"     -> "rejected"
                                     [] asker[a] = "questioning" -> "unanswered"
                                     [] OTHER                    -> asker[a]]
    /\ UNCHANGED <<saved, replies>>

AskerStep(a) == Judge(a) \/ Create(a) \/ Ask(a) \/ Notice(a)

DeskNext == \/ \E a \in Askers : AskerStep(a) \/ Leave(a)
            \/ \E i \in Repliers : UserStep(i) \/ ReplyStep(i)
            \/ Finalize

Desk == DeskInit /\ [][DeskNext]_desk

-----------------------------------------------------------------------------
(* Properties.                                                             *)

\* A request is listed exactly while its asker waits and nobody has answered:
\* who waits can be answered, and what is listed is waited for, however
\* replies, cascades, interruptions and new requests interleave.
ListedWhileAwaited ==
    /\ ToSet(permissions) = {a \in Askers : asker[a] = "waiting"}
    /\ questions = {a \in Askers : asker[a] = "questioning"}

\* When a rejection returns, no request of its session is left in the list,
\* requests included that were made while it was under way.
Returns(i) == replies[i].at # "idle" /\ replies'[i].at = "idle" /\ ~Die(i)

RejectionSweepsTheSession ==
    [][\A i \in Repliers : Returns(i) /\ replies[i].reply = "reject" =>
           \A a \in ToSet(permissions') : SessionOf[a] # SessionOf[replies[i].on]]_desk

=============================================================================
