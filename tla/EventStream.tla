---------------------------- MODULE EventStream ----------------------------
(***************************************************************************)
(* The durable streams of one aggregate (events.durable in                 *)
(* tui/packages/core/src/event.ts): a client reads the log of a session    *)
(* from where it left off and then follows it.  A stream subscribes to a   *)
(* wake, which holds at most one, reads what the log has after its cursor, *)
(* and reads again whenever it is woken; it never sees an event but by     *)
(* reading the log.  A writer commits first and wakes the streams          *)
(* afterwards, so reads, commits and wakes fall in any order.              *)
(*                                                                         *)
(* The log belongs to whoever uses the module: its steps are Commits or    *)
(* leave the log alone.                                                    *)
(***************************************************************************)
EXTENDS Naturals, Sequences

CONSTANTS Streams, \* subscriptions that can be open at once
          Events

VARIABLES log,     \* the aggregate's events, by sequence number
          streams, \* per stream, how far it is
          waking   \* commits whose writers have not woken the streams yet

following == <<streams, waking>>

(* A stream is closed, reading, handing out the rows of a read, or waiting *)
(* for a wake.  `seen` is what it has handed out since it was opened       *)
(* behind event number `after`.                                            *)
Stream == [at : {"closed", "reading", "handing", "waiting"}, after : Nat, cursor : Nat,
           rows : Seq(Events), wake : BOOLEAN, seen : Seq(Events)]
Closed == [at |-> "closed", after |-> 0, cursor |-> 0, rows |-> <<>>, wake |-> FALSE,
           seen |-> <<>>]

TypeOK ==
    /\ log \in Seq(Events)
    /\ streams \in [Streams -> Stream]
    /\ waking \in Nat

NoStreams ==
    /\ streams = [s \in Streams |-> Closed]
    /\ waking = 0

-----------------------------------------------------------------------------
(* The writers.  The streams are woken in the same uninterruptible stretch *)
(* as the commit, but not in its transaction.                              *)
Committed == waking' = waking + 1 /\ UNCHANGED streams

Commit ==
    /\ \E e \in Events : log' = Append(log, e)
    /\ Committed

\* Whoever is subscribed by now is woken; a wake that is held already is the same.
Wake ==
    /\ waking > 0
    /\ waking' = waking - 1
    /\ streams' = [s \in Streams |->
                     IF streams[s].at = "closed" THEN streams[s]
                                                 ELSE [streams[s] EXCEPT !.wake = TRUE]]
    /\ UNCHANGED log

-----------------------------------------------------------------------------
(* The streams.                                                            *)

\* The subscription to wakes precedes the first read.
Open(s, after) ==
    /\ streams[s].at = "closed"
    /\ streams' = [streams EXCEPT ![s] =
                     [at |-> "reading", after |-> after, cursor |-> after, rows |-> <<>>,
                      wake |-> FALSE, seen |-> <<>>]]
    /\ UNCHANGED <<log, waking>>

\* A read is a query: what is committed after it waits for the next one.
Read(s) ==
    /\ streams[s].at = "reading"
    /\ streams' = [streams EXCEPT ![s].at = "handing",
                                  ![s].rows = SubSeq(log, streams[s].cursor + 1, Len(log))]
    /\ UNCHANGED <<log, waking>>

HandOutRows(s, wake, cursor) ==
    /\ streams[s].at = "handing"
    /\ streams' = [streams EXCEPT ![s].at = "waiting", ![s].wake = wake, ![s].cursor = cursor,
                                  ![s].seen = @ \o streams[s].rows, ![s].rows = <<>>]
    /\ UNCHANGED <<log, waking>>

\* Mutant: the cursor is left where it was.
HandOutAgain(s) == HandOutRows(s, streams[s].wake, streams[s].cursor)

\* Mutant: the stream subscribes to wakes when it has read.
HandOutThenSubscribe(s) ==
    HandOutRows(s, FALSE, streams[s].cursor + Len(streams[s].rows))

\* The rows are handed out; the last of them is the new cursor.
HandOut(s) == HandOutRows(s, streams[s].wake, streams[s].cursor + Len(streams[s].rows))

TakeWake(s) ==
    /\ streams[s].at = "waiting"
    /\ streams[s].wake
    /\ streams' = [streams EXCEPT ![s].at = "reading", ![s].wake = FALSE]
    /\ UNCHANGED <<log, waking>>

\* The client goes; its subscription is released.
Close(s) ==
    /\ streams[s].at # "closed"
    /\ streams' = [streams EXCEPT ![s] = Closed]
    /\ UNCHANGED <<log, waking>>

\* The process ends, and with it every stream and every writer; the log stays.
Restart ==
    /\ streams' = [s \in Streams |-> Closed]
    /\ waking' = 0
    /\ UNCHANGED log

StreamStep(s) == Read(s) \/ HandOut(s) \/ TakeWake(s)

\* Clients ask for what follows an event they have seen.
Follow == \/ Wake
          \/ \E s \in Streams : \/ \E after \in 0 .. Len(log) : Open(s, after)
                                \/ StreamStep(s) \/ Close(s)

Next == Commit \/ Follow \/ Restart

Spec == log \in Seq(Events) /\ NoStreams /\ [][Next]_<<log, following>>

\* What is ready is run.
Fairness == WF_<<log, following>>(Wake)
            /\ \A s \in Streams : WF_<<log, following>>(StreamStep(s))

-----------------------------------------------------------------------------
(* Properties.                                                             *)

\* What a stream has handed out is the log from the event it was opened
\* behind up to its cursor: nothing is left out, repeated or out of order,
\* however commits, wakes and reads interleave.
StreamsFollowTheLog ==
    \A s \in Streams :
        streams[s].at # "closed" =>
            streams[s].seen = SubSeq(log, streams[s].after + 1, streams[s].cursor)

\* No wake is lost: a stream that waits with no wake to come has read everything.
WaitingStreamsAreComplete ==
    waking = 0 => \A s \in Streams :
        streams[s].at = "waiting" /\ ~streams[s].wake => streams[s].cursor >= Len(log)

=============================================================================
