------------------------- MODULE EventStream_proofs -------------------------
(***************************************************************************)
(* Proofs about EventStream for any number of streams, a log of any length *)
(* and any events.  A stream has seen the log up to its cursor, and the    *)
(* rows in its hands follow there; and if no wake is held or still to come *)
(* then what it has, or has in its hands, reaches the end of the log.      *)
(***************************************************************************)
EXTENDS EventStream, SequenceTheorems, TLAPS

\* Of a stream, the log and the number of wakes to come.
Good(st, events, due) ==
    st.at # "closed" =>
        /\ st.after <= st.cursor
        /\ st.cursor + Len(st.rows) <= Len(events)
        /\ st.seen = SubSeq(events, st.after + 1, st.cursor)
        /\ st.rows = SubSeq(events, st.cursor + 1, st.cursor + Len(st.rows))
        /\ st.at # "handing" => st.rows = <<>>
        /\ due = 0 /\ ~st.wake /\ st.at # "reading" => st.cursor + Len(st.rows) = Len(events)

StreamOK(s) == Good(streams[s], log, waking)

IInv == TypeOK /\ \A s \in Streams : StreamOK(s)

-----------------------------------------------------------------------------
(* Sequences.                                                              *)

\* A part of a log.
LEMMA PartType ==
    ASSUME NEW S, NEW seq \in Seq(S), NEW m \in Nat, NEW n \in Nat, m <= n, n <= Len(seq)
    PROVE  /\ SubSeq(seq, m + 1, n) \in Seq(S)
           /\ Len(SubSeq(seq, m + 1, n)) = n - m
           /\ \A i \in 1 .. n - m : SubSeq(seq, m + 1, n)[i] = seq[m + i]
<1>1. \A i \in (m + 1) .. n : seq[i] \in S
  BY ElementOfSeq
<1>2. /\ SubSeq(seq, m + 1, n) \in Seq(S)
      /\ Len(SubSeq(seq, m + 1, n)) = IF m + 1 <= n THEN n - (m + 1) + 1 ELSE 0
      /\ \A i \in 1 .. n - (m + 1) + 1 : SubSeq(seq, m + 1, n)[i] = seq[(m + 1) + i - 1]
  BY <1>1, SubSeqProperties
<1>3. QED
  BY <1>2

\* A part stays when the log grows.
LEMMA PartStays ==
    ASSUME NEW S, NEW seq \in Seq(S), NEW e \in S, NEW m \in Nat, NEW n \in Nat,
           m <= n, n <= Len(seq)
    PROVE  SubSeq(Append(seq, e), m + 1, n) = SubSeq(seq, m + 1, n)
<1>1. /\ Append(seq, e) \in Seq(S) /\ Len(Append(seq, e)) = Len(seq) + 1
      /\ \A i \in 1 .. Len(seq) : Append(seq, e)[i] = seq[i]
      /\ Len(seq) \in Nat
  BY AppendProperties, LenProperties
<1> DEFINE old == SubSeq(seq, m + 1, n)
<1> DEFINE new == SubSeq(Append(seq, e), m + 1, n)
<1>2. /\ old \in Seq(S) /\ Len(old) = n - m /\ \A i \in 1 .. n - m : old[i] = seq[m + i]
  BY PartType
<1>3. n <= Len(Append(seq, e))
  BY <1>1
<1>4. /\ new \in Seq(S) /\ Len(new) = n - m
      /\ \A i \in 1 .. n - m : new[i] = Append(seq, e)[m + i]
  BY <1>1, <1>3, PartType
<1> HIDE DEF old, new
<1>5. \A i \in 1 .. n - m : old[i] = new[i]
  BY <1>1, <1>2, <1>4
<1>6. old = new
  BY <1>2, <1>4, <1>5, SeqEqual
<1>7. QED
  BY <1>6 DEF old, new

\* Two adjacent parts make one.
LEMMA PartsJoin ==
    ASSUME NEW S, NEW seq \in Seq(S), NEW a \in Nat, NEW m \in Nat, NEW n \in Nat,
           a <= m, m <= n, n <= Len(seq)
    PROVE  SubSeq(seq, a + 1, m) \o SubSeq(seq, m + 1, n) = SubSeq(seq, a + 1, n)
<1>1. Len(seq) \in Nat
  BY LenProperties
<1>2. a + 1 \in 1 .. Len(seq) + 1 /\ m \in (a + 1) - 1 .. Len(seq) /\ n \in m .. Len(seq)
  BY <1>1
<1>3. QED
  BY <1>2, ConcatAdjacentSubSeq

-----------------------------------------------------------------------------
(* What is said of a stream after each of its steps.                       *)

\* The fields of a stream.
LEMMA Fields ==
    ASSUME NEW st \in Stream
    PROVE  /\ st.after \in Nat /\ st.cursor \in Nat /\ st.wake \in BOOLEAN
           /\ st.rows \in Seq(Events) /\ st.seen \in Seq(Events) /\ Len(st.rows) \in Nat
BY LenProperties DEF Stream

LEMMA GoodOpened ==
    ASSUME NEW events \in Seq(Events), NEW due \in Nat, NEW after \in 0 .. Len(events),
           NEW st \in Stream, st.at = "reading", st.after = after, st.cursor = after,
           st.rows = <<>>, st.seen = <<>>
    PROVE  Good(st, events, due)
<1>1. after \in Nat /\ Len(<<>>) = 0 /\ after + 0 = after /\ Len(events) \in Nat
  BY LenProperties
<1>2. SubSeq(events, after + 1, after) = <<>>
  BY <1>1, SubSeqEmpty
<1>3. QED
  BY <1>1, <1>2 DEF Good

\* Where an open stream is: it has seen the log behind a up to c, and its rows reach to.
Place(st, events, due, a, c, to) ==
    /\ st.after = a /\ st.cursor = c /\ st.cursor + Len(st.rows) = to
    /\ a <= c /\ c <= to /\ a <= to /\ to <= Len(events) /\ c <= Len(events)
    /\ st.seen = SubSeq(events, a + 1, c)
    /\ st.rows = SubSeq(events, c + 1, to)
    /\ st.at # "handing" => st.rows = <<>>
    /\ due = 0 /\ ~st.wake /\ st.at # "reading" => to = Len(events)

LEMMA Position ==
    ASSUME NEW events \in Seq(Events), NEW due \in Nat, NEW st \in Stream, st.at # "closed",
           Good(st, events, due)
    PROVE  \E a \in Nat, c \in Nat, to \in Nat : Place(st, events, due, a, c, to)
<1>1. PICK a \in Nat, c \in Nat, n \in Nat : st.after = a /\ st.cursor = c /\ Len(st.rows) = n
  BY Fields
<1>2. PICK to \in Nat : to = c + n
  OBVIOUS
<1>3. Len(events) \in Nat
  BY LenProperties
<1>4. /\ a <= c /\ to <= Len(events) /\ st.seen = SubSeq(events, a + 1, c)
      /\ st.rows = SubSeq(events, c + 1, to)
      /\ st.at # "handing" => st.rows = <<>>
      /\ due = 0 /\ ~st.wake /\ st.at # "reading" => to = Len(events)
  BY <1>1, <1>2 DEF Good
<1>5. PICK l \in Nat : l = Len(events)
  BY <1>3
<1>6. to <= l
  BY <1>4, <1>5
<1>7. c <= to /\ a <= to /\ c <= l
  BY <1>2, <1>4, <1>6
<1>8. st.cursor + Len(st.rows) = to
  BY <1>1, <1>2
<1>9. QED
  BY <1>1, <1>4, <1>5, <1>7, <1>8 DEF Place

LEMMA GoodRead ==
    ASSUME NEW events \in Seq(Events), NEW due \in Nat, NEW st \in Stream, st.at = "reading",
           Good(st, events, due), NEW new \in Stream, new.at = "handing",
           new.after = st.after, new.cursor = st.cursor, new.seen = st.seen,
           new.rows = SubSeq(events, st.cursor + 1, Len(events))
    PROVE  Good(new, events, due)
<1>0. PICK a \in Nat, c \in Nat, to \in Nat : Place(st, events, due, a, c, to)
  BY Position
<1>1. /\ new.after = a /\ new.cursor = c /\ a <= c /\ c <= Len(events)
      /\ new.seen = SubSeq(events, a + 1, c)
      /\ new.rows = SubSeq(events, c + 1, Len(events))
  BY <1>0 DEF Place
<1>2. PICK l \in Nat : l = Len(events)
  BY LenProperties
<1>3. Len(new.rows) = l - c
  BY <1>1, <1>2, PartType
<1>4. new.cursor + Len(new.rows) = l
  BY <1>1, <1>2, <1>3
<1>5. /\ new.after <= new.cursor /\ new.cursor + Len(new.rows) <= Len(events)
      /\ new.cursor + Len(new.rows) = Len(events)
  BY <1>1, <1>2, <1>4
<1>6. /\ new.seen = SubSeq(events, new.after + 1, new.cursor)
      /\ new.rows = SubSeq(events, new.cursor + 1, new.cursor + Len(new.rows))
  BY <1>1, <1>5
<1>7. QED
  BY <1>5, <1>6 DEF Good

LEMMA GoodHanded ==
    ASSUME NEW events \in Seq(Events), NEW due \in Nat, NEW st \in Stream, st.at = "handing",
           Good(st, events, due), NEW new \in Stream, new.at = "waiting", new.wake = st.wake,
           new.after = st.after, new.cursor = st.cursor + Len(st.rows),
           new.seen = st.seen \o st.rows, new.rows = <<>>
    PROVE  Good(new, events, due)
<1>0. PICK a \in Nat, c \in Nat, to \in Nat : Place(st, events, due, a, c, to)
  BY Position
<1>1. /\ new.after = a /\ new.cursor = to
      /\ a <= c /\ c <= to /\ a <= to /\ to <= Len(events)
      /\ st.seen = SubSeq(events, a + 1, c) /\ st.rows = SubSeq(events, c + 1, to)
      /\ due = 0 /\ ~new.wake => to = Len(events)
  BY <1>0 DEF Place
<1>2. SubSeq(events, a + 1, c) \o SubSeq(events, c + 1, to) = SubSeq(events, a + 1, to)
  <2>1. a <= c /\ c <= to /\ to <= Len(events)
    BY <1>1
  <2>2. QED
    BY ONLY events \in Seq(Events), a \in Nat, c \in Nat, to \in Nat, <2>1, PartsJoin
<1>3. new.seen = SubSeq(events, a + 1, to)
  BY <1>1, <1>2
<1>4. SubSeq(events, to + 1, to) = <<>> /\ Len(<<>>) = 0 /\ to + 0 = to
  BY SubSeqEmpty
<1>5. new.cursor + Len(new.rows) = to
  BY <1>1, <1>4
<1>6. QED
  BY <1>1, <1>3, <1>4, <1>5 DEF Good

LEMMA GoodCommitted ==
    ASSUME NEW events \in Seq(Events), NEW due \in Nat, NEW st \in Stream, st.at # "closed",
           Good(st, events, due), NEW e \in Events
    PROVE  Good(st, Append(events, e), due + 1)
<1>0. PICK a \in Nat, c \in Nat, to \in Nat : Place(st, events, due, a, c, to)
  BY Position
<1>1. /\ st.after = a /\ st.cursor = c /\ st.cursor + Len(st.rows) = to
      /\ a <= c /\ c <= to /\ to <= Len(events) /\ c <= Len(events)
      /\ st.seen = SubSeq(events, a + 1, c) /\ st.rows = SubSeq(events, c + 1, to)
      /\ st.at # "handing" => st.rows = <<>>
  BY <1>0 DEF Place
<1>2. /\ SubSeq(Append(events, e), a + 1, c) = SubSeq(events, a + 1, c)
      /\ SubSeq(Append(events, e), c + 1, to) = SubSeq(events, c + 1, to)
  BY <1>1, PartStays
<1>3. Len(Append(events, e)) = Len(events) + 1 /\ Len(events) \in Nat
  BY AppendProperties, LenProperties
<1>4. PICK l \in Nat : l = Len(events) /\ Len(Append(events, e)) = l + 1
  BY <1>3
<1>5. to <= l
  BY <1>1, <1>4
<1>6. to <= l + 1 /\ due + 1 # 0
  BY <1>5
<1>7. QED
  BY <1>1, <1>2, <1>4, <1>6 DEF Good

-----------------------------------------------------------------------------
(* Steps.                                                                  *)

\* A step that changes one stream, and no other.
LEMMA OneStream ==
    ASSUME IInv, NEW s \in Streams, NEW st \in Stream,
           streams' = [streams EXCEPT ![s] = st], UNCHANGED <<log, waking>>,
           Good(st, log, waking)
    PROVE  IInv'
<1>1. streams \in [Streams -> Stream] /\ TypeOK'
  BY DEF IInv, TypeOK
<1>2. ASSUME NEW q \in Streams PROVE StreamOK(q)'
  <2>1. CASE q = s
    BY <1>1, <2>1 DEF StreamOK
  <2>2. CASE q # s
    BY <1>1, <2>2 DEF IInv, StreamOK
  <2>3. QED
    BY <2>1, <2>2
<1>3. QED
  BY <1>1, <1>2 DEF IInv

\* What is known of a stream.
LEMMA StreamFacts ==
    ASSUME IInv, NEW s \in Streams
    PROVE  /\ streams \in [Streams -> Stream] /\ streams[s] \in Stream
           /\ Good(streams[s], log, waking)
           /\ log \in Seq(Events) /\ waking \in Nat
BY DEF IInv, TypeOK, StreamOK

\* An event enters the log: what streams have stays, and a wake is to come.
LEMMA CommitStep ==
    ASSUME IInv, NEW e \in Events, log' = Append(log, e), Committed
    PROVE  IInv'
<1>1. streams' = streams /\ waking' = waking + 1
  BY DEF Committed
<1>2. TypeOK'
  BY <1>1, AppendProperties DEF IInv, TypeOK
<1>3. ASSUME NEW s \in Streams PROVE StreamOK(s)'
  <2>1. CASE streams[s].at = "closed"
    BY <1>1, <2>1 DEF StreamOK, Good
  <2>2. CASE streams[s].at # "closed"
    BY <1>1, <2>2, StreamFacts, GoodCommitted DEF StreamOK
  <2>3. QED
    BY <2>1, <2>2
<1>4. QED
  BY <1>2, <1>3 DEF IInv

LEMMA WakeStep ==
    ASSUME IInv, Wake
    PROVE  IInv'
<1>1. /\ streams \in [Streams -> Stream] /\ waking \in Nat /\ waking > 0
      /\ waking' = waking - 1 /\ log' = log /\ log \in Seq(Events)
      /\ streams' = [s \in Streams |-> IF streams[s].at = "closed" THEN streams[s]
                                       ELSE [streams[s] EXCEPT !.wake = TRUE]]
  BY DEF IInv, TypeOK, Wake
<1>2. ASSUME NEW s \in Streams
      PROVE  streams'[s] \in Stream /\ StreamOK(s)'
  <2>1. Good(streams[s], log, waking) /\ streams[s] \in Stream
    BY StreamFacts
  <2>2. CASE streams[s].at = "closed"
    BY <1>1, <2>1, <2>2 DEF StreamOK, Good
  <2>3. CASE streams[s].at # "closed"
    <3>1. /\ streams'[s] \in Stream
          /\ streams'[s].wake = TRUE /\ streams'[s].at = streams[s].at
          /\ streams'[s].after = streams[s].after /\ streams'[s].cursor = streams[s].cursor
          /\ streams'[s].rows = streams[s].rows /\ streams'[s].seen = streams[s].seen
      BY <1>1, <2>1, <2>3 DEF Stream
    <3>2. Good(streams'[s], log, waking')
      BY <2>1, <2>3, <3>1 DEF Good
    <3>3. QED
      BY <1>1, <3>1, <3>2 DEF StreamOK
  <2>4. QED
    BY <2>2, <2>3
<1>3. TypeOK'
  <2>1. streams' \in [Streams -> Stream]
    BY <1>1, <1>2
  <2>2. QED
    BY <1>1, <2>1 DEF TypeOK
<1>4. QED
  BY <1>2, <1>3 DEF IInv

LEMMA ClosedType == Closed \in Stream /\ Closed.at = "closed"
<1>1. <<>> \in Seq(Events)
  OBVIOUS
<1>2. QED
  BY <1>1 DEF Closed, Stream

LEMMA OpenStep ==
    ASSUME IInv, NEW s \in Streams, NEW after \in 0 .. Len(log), Open(s, after)
    PROVE  IInv'
<1>1. PICK st : st = [at |-> "reading", after |-> after, cursor |-> after, rows |-> <<>>,
                      wake |-> FALSE, seen |-> <<>>]
  OBVIOUS
<1>2. streams' = [streams EXCEPT ![s] = st] /\ UNCHANGED <<log, waking>>
  BY <1>1 DEF Open
<1>3. <<>> \in Seq(Events) /\ after \in Nat
  OBVIOUS
<1>4. st \in Stream
  BY <1>1, <1>3 DEF Stream
<1>5. /\ st.at = "reading" /\ st.after = after /\ st.cursor = after
      /\ st.rows = <<>> /\ st.seen = <<>>
  BY <1>1
<1>6. Good(st, log, waking)
  BY <1>4, <1>5, StreamFacts, GoodOpened
<1>7. QED
  BY <1>2, <1>4, <1>6, OneStream

LEMMA ReadStep ==
    ASSUME IInv, NEW s \in Streams, Read(s)
    PROVE  IInv'
<1>1. PICK rows : rows = SubSeq(log, streams[s].cursor + 1, Len(log))
  OBVIOUS
<1>2. PICK st : st = [streams[s] EXCEPT !.at = "handing", !.rows = rows]
  OBVIOUS
<1>3. /\ streams' = [streams EXCEPT ![s] = st] /\ UNCHANGED <<log, waking>>
      /\ streams[s].at = "reading"
  BY <1>1, <1>2 DEF Read
<1>4. rows \in Seq(Events)
  <2>1. streams[s].cursor \in Nat /\ streams[s].cursor <= Len(log) /\ Len(log) \in Nat
    BY <1>3, StreamFacts, Fields, LenProperties DEF Good
  <2>2. QED
    BY <1>1, <2>1, StreamFacts, PartType
<1>5. /\ st \in Stream /\ st.at = "handing" /\ st.rows = rows /\ st.after = streams[s].after
      /\ st.cursor = streams[s].cursor /\ st.seen = streams[s].seen
  BY <1>2, <1>4, StreamFacts DEF Stream
<1>6. Good(st, log, waking)
  BY <1>1, <1>3, <1>5, StreamFacts, GoodRead
<1>7. QED
  BY <1>3, <1>5, <1>6, OneStream

LEMMA HandOutStep ==
    ASSUME IInv, NEW s \in Streams, HandOut(s)
    PROVE  IInv'
<1>1. PICK seen : seen = streams[s].seen \o streams[s].rows
  OBVIOUS
<1>2. PICK to : to = streams[s].cursor + Len(streams[s].rows)
  OBVIOUS
<1>3. PICK st : st = [streams[s] EXCEPT !.at = "waiting", !.wake = streams[s].wake, !.cursor = to,
                                        !.seen = seen, !.rows = <<>>]
  OBVIOUS
<1>4. /\ streams' = [streams EXCEPT ![s] = st] /\ UNCHANGED <<log, waking>>
      /\ streams[s].at = "handing"
  BY <1>1, <1>2, <1>3 DEF HandOut, HandOutRows
<1>5. to \in Nat /\ seen \in Seq(Events) /\ <<>> \in Seq(Events) /\ streams[s].wake \in BOOLEAN
  BY <1>1, <1>2, StreamFacts, Fields, ConcatProperties
<1>6. /\ st \in Stream /\ st.at = "waiting" /\ st.wake = streams[s].wake /\ st.cursor = to
      /\ st.after = streams[s].after /\ st.seen = seen /\ st.rows = <<>>
  BY <1>3, <1>5, StreamFacts DEF Stream
<1>7. Good(st, log, waking)
  BY <1>1, <1>2, <1>4, <1>6, StreamFacts, GoodHanded
<1>8. QED
  BY <1>4, <1>6, <1>7, OneStream

\* A stream that reads again forgets its wake; one that closes forgets all.
LEMMA TakeWakeStep ==
    ASSUME IInv, NEW s \in Streams, TakeWake(s)
    PROVE  IInv'
<1>1. PICK st : st = [streams[s] EXCEPT !.at = "reading", !.wake = FALSE]
  OBVIOUS
<1>2. /\ streams' = [streams EXCEPT ![s] = st] /\ UNCHANGED <<log, waking>>
      /\ streams[s].at = "waiting"
  BY <1>1 DEF TakeWake
<1>3. /\ st \in Stream /\ st.at = "reading" /\ st.after = streams[s].after
      /\ st.cursor = streams[s].cursor /\ st.rows = streams[s].rows /\ st.seen = streams[s].seen
  BY <1>1, StreamFacts DEF Stream
<1>4. Good(st, log, waking)
  BY <1>2, <1>3, StreamFacts DEF Good
<1>5. QED
  BY <1>2, <1>3, <1>4, OneStream

LEMMA CloseStep ==
    ASSUME IInv, NEW s \in Streams, Close(s)
    PROVE  IInv'
<1>1. streams' = [streams EXCEPT ![s] = Closed] /\ UNCHANGED <<log, waking>>
  BY DEF Close
<1>2. Good(Closed, log, waking)
  BY ClosedType DEF Good
<1>3. QED
  BY <1>1, <1>2, ClosedType, OneStream

LEMMA FollowStep ==
    ASSUME IInv, Follow
    PROVE  IInv'
BY WakeStep, OpenStep, ReadStep, HandOutStep, TakeWakeStep, CloseStep DEF Follow, StreamStep

\* No stream is open, at first and after a restart.
LEMMA NoneOpen ==
    ASSUME log \in Seq(Events), NoStreams
    PROVE  IInv
BY ClosedType DEF NoStreams, IInv, TypeOK, StreamOK, Good

LEMMA RestartStep ==
    ASSUME IInv, Restart
    PROVE  IInv'
<1>1. /\ streams' = [s \in Streams |-> Closed] /\ waking' = 0 /\ log' = log
      /\ log \in Seq(Events)
  BY DEF Restart, IInv, TypeOK
<1>2. QED
  BY <1>1, ClosedType DEF IInv, TypeOK, StreamOK, Good

LEMMA StillStep ==
    ASSUME IInv, UNCHANGED <<log, streams, waking>>
    PROVE  IInv'
BY DEF IInv, TypeOK, StreamOK

-----------------------------------------------------------------------------
(* The theorems.                                                           *)

\* The invariant holds of every run.
THEOREM Invariance == Spec => []IInv
<1>1. log \in Seq(Events) /\ NoStreams => IInv
  BY NoneOpen
<1>2. IInv /\ [Next]_<<log, following>> => IInv'
  <2> SUFFICES ASSUME IInv, [Next]_<<log, following>> PROVE IInv'
    OBVIOUS
  <2>1. CASE Commit
    BY <2>1, CommitStep DEF Commit
  <2>2. CASE Follow
    BY <2>2, FollowStep
  <2>3. CASE Restart
    BY <2>3, RestartStep
  <2>4. CASE UNCHANGED <<log, following>>
    BY <2>4, StillStep DEF following
  <2>5. QED
    BY <2>1, <2>2, <2>3, <2>4 DEF Next
<1>3. QED
  BY <1>1, <1>2, PTL DEF Spec

\* What follows from the invariant of the state alone.
LEMMA InvariantFollows ==
    ASSUME IInv
    PROVE  StreamsFollowTheLog /\ WaitingStreamsAreComplete
<1>1. StreamsFollowTheLog
  BY DEF IInv, StreamOK, Good, StreamsFollowTheLog
<1>2. WaitingStreamsAreComplete
  <2> SUFFICES ASSUME NEW s \in Streams, waking = 0, streams[s].at = "waiting", ~streams[s].wake
               PROVE  streams[s].cursor >= Len(log)
    BY DEF WaitingStreamsAreComplete
  <2>1. streams[s] \in Stream /\ log \in Seq(Events)
    BY DEF IInv, TypeOK
  <2>2. streams[s].cursor + Len(streams[s].rows) = Len(log) /\ streams[s].rows = <<>>
    BY DEF IInv, StreamOK, Good
  <2>3. Len(<<>>) = 0 /\ streams[s].cursor \in Nat
    BY <2>1 DEF Stream
  <2>4. QED
    BY <2>2, <2>3
<1>3. QED
  BY <1>1, <1>2

\* A stream hands out the log from where it was opened, each event once and in
\* order, however commits, wakes and reads interleave.
THEOREM StreamsAreFaithful == Spec => []StreamsFollowTheLog
<1>1. IInv => StreamsFollowTheLog
  BY InvariantFollows
<1>2. QED
  BY <1>1, Invariance, PTL

\* No wake is lost between a commit, the reads and the waits of a stream.
THEOREM NoWakeIsLost == Spec => []WaitingStreamsAreComplete
<1>1. IInv => WaitingStreamsAreComplete
  BY InvariantFollows
<1>2. QED
  BY <1>1, Invariance, PTL

=============================================================================
