------------------------ MODULE FollowedSync_proofs ------------------------
(***************************************************************************)
(* Proofs about WorkspaceSync and FollowedSync for any number of           *)
(* workspaces, moves, events and streams.                                  *)
(*                                                                         *)
(* Replication: logs only grow, by an event nobody has yet or by one that  *)
(* another process holds under the very number it gets; what is in flight  *)
(* is always held by its sender.  From that follow the numbers, the fence, *)
(* the completeness of a stolen log and the mirror of an unmoved session.  *)
(*                                                                         *)
(* Streams: without them FollowedSync is WorkspaceSync, so what is proved  *)
(* there holds; and every step of it leaves the log of the control plane   *)
(* alone or appends one event, so it is an EventStream on that log.        *)
(***************************************************************************)
EXTENDS FollowedSync, SequenceTheorems, FiniteSetTheorems, WellFoundedInduction, TLAPS

Store == [log : Seq(Event), owner : Owners]

\* Process n has the event of the row under the number of the row.
Held(n, row) == row.seq \in DOMAIN store[n].log /\ row.event = store[n].log[row.seq]

InFlight ==
    \A r \in Remotes : /\ \A i \in DOMAIN sse[r] : Held(r, sse[r][i])
                       /\ \A i \in DOMAIN loop[r].rows : Held(r, loop[r].rows[i])

\* A remote has others' events from the control plane.
EventsOK ==
    /\ \A n \in Nodes : \A i \in DOMAIN store[n].log : store[n].log[i].id < next
    /\ SameNumberEverywhere
    /\ \A r \in Remotes : \A i \in DOMAIN store[r].log :
           \/ store[r].log[i].at = r
           \/ /\ i \in DOMAIN store[Control].log
              /\ store[Control].log[i] = store[r].log[i]

WarpOK ==
    /\ warp.pc # "idle" => store[Control].log # <<>>
    /\ warp.pc \notin {"catchUp", "send", "steal", "set"} => warp.sent = 0
    /\ warp.pc \in {"source", "catchUp"} => warp.from \in Remotes
    /\ warp.pc = "catchUp" => \A i \in DOMAIN warp.rows : Held(warp.from, warp.rows[i])
    /\ warp.pc \in {"send", "steal", "set"} =>
           /\ warp.to \in Remotes
           /\ \A i \in DOMAIN warp.rows : warp.rows[i].seq = i /\ Held(Control, warp.rows[i])
    /\ warp.pc = "send" => \A i \in 1 .. warp.sent :
           i \in DOMAIN store[warp.to].log /\ store[warp.to].log[i] = warp.rows[i].event
    /\ StealsTheWholeLog

FenceOK ==
    /\ fence.owner # None => store[Control].owner = fence.owner
    /\ ClaimFences

Begins(s, t) == Len(s) <= Len(t) /\ \A i \in 1 .. Len(s) : s[i] = t[i]

\* Before the first move one workspace at most has a log of its own.
UnmovedOK ==
    warps = 0 =>
        /\ warp.pc = "idle"
        /\ \A r \in Remotes : store[r].log # <<>> =>
              /\ \A q \in Remotes : store[q].log # <<>> => q = r
              /\ \A i \in DOMAIN store[r].log : store[r].log[i].home \in {r, "same"}
              /\ Begins(store[Control].log, store[r].log)

IInv == TypeOK /\ InFlight /\ EventsOK /\ WarpOK /\ FenceOK /\ UnmovedOK

-----------------------------------------------------------------------------
(* Operators.                                                              *)

\* A nonempty set of positions of a sequence has a last one.
LEMMA LastPosition ==
    ASSUME NEW n \in Nat, NEW S \in SUBSET (1 .. n), S # {}
    PROVE  Max(S) \in S
<1> DEFINE T == {n - i : i \in S}
<1>1. T \subseteq Nat
  <2>1. ASSUME NEW i \in S PROVE n - i \in Nat
    BY <2>1
  <2>2. QED
    BY <2>1
<1>2. T # {}
  OBVIOUS
<1>3. PICK x \in T : \A y \in T : ~(<<y, x>> \in OpToRel(<, Nat))
  BY <1>1, <1>2, WFMin, NatLessThanWellFounded
<1>4. \A y \in T : ~(y < x)
  BY <1>1, <1>3 DEF OpToRel
<1>5. PICK i \in S : x = n - i
  BY <1>3
<1>6. \A j \in S : i >= j
  <2>1. ASSUME NEW j \in S PROVE i >= j
    BY <1>4, <1>5
  <2>2. QED
    BY <2>1
<1>7. QED
  BY <1>6 DEF Max

\* The projection names a home.
LEMMA HomeType ==
    ASSUME NEW log \in Seq(Event)
    PROVE  HomeIn(log) \in Homes
<1>1. DOMAIN log = 1 .. Len(log) /\ Len(log) \in Nat
  BY LenProperties
<1>2. CASE Naming(log) = {}
  BY <1>2 DEF HomeIn, Homes
<1>3. CASE Naming(log) # {}
  <2>1. Naming(log) \in SUBSET (1 .. Len(log))
    BY <1>1 DEF Naming
  <2>2. Max(Naming(log)) \in Naming(log)
    BY <1>1, <1>3, <2>1, LastPosition
  <2>3. log[Max(Naming(log))] \in Event /\ log[Max(Naming(log))].home # "same"
    BY <1>1, <2>1, <2>2 DEF Naming
  <2>4. QED
    BY <1>3, <2>3 DEF HomeIn, Event
<1>4. QED
  BY <1>2, <1>3

\* The rows behind a number are those of the log.
LEMMA RowsOfLog ==
    ASSUME NEW log \in Seq(Event), NEW after \in Nat
    PROVE  /\ Rows(log, after) \in Seq(Row)
           /\ DOMAIN Rows(log, after) = 1 .. Len(log) - after
           /\ Len(Rows(log, after)) = IF after <= Len(log) THEN Len(log) - after ELSE 0
           /\ \A i \in DOMAIN Rows(log, after) :
                 LET row == Rows(log, after)[i]
                 IN  row.seq = i + after /\ row.seq \in DOMAIN log /\ row.event = log[row.seq]
<1>1. DOMAIN log = 1 .. Len(log) /\ Len(log) \in Nat
  BY LenProperties
<1> DEFINE n == IF after <= Len(log) THEN Len(log) - after ELSE 0
<1>2. n \in Nat /\ 1 .. Len(log) - after = 1 .. n
  <2>1. CASE after <= Len(log)
    BY <1>1, <2>1
  <2>2. CASE ~(after <= Len(log))
    <3>1. 1 .. Len(log) - after = {} /\ 1 .. 0 = {}
      BY <1>1, <2>2
    <3>2. QED
      BY <2>2, <3>1
  <2>3. QED
    BY <2>1, <2>2
<1> HIDE DEF n
<1>3. ASSUME NEW i \in 1 .. n
      PROVE  /\ i + after \in DOMAIN log
             /\ [seq |-> i + after, event |-> log[i + after]] \in Row
  <2>1. i \in 1 .. Len(log) - after
    BY <1>2
  <2>2. i \in Nat \ {0} /\ i <= Len(log) - after
    BY <1>1, <2>1
  <2>3. i + after \in Nat \ {0} /\ i + after <= Len(log)
    BY <1>1, <2>2
  <2>4. i + after \in DOMAIN log
    BY <1>1, <2>3
  <2>5. log[i + after] \in Event
    BY <2>4, ElementOfSeq, <1>1
  <2>6. QED
    BY <2>3, <2>4, <2>5 DEF Row
<1>4. Rows(log, after) \in [1 .. n -> Row]
  BY <1>2, <1>3 DEF Rows
<1>5. Rows(log, after) \in Seq(Row)
  BY <1>2, <1>4, SeqDef
<1>6. DOMAIN Rows(log, after) = 1 .. n /\ Len(Rows(log, after)) = n
  BY <1>2, <1>4, <1>5, LenProperties
<1>7. \A i \in 1 .. n : Rows(log, after)[i] = [seq |-> i + after, event |-> log[i + after]]
  BY <1>2 DEF Rows
<1>8. ASSUME NEW i \in DOMAIN Rows(log, after)
      PROVE  LET row == Rows(log, after)[i]
             IN  row.seq = i + after /\ row.seq \in DOMAIN log /\ row.event = log[row.seq]
  BY <1>3, <1>6, <1>7
<1>9. QED
  BY <1>2, <1>5, <1>6, <1>8 DEF n

\* A replay that does not die leaves the log alone or appends under the next
\* number, and only if the owner lets it; the event is in place then.
LEMMA ReplayOutcome ==
    ASSUME NEW s \in Store, NEW e \in Event, NEW seq \in Nat \ {0},
           NEW owner \in Owners \ {None},
           seq <= L!Latest(s) => L!Stored(s, e, seq),
           seq > L!Latest(s) /\ ~L!Fenced(s, owner) => seq = L!Latest(s) + 1,
           NEW t, t = L!Replay(s, e, seq, owner)
    PROVE  /\ t \in Store
           /\ \/ t.log = s.log
              \/ seq = Len(s.log) + 1 /\ ~L!Fenced(s, owner) /\ t.log = Append(s.log, e)
           /\ s.owner # None => t.owner = s.owner
           /\ ~L!Fenced(s, owner) => seq \in DOMAIN t.log /\ t.log[seq] = e
<1>1. s.log \in Seq(Event) /\ Len(s.log) \in Nat /\ DOMAIN s.log = 1 .. Len(s.log)
  BY LenProperties DEF Store
<1>2. /\ Append(s.log, e) \in Seq(Event) /\ Len(Append(s.log, e)) = Len(s.log) + 1
      /\ DOMAIN Append(s.log, e) = 1 .. Len(s.log) + 1 /\ Append(s.log, e)[Len(s.log) + 1] = e
  BY <1>1, AppendProperties, LenProperties
<1>3. L!Adopted(s, owner) \in Owners /\ (s.owner # None => L!Adopted(s, owner) = s.owner)
  BY DEF L!Adopted, Store
<1>4. CASE seq <= Len(s.log)
  <2>1. t = [s EXCEPT !.owner = L!Adopted(s, owner)]
    BY <1>4 DEF L!Replay, L!Latest
  <2>2. seq \in DOMAIN s.log /\ s.log[seq] = e
    BY <1>1, <1>4 DEF L!Latest, L!Stored
  <2>3. QED
    BY <1>1, <1>3, <2>1, <2>2 DEF Store
<1>5. CASE ~(seq <= Len(s.log)) /\ L!Fenced(s, owner)
  BY <1>5 DEF L!Replay, L!Latest
<1>6. CASE ~(seq <= Len(s.log)) /\ ~L!Fenced(s, owner)
  <2>1. t = [log |-> Append(s.log, e), owner |-> L!Adopted(s, owner)]
    BY <1>6 DEF L!Replay, L!Latest
  <2>2. seq = Len(s.log) + 1
    BY <1>1, <1>6 DEF L!Latest
  <2>3. QED
    BY <1>2, <1>3, <1>6, <2>1, <2>2 DEF Store
<1>7. QED
  BY <1>4, <1>5, <1>6

-----------------------------------------------------------------------------
(* How the logs change.                                                    *)

\* One log grows by one event.
Grown(n, e) ==
    /\ store' \in [Nodes -> Store]
    /\ store'[n].log = Append(store[n].log, e)
    /\ \A m \in Nodes : m # n => store'[m].log = store[m].log

Same ==
    /\ store' \in [Nodes -> Store]
    /\ \A m \in Nodes : store'[m].log = store[m].log

\* An event is published.
Fresh(n, e) ==
    /\ Grown(n, e)
    /\ next \in 1 .. MaxEvents /\ next' = next + 1
    /\ e.id = next /\ e.at = n

\* An event of m is copied to n.
Copied(n, m) ==
    /\ Len(store[n].log) + 1 \in DOMAIN store[m].log
    /\ Grown(n, store[m].log[Len(store[n].log) + 1])
    /\ next' = next

\* What a log is.
LEMMA LogType ==
    ASSUME TypeOK, NEW n \in Nodes
    PROVE  /\ store[n] \in Store
           /\ store[n].log \in Seq(Event)
           /\ Len(store[n].log) \in Nat
           /\ DOMAIN store[n].log = 1 .. Len(store[n].log)
           /\ \A i \in DOMAIN store[n].log : store[n].log[i] \in Event
<1>1. store[n] \in Store /\ store[n].log \in Seq(Event)
  BY DEF TypeOK, Store
<1>2. QED
  BY <1>1, LenProperties, ElementOfSeq

LEMMA GrownLog ==
    ASSUME TypeOK, NEW n \in Nodes, NEW e \in Event, Grown(n, e)
    PROVE  /\ \A m \in Nodes : \A i \in DOMAIN store[m].log :
                 i \in DOMAIN store'[m].log /\ store'[m].log[i] = store[m].log[i]
           /\ \A m \in Nodes : \A i \in DOMAIN store'[m].log :
                 \/ i \in DOMAIN store[m].log
                 \/ m = n /\ i = Len(store[n].log) + 1 /\ store'[m].log[i] = e
           /\ Len(store[n].log) + 1 \in DOMAIN store'[n].log
<1>1. /\ DOMAIN store'[n].log = 1 .. Len(store[n].log) + 1
      /\ \A i \in 1 .. Len(store[n].log) : store'[n].log[i] = store[n].log[i]
      /\ store'[n].log[Len(store[n].log) + 1] = e
  BY LogType, AppendProperties, LenProperties DEF Grown
<1>2. Len(store[n].log) \in Nat /\ DOMAIN store[n].log = 1 .. Len(store[n].log)
  BY LogType
<1>3. \A m \in Nodes : m # n => store'[m].log = store[m].log
  BY DEF Grown
<1>4. ASSUME NEW m \in Nodes
      PROVE  /\ \A i \in DOMAIN store[m].log :
                   i \in DOMAIN store'[m].log /\ store'[m].log[i] = store[m].log[i]
             /\ \A i \in DOMAIN store'[m].log :
                   \/ i \in DOMAIN store[m].log
                   \/ m = n /\ i = Len(store[n].log) + 1 /\ store'[m].log[i] = e
  <2>1. CASE m = n
    <3>1. \A i \in DOMAIN store'[n].log : i \in DOMAIN store[n].log \/ i = Len(store[n].log) + 1
      BY <1>1, <1>2
    <3>2. \A i \in DOMAIN store[n].log : i \in DOMAIN store'[n].log
      BY <1>1, <1>2
    <3>3. QED
      BY <1>1, <1>2, <2>1, <3>1, <3>2
  <2>2. CASE m # n
    BY <1>3, <2>2
  <2>3. QED
    BY <2>1, <2>2
<1>5. QED
  BY <1>1, <1>2, <1>4

\* What a process holds it keeps.
LEMMA HeldStays ==
    ASSUME TypeOK,
           Same \/ \E n \in Nodes, e \in Event : Grown(n, e)
    PROVE  \A m \in Nodes, row \in Row : Held(m, row) => Held(m, row)'
<1>1. CASE Same
  BY <1>1 DEF Same, Held
<1>2. ASSUME NEW n \in Nodes, NEW e \in Event, Grown(n, e)
      PROVE  \A m \in Nodes, row \in Row : Held(m, row) => Held(m, row)'
  BY <1>2, GrownLog DEF Held
<1>3. QED
  BY <1>1, <1>2

LEMMA EventsSame ==
    ASSUME TypeOK, EventsOK, Same, next' = next
    PROVE  EventsOK'
BY DEF EventsOK, SameNumberEverywhere, Same, Nodes

LEMMA EventsFresh ==
    ASSUME TypeOK, EventsOK, NEW n \in Nodes, NEW e \in Event, Fresh(n, e)
    PROVE  EventsOK'
<1>1. Grown(n, e) /\ next \in Nat /\ next' = next + 1 /\ e.id = next /\ e.at = n
  BY DEF Fresh
<1> DEFINE last == Len(store[n].log) + 1
<1>2. /\ \A m \in Nodes : \A i \in DOMAIN store[m].log :
            i \in DOMAIN store'[m].log /\ store'[m].log[i] = store[m].log[i]
      /\ \A m \in Nodes : \A i \in DOMAIN store'[m].log :
            \/ i \in DOMAIN store[m].log
            \/ m = n /\ i = last /\ store'[m].log[i] = e
  BY <1>1, GrownLog
<1> HIDE DEF last
<1>3. \A m \in Nodes : \A i \in DOMAIN store[m].log :
         store[m].log[i].id \in Int /\ store[m].log[i].id < next
  BY LogType DEF EventsOK, Event
<1>4. ASSUME NEW m \in Nodes, NEW i \in DOMAIN store'[m].log
      PROVE  store'[m].log[i].id < next'
  BY <1>1, <1>2, <1>3
<1>5. ASSUME NEW m \in Nodes, NEW k \in Nodes,
             NEW i \in DOMAIN store'[m].log, NEW j \in DOMAIN store'[k].log,
             store'[m].log[i].id = store'[k].log[j].id
      PROVE  i = j /\ store'[m].log[i] = store'[k].log[j]
  <2>1. CASE i \in DOMAIN store[m].log /\ j \in DOMAIN store[k].log
    BY <1>2, <1>5, <2>1 DEF EventsOK, SameNumberEverywhere
  <2>2. CASE i \notin DOMAIN store[m].log /\ j \in DOMAIN store[k].log
    BY <1>1, <1>2, <1>3, <1>5, <2>2
  <2>3. CASE i \in DOMAIN store[m].log /\ j \notin DOMAIN store[k].log
    BY <1>1, <1>2, <1>3, <1>5, <2>3
  <2>4. CASE i \notin DOMAIN store[m].log /\ j \notin DOMAIN store[k].log
    BY <1>2, <2>4
  <2>5. QED
    BY <2>1, <2>2, <2>3, <2>4
<1>6. ASSUME NEW r \in Remotes, NEW i \in DOMAIN store'[r].log
      PROVE  \/ store'[r].log[i].at = r
             \/ /\ i \in DOMAIN store'[Control].log
                /\ store'[Control].log[i] = store'[r].log[i]
  BY <1>1, <1>2 DEF EventsOK, Nodes
<1>7. QED
  BY <1>4, <1>5, <1>6 DEF EventsOK, SameNumberEverywhere

\* The copy comes from the control plane or goes to it.
LEMMA EventsCopied ==
    ASSUME TypeOK, EventsOK, NEW n \in Nodes, NEW m \in Nodes, Copied(n, m),
           n = Control \/ m = Control
    PROVE  EventsOK'
<1> DEFINE last == Len(store[n].log) + 1
<1> DEFINE e == store[m].log[last]
<1>1. Grown(n, e) /\ last \in DOMAIN store[m].log /\ e \in Event /\ next' = next
  BY LogType DEF Copied
<1>2. /\ \A k \in Nodes : \A i \in DOMAIN store[k].log :
            i \in DOMAIN store'[k].log /\ store'[k].log[i] = store[k].log[i]
      /\ \A k \in Nodes : \A i \in DOMAIN store'[k].log :
            \/ i \in DOMAIN store[k].log
            \/ k = n /\ i = last /\ store'[k].log[i] = e
      /\ last \in DOMAIN store'[n].log
  BY <1>1, GrownLog
<1>3. /\ last \in DOMAIN store'[m].log /\ store'[m].log[last] = e
  BY <1>1, <1>2
\* Every event of a new log is one of an old log, under the same number.
<1>4. ASSUME NEW k \in Nodes, NEW i \in DOMAIN store'[k].log
      PROVE  \E h \in Nodes : i \in DOMAIN store[h].log /\ store[h].log[i] = store'[k].log[i]
  BY <1>1, <1>2
<1> HIDE DEF last, e
<1>5. ASSUME NEW k \in Nodes, NEW i \in DOMAIN store'[k].log
      PROVE  store'[k].log[i].id < next'
  BY <1>1, <1>4 DEF EventsOK
<1>6. ASSUME NEW k \in Nodes, NEW h \in Nodes,
             NEW i \in DOMAIN store'[k].log, NEW j \in DOMAIN store'[h].log,
             store'[k].log[i].id = store'[h].log[j].id
      PROVE  i = j /\ store'[k].log[i] = store'[h].log[j]
  <2>1. PICK a \in Nodes : i \in DOMAIN store[a].log /\ store[a].log[i] = store'[k].log[i]
    BY <1>4
  <2>2. PICK b \in Nodes : j \in DOMAIN store[b].log /\ store[b].log[j] = store'[h].log[j]
    BY <1>4
  <2>3. QED
    BY <1>6, <2>1, <2>2 DEF EventsOK, SameNumberEverywhere
<1>7. ASSUME NEW r \in Remotes, NEW i \in DOMAIN store'[r].log
      PROVE  \/ store'[r].log[i].at = r
             \/ /\ i \in DOMAIN store'[Control].log
                /\ store'[Control].log[i] = store'[r].log[i]
  <2>1. r \in Nodes /\ Control \in Nodes /\ r # Control
    BY NamesAssumption DEF Nodes
  <2>2. CASE i \in DOMAIN store[r].log
    BY <1>2, <2>1, <2>2 DEF EventsOK
  <2>3. CASE i \notin DOMAIN store[r].log
    <3>1. r = n /\ i = last /\ store'[r].log[i] = e
      BY <1>2, <2>1, <2>3
    <3>2. m = Control
      BY <2>1, <3>1
    <3>3. QED
      BY <1>3, <3>1, <3>2
  <2>4. QED
    BY <2>2, <2>3
<1>8. QED
  BY <1>5, <1>6, <1>7 DEF EventsOK, SameNumberEverywhere

-----------------------------------------------------------------------------
(* What the calls on the log come to.                                      *)

\* The owners of the logs, once there are any, stay.
OwnersStay == \A n \in Nodes : store[n].owner # None => store'[n].owner = store[n].owner

LEMMA PublishOutcome ==
    ASSUME IInv, NEW n \in Nodes, NEW home \in Homes \cup {"same"}, Publish(n, home)
    PROVE  LET e == [id |-> next, at |-> n, home |-> home]
           IN  /\ e \in Event /\ Fresh(n, e) /\ OwnersStay
               /\ sse' \in [Remotes -> Seq(Row)]
               /\ \A r \in Remotes : \A i \in DOMAIN sse'[r] :
                     \/ i \in DOMAIN sse[r] /\ sse'[r][i] = sse[r][i]
                     \/ /\ sse'[r][i].seq \in DOMAIN store'[r].log
                        /\ sse'[r][i].event = store'[r].log[sse'[r][i].seq]
<1> DEFINE e == [id |-> next, at |-> n, home |-> home]
<1> DEFINE row(r) == [seq |-> Len(store[r].log) + 1, event |-> e]
<1>1. TypeOK /\ next \in 1 .. MaxEvents /\ next' = next + 1
  BY BoundsAssumption DEF IInv, Publish, TypeOK
<1>2. e \in Event
  BY <1>1 DEF Event
<1>3. store' = [store EXCEPT ![n] = [store[n] EXCEPT !.log = Append(store[n].log, e)]]
  BY DEF Publish, L!Publish
<1>4. store \in [Nodes -> Store] /\ Append(store[n].log, e) \in Seq(Event)
  BY <1>1, <1>2, LogType, AppendProperties DEF TypeOK, Store
<1>5. /\ store' \in [Nodes -> Store] /\ OwnersStay
      /\ store'[n].log = Append(store[n].log, e)
      /\ \A m \in Nodes : m # n => store'[m].log = store[m].log
  BY <1>3, <1>4 DEF Store, OwnersStay
<1>6. Grown(n, e) /\ Fresh(n, e)
  BY <1>1, <1>5 DEF Grown, Fresh
<1>7. ASSUME NEW r \in Remotes
      PROVE  /\ sse'[r] \in Seq(Row)
             /\ \A i \in DOMAIN sse'[r] :
                   \/ i \in DOMAIN sse[r] /\ sse'[r][i] = sse[r][i]
                   \/ /\ sse'[r][i].seq \in DOMAIN store'[r].log
                      /\ sse'[r][i].event = store'[r].log[sse'[r][i].seq]
  <2>1. r \in Nodes /\ sse[r] \in Seq(Row) /\ Len(store[r].log) \in Nat
    BY <1>1, LogType DEF TypeOK, Nodes
  <2>2. CASE sse'[r] = sse[r]
    BY <2>1, <2>2
  <2>3. CASE r = n /\ sse'[r] = Append(sse[r], row(r))
    <3>1. row(r) \in Row
      BY <1>2, <2>1 DEF Row
    <3>2. Len(store[r].log) + 1 \in DOMAIN store'[r].log /\ store'[r].log[Len(store[r].log) + 1] = e
      BY <1>1, <1>2, <1>5, <2>1, <2>3, LogType, AppendProperties, LenProperties
    <3>3. /\ sse'[r] \in Seq(Row) /\ DOMAIN sse'[r] = 1 .. Len(sse[r]) + 1
          /\ DOMAIN sse[r] = 1 .. Len(sse[r]) /\ Len(sse[r]) \in Nat
          /\ \A i \in 1 .. Len(sse[r]) : sse'[r][i] = sse[r][i]
          /\ sse'[r][Len(sse[r]) + 1] = row(r)
      BY <2>1, <2>3, <3>1, AppendProperties, LenProperties
    <3>4. QED
      BY SMTT(30), <3>2, <3>3
  <2>4. sse'[r] = sse[r] \/ (r = n /\ sse'[r] = Append(sse[r], row(r)))
    BY DEF Publish, L!Latest
  <2>5. QED
    BY <2>2, <2>3, <2>4
<1>8. sse' \in [Remotes -> Seq(Row)]
  <2>1. \E f : sse' = [r \in Remotes |-> f[r]]
    <3> DEFINE f == sse'
    <3>1. sse' = [r \in Remotes |-> f[r]]
      BY DEF Publish
    <3>2. QED
      BY <3>1
  <2>2. QED
    BY <1>7, <2>1
<1>9. QED
  BY <1>2, <1>5, <1>6, <1>7, <1>8

\* A row of r is copied to the control plane, if r may write there, or ignored.
LEMMA TakeOutcome ==
    ASSUME IInv, NEW r \in Remotes, NEW row \in Row, Held(r, row), Take(row, r), next' = next
    PROVE  /\ OwnersStay
           /\ \/ Same
              \/ Copied(Control, r) /\ ~L!Fenced(store[Control], r)
<1>1. TypeOK /\ Control \in Nodes /\ r \in Nodes /\ r \in Owners \ {None}
  BY NamesAssumption DEF IInv, Nodes, Owners
<1> DEFINE s == store[Control]
<1> DEFINE t == IF Dies(row, r) THEN s ELSE L!Replay(s, row.event, row.seq, r)
<1>2. s \in Store /\ row.event \in Event /\ row.seq \in Nat \ {0}
  BY <1>1, LogType DEF Row
<1>3. /\ t \in Store
      /\ \/ t.log = s.log
         \/ /\ row.seq = Len(s.log) + 1 /\ ~L!Fenced(s, r)
            /\ t.log = Append(s.log, row.event)
      /\ s.owner # None => t.owner = s.owner
  <2>1. CASE Dies(row, r)
    BY <1>2, <2>1
  <2>2. CASE ~Dies(row, r)
    <3>1. /\ row.seq <= L!Latest(s) => L!Stored(s, row.event, row.seq)
          /\ row.seq > L!Latest(s) /\ ~L!Fenced(s, r) => row.seq = L!Latest(s) + 1
      BY <2>2 DEF Dies, L!Dies
    <3>2. t = L!Replay(s, row.event, row.seq, r)
      BY <2>2
    <3> HIDE DEF t
    <3>3. QED
      BY <1>1, <1>2, <3>1, <3>2, ReplayOutcome
  <2>3. QED
    BY <2>1, <2>2
<1>4. store' = [store EXCEPT ![Control] = t]
  BY DEF Take, L!Replayed, Dies
<1> HIDE DEF t
<1>5. store \in [Nodes -> Store]
  BY <1>1 DEF TypeOK, Store
<1>6. store' \in [Nodes -> Store] /\ OwnersStay
  BY <1>1, <1>3, <1>4, <1>5 DEF OwnersStay
<1>7. store'[Control] = t /\ \A m \in Nodes : m # Control => store'[m] = store[m]
  BY <1>1, <1>4, <1>5
<1>8. CASE t.log = s.log
  BY <1>6, <1>7, <1>8 DEF Same
<1>9. CASE row.seq = Len(s.log) + 1 /\ ~L!Fenced(s, r) /\ t.log = Append(s.log, row.event)
  <2>1. Grown(Control, row.event)
    BY <1>6, <1>7, <1>9 DEF Grown
  <2>2. QED
    BY <1>6, <1>9, <2>1 DEF Copied, Held
<1>10. QED
  BY <1>3, <1>6, <1>8, <1>9

-----------------------------------------------------------------------------
(* What a change of the logs leaves of the parts of the invariant.         *)

Grows == Same \/ \E n \in Nodes, e \in Event : Grown(n, e)

LEMMA GrownLength ==
    ASSUME TypeOK, Grows, NEW m \in Nodes
    PROVE  Len(store'[m].log) \in Nat /\ Len(store[m].log) <= Len(store'[m].log)
<1>1. Len(store[m].log) \in Nat
  BY LogType
<1>2. CASE store'[m].log = store[m].log
  BY <1>1, <1>2
<1>3. ASSUME NEW e \in Event, store'[m].log = Append(store[m].log, e)
      PROVE  Len(store'[m].log) \in Nat /\ Len(store[m].log) <= Len(store'[m].log)
  BY <1>1, <1>3, LogType, AppendProperties
<1>4. QED
  BY <1>2, <1>3 DEF Grows, Same, Grown

LEMMA FenceStays ==
    ASSUME TypeOK, FenceOK, OwnersStay, fence' = fence,
           \/ Same
           \/ \E n \in Nodes, e \in Event :
                 /\ Grown(n, e)
                 /\ n = Control /\ fence.owner # None => e.at \in {Control, fence.owner}
    PROVE  FenceOK'
<1>1. Control \in Nodes
  BY DEF Nodes
<1>2. fence.owner # None => store'[Control].owner = fence.owner
  BY <1>1 DEF FenceOK, OwnersStay
<1>3. CASE Same
  BY <1>1, <1>2, <1>3 DEF FenceOK, ClaimFences, Same
<1>4. ASSUME NEW n \in Nodes, NEW e \in Event, Grown(n, e),
             n = Control /\ fence.owner # None => e.at \in {Control, fence.owner}
      PROVE  FenceOK'
  <2>1. \A i \in DOMAIN store'[Control].log :
           \/ i \in DOMAIN store[Control].log /\ store'[Control].log[i] = store[Control].log[i]
           \/ n = Control /\ store'[Control].log[i] = e
    BY <1>1, <1>4, GrownLog
  <2>2. QED
    BY <1>2, <1>4, <2>1 DEF FenceOK, ClaimFences
<1>5. QED
  BY <1>3, <1>4

LEMMA WarpStays ==
    ASSUME TypeOK, WarpOK, Grows, warp' = warp
    PROVE  WarpOK'
<1>1. \A m \in Nodes, row \in Row : Held(m, row) => Held(m, row)'
  BY HeldStays DEF Grows
<1>2. \A m \in Nodes : \A i \in DOMAIN store[m].log :
         i \in DOMAIN store'[m].log /\ store'[m].log[i] = store[m].log[i]
  BY GrownLog DEF Grows, Same
<1>3. /\ Control \in Nodes /\ Remotes \subseteq Nodes
      /\ \A i \in DOMAIN warp.rows : warp.rows[i] \in Row
      /\ DOMAIN warp.rows = 1 .. Len(warp.rows) /\ Len(warp.rows) \in Nat
  BY ElementOfSeq, LenProperties DEF TypeOK, Nodes
<1>4. store[Control].log # <<>> => store'[Control].log # <<>>
  BY <1>2, <1>3, LogType, EmptySeq DEF Nodes
<1>5. StealsTheWholeLog'
  <2>1. SUFFICES ASSUME warp.pc = "steal"
                 PROVE  /\ Len(warp.rows) <= Len(store'[warp.to].log)
                        /\ \A i \in DOMAIN warp.rows :
                              store'[warp.to].log[i] = warp.rows[i].event
    BY DEF StealsTheWholeLog, At
  <2>2. warp.to \in Nodes
    BY <1>3, <2>1 DEF WarpOK
  <2>3. /\ Len(warp.rows) <= Len(store[warp.to].log)
        /\ \A i \in DOMAIN warp.rows : store[warp.to].log[i] = warp.rows[i].event
    BY <2>1 DEF WarpOK, StealsTheWholeLog, At
  <2>4. Len(store[warp.to].log) \in Nat /\ DOMAIN store[warp.to].log = 1 .. Len(store[warp.to].log)
    BY <2>2, LogType
  <2>5. Len(store[warp.to].log) <= Len(store'[warp.to].log)
    BY <2>2, GrownLength
  <2>6. QED
    BY SMTT(30), <1>2, <1>3, <2>2, <2>3, <2>4, <2>5
<1>6. QED
  BY <1>1, <1>2, <1>3, <1>4, <1>5 DEF WarpOK

\* Before the first move only the workspace with a log writes, or is copied.
LEMMA UnmovedStays ==
    ASSUME TypeOK, UnmovedOK, warps' = warps, warp' = warp,
           \/ Same
           \/ \E n \in Nodes, e \in Event : Ran(n) /\ e.home = "same" /\ Grown(n, e)
           \/ \E r \in Remotes : Copied(Control, r)
    PROVE  UnmovedOK'
<1> SUFFICES ASSUME warps = 0 PROVE UnmovedOK'
  BY DEF UnmovedOK
<1>1. /\ warp.pc = "idle"
      /\ Control \in Nodes /\ Remotes \subseteq Nodes /\ Control \notin Remotes
  BY NamesAssumption DEF UnmovedOK, Nodes
<1>2. \A q, r \in Remotes : store[q].log # <<>> /\ store[r].log # <<>> => q = r
  BY DEF UnmovedOK
<1>3. \A r \in Remotes : store[r].log # <<>> =>
         /\ \A i \in DOMAIN store[r].log : store[r].log[i].home \in {r, "same"}
         /\ Begins(store[Control].log, store[r].log)
  BY DEF UnmovedOK
<1>4. CASE Same
  BY <1>1, <1>2, <1>3, <1>4 DEF UnmovedOK, Same
<1>5. ASSUME NEW n \in Nodes, NEW e \in Event, Ran(n), e.home = "same", Grown(n, e)
      PROVE  UnmovedOK'
  <2>1. PICK j \in DOMAIN store[n].log :
           /\ store[n].log[j].home # "same"
           /\ store[n].log[j].home \in (IF n = Control THEN Locals \cup {None} ELSE {n})
    BY <1>5 DEF Ran, Naming
  <2>2. DOMAIN store[n].log = 1 .. Len(store[n].log) /\ Len(store[n].log) \in Nat
    BY LogType
  <2>3. CASE n = Control
    <3>1. ASSUME NEW r \in Remotes, store[r].log # <<>> PROVE FALSE
      <4>1. Begins(store[Control].log, store[r].log)
        BY <1>3, <3>1
      <4>2. DOMAIN store[r].log = 1 .. Len(store[r].log) /\ Len(store[r].log) \in Nat
        BY <1>1, LogType
      <4>3. j \in DOMAIN store[r].log /\ store[r].log[j] = store[n].log[j]
        BY <2>2, <2>3, <4>1, <4>2 DEF Begins
      <4>4. store[r].log[j].home \in {r, "same"}
        BY <1>3, <3>1, <4>3
      <4>5. QED
        BY <2>1, <2>3, <4>3, <4>4, NamesAssumption
    <3>2. \A r \in Remotes : store'[r].log = <<>>
      BY <1>1, <1>5, <2>3, <3>1 DEF Grown
    <3>3. QED
      BY <1>1, <3>2 DEF UnmovedOK
  <2>4. CASE n # Control
    <3>1. n \in Remotes /\ store[n].log # <<>>
      <4>1. n \in Remotes
        BY <2>4 DEF Nodes
      <4>2. QED
        BY <2>1, <2>2, <4>1, EmptySeq
    <3>2. \A r \in Remotes : r # n => store'[r].log = <<>>
      BY <1>1, <1>2, <1>5, <3>1 DEF Grown
    <3>3. /\ \A i \in DOMAIN store[n].log : store[n].log[i].home \in {n, "same"}
          /\ Begins(store[Control].log, store[n].log)
      BY <1>3, <3>1
    <3>4. \A i \in DOMAIN store'[n].log : store'[n].log[i].home \in {n, "same"}
      BY <1>5, <3>3, GrownLog
    <3>5. store'[Control].log = store[Control].log
      BY <1>1, <1>5, <2>4 DEF Grown
    <3>6. Begins(store'[Control].log, store'[n].log)
      <4>1. Len(store'[n].log) \in Nat /\ Len(store[n].log) <= Len(store'[n].log)
        BY <1>5, GrownLength DEF Grows
      <4>2. \A i \in 1 .. Len(store[n].log) : store'[n].log[i] = store[n].log[i]
        BY <1>5, <2>2, GrownLog
      <4>3. Len(store[Control].log) \in Nat
        BY <1>1, LogType
      <4>4. Len(store[Control].log) <= Len(store[n].log)
        BY <3>3 DEF Begins
      <4>5. Len(store[Control].log) <= Len(store'[n].log)
        BY SMTT(30), <2>2, <4>1, <4>3, <4>4
      <4>6. ASSUME NEW i \in 1 .. Len(store[Control].log)
            PROVE  store[Control].log[i] = store'[n].log[i]
        <5>1. i \in 1 .. Len(store[n].log)
          BY <2>2, <4>3, <4>4
        <5>2. store[Control].log[i] = store[n].log[i]
          BY <3>3 DEF Begins
        <5>3. QED
          BY <4>2, <5>1, <5>2
      <4>7. QED
        BY <3>5, <4>5, <4>6 DEF Begins
    <3>7. QED
      BY <1>1, <3>2, <3>4, <3>6 DEF UnmovedOK
  <2>5. QED
    BY <2>3, <2>4
<1>6. ASSUME NEW r \in Remotes, Copied(Control, r)
      PROVE  UnmovedOK'
  <2> DEFINE last == Len(store[Control].log) + 1
  <2>1. last \in DOMAIN store[r].log /\ Grown(Control, store[r].log[last])
    BY <1>6 DEF Copied
  <2>2. /\ DOMAIN store[r].log = 1 .. Len(store[r].log) /\ Len(store[r].log) \in Nat
        /\ store[r].log \in Seq(Event) /\ store[r].log[last] \in Event
        /\ store[Control].log \in Seq(Event) /\ Len(store[Control].log) \in Nat
    BY <1>1, <2>1, LogType
  <2>3. store[r].log # <<>>
    BY <2>1, <2>2, EmptySeq
  <2>4. \A q \in Remotes : store'[q].log = store[q].log /\ (q # r => store'[q].log = <<>>)
    BY <1>1, <1>2, <2>1, <2>3 DEF Grown
  <2>5. /\ Len(store'[Control].log) = last
        /\ \A i \in 1 .. Len(store[Control].log) : store'[Control].log[i] = store[Control].log[i]
        /\ store'[Control].log[last] = store[r].log[last]
    BY <2>1, <2>2, AppendProperties DEF Grown
  <2>6. Begins(store[Control].log, store[r].log)
    BY <1>3, <2>3
  <2>7. Begins(store'[Control].log, store'[r].log)
    <3>1. \A i \in 1 .. Len(store[Control].log) : store[Control].log[i] = store[r].log[i]
      BY <2>6 DEF Begins
    <3>2. \A i \in 1 .. last : i \in 1 .. Len(store[Control].log) \/ i = last
      BY <2>2
    <3>3. \A i \in 1 .. last : store'[Control].log[i] = store[r].log[i]
      BY <2>5, <3>1, <3>2
    <3>4. last <= Len(store[r].log)
      BY <2>1, <2>2
    <3> HIDE DEF last
    <3>5. QED
      BY <2>4, <2>5, <3>3, <3>4 DEF Begins
  <2>8. QED
    BY <1>1, <1>3, <2>3, <2>4, <2>7 DEF UnmovedOK
<1>7. QED
  BY <1>4, <1>5, <1>6

-----------------------------------------------------------------------------
(* The invariant holds at first.                                           *)

LEMMA Initially ==
    ASSUME Init
    PROVE  IInv
<1>1. PICK b \in Births :
        /\ store = [n \in Nodes |->
                      IF n = (IF b \in Remotes THEN b ELSE Control)
                      THEN [log |-> <<[id |-> 1, at |-> n, home |-> b]>>, owner |-> None]
                      ELSE L!EmptyStore]
        /\ next = 2
        /\ loop = [r \in Remotes |-> IdleLoop]
        /\ sse = [r \in Remotes |-> <<>>]
        /\ warp = IdleWarp
        /\ warps = 0
        /\ fence = [owner |-> None, at |-> 0]
  BY DEF Init
<1> DEFINE home == IF b \in Remotes THEN b ELSE Control
<1> DEFINE first == [id |-> 1, at |-> home, home |-> b]
<1>2. /\ home \in Nodes /\ b \in Homes /\ None \in Owners /\ Control \in Nodes
      /\ Remotes \subseteq Nodes /\ Control \notin Remotes
  BY NamesAssumption DEF Nodes, Homes, Owners
<1>3. first \in Event
  BY <1>2, BoundsAssumption DEF Event
<1>4. /\ store[home] = [log |-> <<first>>, owner |-> None]
      /\ \A n \in Nodes : n # home => store[n] = [log |-> <<>>, owner |-> None]
      /\ \A n \in Nodes : store[n].owner = None
  BY <1>1, <1>2 DEF L!EmptyStore
<1>5. /\ <<first>> \in Seq(Event) /\ Len(<<first>>) = 1 /\ DOMAIN <<first>> = {1}
      /\ <<first>>[1] = first /\ <<>> \in Seq(Event) /\ DOMAIN <<>> = {}
  BY <1>3
<1>6. \A n \in Nodes : store[n] \in Store
  <2>1. store[home] \in Store
    BY <1>2, <1>3, <1>4 DEF Store
  <2>2. \A n \in Nodes : n # home => store[n] \in Store
    <3>1. [log |-> <<>>, owner |-> None] \in Store
      BY <1>2, <1>5 DEF Store
    <3>2. QED
      BY <1>4, <3>1
  <2>3. QED
    BY <2>1, <2>2
<1>7. \A n \in Nodes : \A i \in DOMAIN store[n].log :
         n = home /\ i = 1 /\ store[n].log[i] = first
  BY <1>4, <1>5
<1> HIDE DEF home
<1>8. TypeOK
  <2>1. store \in [Nodes -> Store]
    BY <1>1, <1>6
  <2>2. next \in 1 .. (MaxEvents + 1) /\ warps \in 0 .. MaxWarps
    BY <1>1, BoundsAssumption
  <2>3. IdleWarp.from \in Homes /\ IdleWarp.to \in Homes /\ <<>> \in Seq(Row)
    BY DEF IdleWarp, Homes
  <2>4. QED
    BY <1>1, <1>2, <2>1, <2>2, <2>3 DEF TypeOK, Store, IdleLoop, IdleWarp
<1>9. InFlight
  BY <1>1 DEF InFlight, IdleLoop
<1>10. EventsOK
  <2>1. first.id = 1 /\ first.at = home
    OBVIOUS
  <2>2. \A r \in Remotes : \A i \in DOMAIN store[r].log : store[r].log[i].at = r
    BY <1>2, <1>7, <2>1
  <2>3. QED
    BY <1>1, <1>7, <2>1, <2>2 DEF EventsOK, SameNumberEverywhere
<1>11. WarpOK
  BY <1>1 DEF WarpOK, IdleWarp, StealsTheWholeLog, At
<1>12. FenceOK
  BY <1>1 DEF FenceOK, ClaimFences
<1>13. UnmovedOK
  <2>1. ASSUME NEW r \in Remotes, store[r].log # <<>>
        PROVE  /\ \A q \in Remotes : store[q].log # <<>> => q = r
               /\ \A i \in DOMAIN store[r].log : store[r].log[i].home \in {r, "same"}
               /\ Begins(store[Control].log, store[r].log)
    <3>1. r = home /\ \A q \in Remotes : store[q].log # <<>> => q = r
      BY <1>2, <1>4, <2>1
    <3>2. b = r
      BY <1>2, <3>1 DEF home
    <3>3. store[Control].log = <<>>
      BY <1>2, <1>4, <3>1
    <3>4. Len(<<>>) = 0 /\ Len(store[r].log) = 1
      BY <1>4, <1>5, <3>1
    <3>5. QED
      BY <1>2, <1>7, <3>1, <3>2, <3>3, <3>4 DEF Begins
  <2>2. warp.pc = "idle"
    BY <1>1 DEF IdleWarp
  <2>3. QED
    BY <2>1, <2>2 DEF UnmovedOK
<1>14. QED
  BY <1>8, <1>9, <1>10, <1>11, <1>12, <1>13 DEF IInv

-----------------------------------------------------------------------------
(* The steps keep the invariant.                                           *)

\* Nothing that the steps of a sync loop and of a move share is disturbed.
LEMMA QuietStep ==
    ASSUME IInv, UNCHANGED <<store, next>>
    PROVE  /\ Same /\ Grows /\ OwnersStay /\ EventsOK'
           /\ \A n \in Nodes, row \in Row : Held(n, row) => Held(n, row)'
<1>1. Same /\ OwnersStay
  BY DEF IInv, TypeOK, Same, OwnersStay, Store
<1>2. QED
  BY <1>1, EventsSame, HeldStays DEF IInv, Grows

\* The rows in flight and in hand.
LEMMA RowTypes ==
    ASSUME TypeOK, NEW r \in Remotes
    PROVE  /\ r \in Nodes /\ sse[r] \in Seq(Row) /\ loop[r].rows \in Seq(Row)
           /\ \A i \in DOMAIN sse[r] : sse[r][i] \in Row
           /\ \A i \in DOMAIN loop[r].rows : loop[r].rows[i] \in Row
BY ElementOfSeq, LenProperties DEF TypeOK, Nodes

\* Dropping the first of a sequence leaves its others.
LEMMA TailRows ==
    ASSUME NEW rows \in Seq(Row), rows # <<>>
    PROVE  /\ Head(rows) \in Row /\ 1 \in DOMAIN rows /\ Head(rows) = rows[1]
           /\ Tail(rows) \in Seq(Row)
           /\ \A i \in DOMAIN Tail(rows) : i + 1 \in DOMAIN rows /\ Tail(rows)[i] = rows[i + 1]
<1>1. /\ Head(rows) \in Row /\ Tail(rows) \in Seq(Row) /\ Len(Tail(rows)) = Len(rows) - 1
      /\ Len(rows) \in Nat \ {0}
  BY HeadTailProperties, EmptySeq
<1>2. DOMAIN rows = 1 .. Len(rows) /\ DOMAIN Tail(rows) = 1 .. Len(rows) - 1
  BY <1>1, LenProperties
<1>3. QED
  BY <1>1, <1>2

LEMMA WorkStep ==
    ASSUME IInv, NEW n \in Nodes, Work(n)
    PROVE  IInv'
<1> DEFINE e == [id |-> next, at |-> n, home |-> "same"]
<1>1. /\ e \in Event /\ Fresh(n, e) /\ OwnersStay /\ Ran(n)
      /\ sse' \in [Remotes -> Seq(Row)]
      /\ \A r \in Remotes : \A i \in DOMAIN sse'[r] :
            \/ i \in DOMAIN sse[r] /\ sse'[r][i] = sse[r][i]
            \/ /\ sse'[r][i].seq \in DOMAIN store'[r].log
               /\ sse'[r][i].event = store'[r].log[sse'[r][i].seq]
  BY PublishOutcome DEF Work
<1>2. UNCHANGED <<loop, warp, warps, fence>> /\ e.at = n /\ e.home = "same"
  BY DEF Work
<1> HIDE DEF e
<1>3. Grown(n, e) /\ Grows /\ TypeOK /\ next' \in 1 .. (MaxEvents + 1)
  BY <1>1, BoundsAssumption DEF Fresh, Grows, IInv
<1>4. TypeOK'
  BY <1>1, <1>2, <1>3 DEF TypeOK, Grown, Store
<1>5. InFlight'
  <2>1. \A m \in Nodes, row \in Row : Held(m, row) => Held(m, row)'
    BY <1>3, HeldStays DEF Grows
  <2>2. ASSUME NEW r \in Remotes, NEW i \in DOMAIN sse'[r]
        PROVE  Held(r, sse[r][i])'
    <3>1. CASE i \in DOMAIN sse[r] /\ sse'[r][i] = sse[r][i]
      <4>1. Held(r, sse[r][i])
        BY <3>1 DEF IInv, InFlight
      <4>2. QED
        BY <1>3, <2>1, <3>1, <4>1, RowTypes DEF Held
    <3>2. QED
      BY <1>1, <3>1 DEF Held
  <2>3. ASSUME NEW r \in Remotes, NEW i \in DOMAIN loop'[r].rows
        PROVE  Held(r, loop[r].rows[i])'
    <3>1. Held(r, loop[r].rows[i]) /\ loop' = loop
      BY <1>2, <2>3 DEF IInv, InFlight
    <3>2. QED
      BY <1>3, <2>1, <2>3, <3>1, RowTypes DEF Held
  <2>4. QED
    BY <2>2, <2>3 DEF InFlight
<1>6. EventsOK' /\ WarpOK'
  BY <1>1, <1>2, <1>3, EventsFresh, WarpStays DEF IInv
<1>7. FenceOK'
  <2>1. n = Control => e.at \in {Control, fence.owner}
    BY <1>2
  <2>2. QED
    BY <1>1, <1>2, <1>3, <2>1, FenceStays DEF IInv
<1>8. UnmovedOK'
  BY <1>1, <1>2, <1>3, UnmovedStays DEF IInv
<1>9. QED
  BY <1>4, <1>5, <1>6, <1>7, <1>8 DEF IInv

\* What the control plane is sent.
LEMMA HistoryHeld ==
    ASSUME TypeOK, NEW r \in Remotes
    PROVE  /\ History(r) \in Seq(Row)
           /\ \A i \in DOMAIN History(r) : Held(r, History(r)[i])
<1> DEFINE after == IF Home = r THEN L!Latest(store[Control]) ELSE 0
<1>1. r \in Nodes /\ Control \in Nodes /\ after \in Nat /\ store[r].log \in Seq(Event)
  BY LogType DEF Nodes, L!Latest
<1>2. History(r) = Rows(store[r].log, after)
  BY DEF History
<1> HIDE DEF after
<1>3. /\ Rows(store[r].log, after) \in Seq(Row)
      /\ \A i \in DOMAIN Rows(store[r].log, after) :
            LET row == Rows(store[r].log, after)[i]
            IN  /\ row.seq = i + after /\ row.seq \in DOMAIN store[r].log
                /\ row.event = store[r].log[row.seq]
  BY <1>1, RowsOfLog
<1>4. QED
  BY <1>2, <1>3 DEF Held

LEMMA QuietLoopStep ==
    ASSUME IInv, NEW r \in Remotes,
           StartSync(r) \/ Connect(r) \/ FetchHistory(r) \/ GoLive(r) \/ Disconnect(r)
    PROVE  IInv'
<1>1. UNCHANGED <<store, next, warp, warps, fence>> /\ TypeOK
  BY DEF StartSync, Connect, FetchHistory, GoLive, Disconnect, IInv
<1>2. /\ Same /\ Grows /\ OwnersStay /\ EventsOK'
      /\ \A n \in Nodes, row \in Row : Held(n, row) => Held(n, row)'
  BY <1>1, QuietStep
<1>3. /\ History(r) \in Seq(Row) /\ <<>> \in Seq(Row) /\ DOMAIN <<>> = {}
      /\ \A i \in DOMAIN History(r) : History(r)[i] \in Row /\ Held(r, History(r)[i])
  BY <1>1, HistoryHeld, ElementOfSeq, LenProperties
<1>4. /\ loop \in [Remotes -> [pc : {"off", "connect", "history", "replay", "live", "dead"},
                                rows : Seq(Row)]]
      /\ sse \in [Remotes -> Seq(Row)]
  BY <1>1 DEF TypeOK
<1>5. /\ loop' \in [Remotes -> [pc : {"off", "connect", "history", "replay", "live", "dead"},
                                 rows : Seq(Row)]]
      /\ \A q \in Remotes : \/ loop'[q].rows \in {loop[q].rows, <<>>}
                            \/ q = r /\ loop'[q].rows = History(r)
      /\ sse' \in [Remotes -> Seq(Row)]
      /\ \A q \in Remotes : sse'[q] \in {sse[q], <<>>}
  <2>1. CASE StartSync(r) \/ Connect(r) \/ GoLive(r)
    <3>1. PICK pc \in {"connect", "history", "live"} :
             loop' = [loop EXCEPT ![r].pc = pc] /\ sse' = sse
      BY <2>1 DEF StartSync, Connect, GoLive
    <3>2. \A q \in Remotes : loop'[q].rows = loop[q].rows
      BY <1>4, <3>1
    <3>3. loop' \in [Remotes -> [pc : {"off", "connect", "history", "replay", "live", "dead"},
                                 rows : Seq(Row)]]
      BY <1>4, <3>1
    <3>4. QED
      BY <1>4, <3>1, <3>2, <3>3
  <2>2. CASE FetchHistory(r)
    BY <1>3, <1>4, <2>2 DEF FetchHistory
  <2>3. CASE Disconnect(r)
    BY <1>3, <1>4, <2>3 DEF Disconnect
  <2>4. QED
    BY <2>1, <2>2, <2>3
<1>6. TypeOK'
  BY <1>1, <1>5 DEF TypeOK
<1>7. InFlight'
  <2>1. ASSUME NEW q \in Remotes, NEW i \in DOMAIN sse'[q]
        PROVE  Held(q, sse[q][i])'
    <3>1. sse'[q] = sse[q] /\ i \in DOMAIN sse[q]
      BY <1>3, <1>5, <2>1
    <3>2. Held(q, sse[q][i])
      BY <3>1 DEF InFlight, IInv
    <3>3. QED
      BY <1>1, <3>1, <3>2 DEF Held
  <2>2. ASSUME NEW q \in Remotes, NEW i \in DOMAIN loop'[q].rows
        PROVE  Held(q, loop[q].rows[i])'
    <3>1. CASE loop'[q].rows = loop[q].rows
      BY <1>1, <2>2, <3>1 DEF InFlight, IInv, Held
    <3>2. CASE q = r /\ loop'[q].rows = History(r)
      BY <1>1, <1>3, <2>2, <3>2 DEF Held
    <3>3. CASE loop'[q].rows = <<>>
      BY <1>3, <2>2, <3>3
    <3>4. QED
      BY <1>5, <3>1, <3>2, <3>3
  <2>3. QED
    BY <2>1, <2>2 DEF InFlight
<1>8. QED
  BY <1>1, <1>2, <1>6, <1>7, WarpStays, FenceStays, UnmovedStays DEF IInv

\* A row of r that is taken leaves all but the loops and the streams in order.
LEMMA TakeStep ==
    ASSUME IInv, NEW r \in Remotes, NEW row \in Row, Held(r, row), Take(row, r),
           UNCHANGED <<next, fence>>
    PROVE  /\ Grows /\ store' \in [Nodes -> Store] /\ EventsOK' /\ FenceOK'
           /\ \A n \in Nodes, any \in Row : Held(n, any) => Held(n, any)'
           /\ UNCHANGED <<warp, warps>> => WarpOK' /\ UnmovedOK'
<1>1. /\ TypeOK /\ Control \in Nodes /\ r \in Nodes /\ OwnersStay
      /\ \/ Same
         \/ Copied(Control, r) /\ ~L!Fenced(store[Control], r)
  BY TakeOutcome DEF IInv, Nodes
<1> DEFINE last == Len(store[Control].log) + 1
<1> DEFINE e == store[r].log[last]
<1>2. Copied(Control, r) => Grown(Control, e) /\ e \in Event /\ last \in DOMAIN store[r].log
  BY <1>1, LogType DEF Copied
<1> HIDE DEF e
<1>3. Grows /\ store' \in [Nodes -> Store] /\ EventsOK'
  BY <1>1, <1>2, EventsSame, EventsCopied DEF IInv, Grows, Same, Grown
<1>4. \A n \in Nodes, any \in Row : Held(n, any) => Held(n, any)'
  BY <1>1, <1>3, HeldStays DEF Grows
\* Whoever is not fenced off after a claim is the claimant, and what is new in
\* its log it has written itself.
<1>5. Copied(Control, r) /\ ~L!Fenced(store[Control], r) /\ fence.owner # None
         => e.at \in {Control, fence.owner}
  <2>1. SUFFICES ASSUME Copied(Control, r), ~L!Fenced(store[Control], r), fence.owner # None
                 PROVE  e.at \in {Control, fence.owner}
    OBVIOUS
  <2>2. r = fence.owner
    BY <2>1 DEF IInv, FenceOK, L!Fenced
  <2>3. DOMAIN store[Control].log = 1 .. Len(store[Control].log) /\ Len(store[Control].log) \in Nat
    BY <1>1, LogType
  <2>4. last \notin DOMAIN store[Control].log
    BY <2>3
  <2>5. e.at = r
    BY <1>2, <2>1, <2>4 DEF IInv, EventsOK, e
  <2>6. QED
    BY <2>2, <2>5
<1>6. FenceOK'
  BY <1>1, <1>2, <1>5, FenceStays DEF IInv
<1>7. UNCHANGED <<warp, warps>> => WarpOK' /\ UnmovedOK'
  BY <1>1, <1>3, WarpStays, UnmovedStays DEF IInv
<1>8. QED
  BY <1>3, <1>4, <1>6, <1>7

LEMMA ReplayHistoryStep ==
    ASSUME IInv, NEW r \in Remotes, ReplayHistory(r)
    PROVE  IInv'
<1> DEFINE row == Head(loop[r].rows)
<1>1. /\ TypeOK /\ loop[r].rows # <<>> /\ Take(row, r) /\ UNCHANGED <<next, warp, warps, fence>>
      /\ loop' = [loop EXCEPT ![r] = IF Dies(row, r) THEN [pc |-> "dead", rows |-> <<>>]
                                     ELSE [loop[r] EXCEPT !.rows = Tail(loop[r].rows)]]
      /\ sse' = IF Dies(row, r) THEN [sse EXCEPT ![r] = <<>>] ELSE sse
  BY DEF ReplayHistory, IInv
<1>2. /\ row \in Row /\ 1 \in DOMAIN loop[r].rows /\ row = loop[r].rows[1]
      /\ Tail(loop[r].rows) \in Seq(Row)
      /\ \A i \in DOMAIN Tail(loop[r].rows) :
            i + 1 \in DOMAIN loop[r].rows /\ Tail(loop[r].rows)[i] = loop[r].rows[i + 1]
  BY <1>1, RowTypes, TailRows
<1>3. Held(r, row)
  BY <1>2 DEF IInv, InFlight
<1>4. /\ Grows /\ store' \in [Nodes -> Store] /\ EventsOK' /\ FenceOK' /\ WarpOK' /\ UnmovedOK'
      /\ \A n \in Nodes, any \in Row : Held(n, any) => Held(n, any)'
  BY <1>1, <1>2, <1>3, TakeStep
<1> HIDE DEF row
<1>5. /\ loop \in [Remotes -> [pc : {"off", "connect", "history", "replay", "live", "dead"},
                                rows : Seq(Row)]]
      /\ sse \in [Remotes -> Seq(Row)] /\ <<>> \in Seq(Row) /\ DOMAIN <<>> = {}
  BY <1>1 DEF TypeOK
<1>6. /\ loop' \in [Remotes -> [pc : {"off", "connect", "history", "replay", "live", "dead"},
                                 rows : Seq(Row)]]
      /\ \A q \in Remotes : \/ loop'[q].rows \in {loop[q].rows, <<>>}
                            \/ q = r /\ loop'[q].rows = Tail(loop[r].rows)
  BY <1>1, <1>2, <1>5
<1>7. sse' \in [Remotes -> Seq(Row)] /\ \A q \in Remotes : sse'[q] \in {sse[q], <<>>}
  BY <1>1, <1>5
<1>8. TypeOK'
  BY <1>1, <1>4, <1>6, <1>7 DEF TypeOK, Store
<1>9. InFlight'
  <2>1. ASSUME NEW q \in Remotes, NEW i \in DOMAIN sse'[q]
        PROVE  Held(q, sse[q][i])'
    <3>1. sse'[q] = sse[q] /\ i \in DOMAIN sse[q]
      BY <1>5, <1>7, <2>1
    <3>2. Held(q, sse[q][i])
      BY <3>1 DEF InFlight, IInv
    <3>3. QED
      BY <1>1, <1>4, <3>1, <3>2, RowTypes DEF Held
  <2>2. ASSUME NEW q \in Remotes, NEW i \in DOMAIN loop'[q].rows
        PROVE  Held(q, loop[q].rows[i])'
    <3>1. PICK j \in DOMAIN loop[q].rows : loop'[q].rows[i] = loop[q].rows[j]
      BY <1>2, <1>5, <1>6, <2>2
    <3>2. Held(q, loop[q].rows[j]) /\ loop[q].rows[j] \in Row /\ q \in Nodes
      BY <1>1, <3>1, RowTypes DEF InFlight, IInv
    <3>3. PICK any \in Row : any = loop'[q].rows[i] /\ Held(q, any)
      BY <3>1, <3>2
    <3>4. Held(q, any)'
      BY <1>4, <3>2, <3>3
    <3>5. QED
      BY <3>3, <3>4 DEF Held
  <2>3. QED
    BY <2>1, <2>2 DEF InFlight
<1>10. QED
  BY <1>4, <1>8, <1>9 DEF IInv

LEMMA ReceiveStep ==
    ASSUME IInv, NEW r \in Remotes, Receive(r)
    PROVE  IInv'
<1> DEFINE row == Head(sse[r])
<1>1. /\ TypeOK /\ sse[r] # <<>> /\ Take(row, r) /\ UNCHANGED <<next, loop, warp, warps, fence>>
      /\ sse' = [sse EXCEPT ![r] = Tail(sse[r])]
  BY DEF Receive, IInv
<1>2. /\ row \in Row /\ 1 \in DOMAIN sse[r] /\ row = sse[r][1] /\ Tail(sse[r]) \in Seq(Row)
      /\ \A i \in DOMAIN Tail(sse[r]) : i + 1 \in DOMAIN sse[r] /\ Tail(sse[r])[i] = sse[r][i + 1]
  BY <1>1, RowTypes, TailRows
<1>3. Held(r, row)
  BY <1>2 DEF IInv, InFlight
<1>4. /\ Grows /\ store' \in [Nodes -> Store] /\ EventsOK' /\ FenceOK' /\ WarpOK' /\ UnmovedOK'
      /\ \A n \in Nodes, any \in Row : Held(n, any) => Held(n, any)'
  BY <1>1, <1>2, <1>3, TakeStep
<1> HIDE DEF row
<1>5. sse \in [Remotes -> Seq(Row)]
  BY <1>1 DEF TypeOK
<1>6. /\ sse' \in [Remotes -> Seq(Row)]
      /\ \A q \in Remotes : sse'[q] = sse[q] \/ (q = r /\ sse'[q] = Tail(sse[r]))
  BY <1>1, <1>2, <1>5
<1>7. TypeOK'
  BY <1>1, <1>4, <1>6 DEF TypeOK, Store
<1>8. InFlight'
  <2>1. ASSUME NEW q \in Remotes, NEW i \in DOMAIN sse'[q]
        PROVE  Held(q, sse[q][i])'
    <3>1. \E j \in DOMAIN sse[q] : sse'[q][i] = sse[q][j]
      BY <1>2, <1>6, <2>1
    <3>2. PICK j \in DOMAIN sse[q] : sse'[q][i] = sse[q][j]
      BY <3>1
    <3>3. Held(q, sse[q][j])
      BY <3>2 DEF InFlight, IInv
    <3>4. QED
      BY <1>1, <1>4, <3>2, <3>3, RowTypes DEF Held
  <2>2. ASSUME NEW q \in Remotes, NEW i \in DOMAIN loop'[q].rows
        PROVE  Held(q, loop[q].rows[i])'
    <3>1. Held(q, loop[q].rows[i]) /\ loop' = loop
      BY <1>1, <2>2 DEF IInv, InFlight
    <3>2. QED
      BY <1>1, <1>4, <2>2, <3>1, RowTypes DEF Held
  <2>3. QED
    BY <2>1, <2>2 DEF InFlight
<1>9. QED
  BY <1>4, <1>7, <1>8 DEF IInv

-----------------------------------------------------------------------------
(* The steps of a move.                                                    *)

WarpType == [pc : {"idle", "source", "catchUp", "claim", "patch", "target",
                   "send", "steal", "set"},
             from : Homes, to : Homes, rows : Seq(Row), sent : Nat]

LEMMA IdleWarpType == IdleWarp \in WarpType
<1>1. <<>> \in Seq(Row) /\ None \in Homes
  BY DEF Homes
<1>2. QED
  BY <1>1 DEF IdleWarp, WarpType

\* A step that moves the call on and leaves the rest.
LEMMA MoveOn ==
    ASSUME IInv, UNCHANGED <<store, next, loop, sse, fence>>, warp' \in WarpType, WarpOK',
           warps' \in 0 .. MaxWarps, warps' # 0
    PROVE  IInv'
<1>1. TypeOK /\ EventsOK' /\ Same /\ OwnersStay
  BY QuietStep DEF IInv
<1>2. TypeOK'
  BY <1>1 DEF TypeOK, WarpType
<1>3. InFlight'
  BY DEF IInv, InFlight, Held
<1>4. FenceOK'
  BY <1>1, FenceStays DEF IInv
<1>5. UnmovedOK'
  BY DEF UnmovedOK
<1>6. QED
  BY <1>1, <1>2, <1>3, <1>4, <1>5 DEF IInv

\* While a move is under way there has been one.
LEMMA WarpsCount ==
    ASSUME IInv, warp.pc # "idle", warps' = warps
    PROVE  warps' \in 0 .. MaxWarps /\ warps' # 0 /\ warps # 0
BY DEF IInv, UnmovedOK, TypeOK

LEMMA BeginWarpStep ==
    ASSUME IInv, NEW to \in Homes, BeginWarp(to)
    PROVE  IInv'
<1>1. Home \in Homes /\ <<>> \in Seq(Row)
  BY LogType, HomeType DEF IInv, Home, Nodes
<1>2. /\ UNCHANGED <<store, next, loop, sse, fence>> /\ store[Control].log # <<>>
      /\ warps < MaxWarps /\ warps' = warps + 1
      /\ warp' = [pc |-> IF Home \in Remotes THEN "source"
                         ELSE IF Home \in Locals THEN "claim" ELSE "target",
                  from |-> Home, to |-> to, rows |-> <<>>, sent |-> 0]
  BY DEF BeginWarp
<1>3. warp' \in WarpType /\ warp'.from = Home /\ warp'.sent = 0
  BY <1>1, <1>2 DEF WarpType
<1>4. warp'.pc \in {"source", "claim", "target"} /\ (warp'.pc = "source" => Home \in Remotes)
  BY <1>2
<1>5. warps' \in 0 .. MaxWarps /\ warps' # 0
  <2>1. warps \in 0 .. MaxWarps /\ MaxWarps \in Nat
    BY BoundsAssumption DEF IInv, TypeOK
  <2>2. QED
    BY <1>2, <2>1
<1>6. WarpOK'
  BY <1>2, <1>3, <1>4 DEF WarpOK, StealsTheWholeLog, At
<1>7. QED
  BY <1>2, <1>3, <1>5, <1>6, MoveOn

LEMMA CatchUpStep ==
    ASSUME IInv, CatchUp
    PROVE  IInv'
<1>1. /\ warp.pc = "source" /\ UNCHANGED <<store, next, loop, sse, warps, fence>>
      /\ \/ warp' = [warp EXCEPT !.pc = "claim"]
         \/ warp' = [warp EXCEPT !.pc = "catchUp", !.rows = History(warp.from)]
  BY DEF CatchUp, At
<1>2. /\ TypeOK /\ warp \in WarpType /\ warp.from \in Remotes /\ warp.sent = 0
      /\ store[Control].log # <<>>
  BY <1>1 DEF IInv, TypeOK, WarpType, WarpOK
<1>3. /\ History(warp.from) \in Seq(Row)
      /\ \A i \in DOMAIN History(warp.from) : Held(warp.from, History(warp.from)[i])
  BY <1>2, HistoryHeld
<1>4. warp' \in WarpType /\ warp'.from = warp.from /\ warp'.sent = 0
  BY <1>1, <1>2, <1>3 DEF WarpType
<1>5. \/ warp'.pc = "claim"
      \/ warp'.pc = "catchUp" /\ warp'.rows = History(warp.from)
  BY <1>1, <1>2 DEF WarpType
<1>6. WarpOK'
  BY <1>1, <1>2, <1>3, <1>4, <1>5 DEF WarpOK, StealsTheWholeLog, At, Held
<1>7. QED
  BY <1>1, <1>4, <1>6, WarpsCount, MoveOn

\* Steps that leave the call without rows to follow, or end it.
LEMMA PlainWarpStep ==
    ASSUME IInv, CaughtUp \/ CopyChanges \/ LoseRequest
    PROVE  IInv'
<1>1. /\ warp.pc # "idle" /\ UNCHANGED <<store, next, loop, sse, warps, fence>>
      /\ \/ warp' = IdleWarp
         \/ warp' = [warp EXCEPT !.pc = "claim", !.rows = <<>>, !.sent = 0]
         \/ warp.pc = "patch" /\ warp' = [warp EXCEPT !.pc = "target"]
  BY DEF CaughtUp, CopyChanges, LoseRequest, At, Goto
<1>2. /\ warp \in WarpType /\ store[Control].log # <<>> /\ <<>> \in Seq(Row)
      /\ warp.pc = "patch" => warp.sent = 0
  BY <1>1 DEF IInv, TypeOK, WarpType, WarpOK
<1>3. /\ warp' \in WarpType /\ warp'.sent = 0 /\ warp'.pc \in {"idle", "claim", "target"}
  <2>1. CASE warp' = IdleWarp
    BY <2>1, IdleWarpType DEF IdleWarp
  <2>2. CASE warp' = [warp EXCEPT !.pc = "claim", !.rows = <<>>, !.sent = 0]
    BY <1>2, <2>2 DEF WarpType
  <2>3. CASE warp.pc = "patch" /\ warp' = [warp EXCEPT !.pc = "target"]
    BY <1>2, <2>3 DEF WarpType
  <2>4. QED
    BY <1>1, <2>1, <2>2, <2>3
<1>4. WarpOK'
  BY <1>1, <1>2, <1>3 DEF WarpOK, StealsTheWholeLog, At
<1>5. QED
  BY <1>1, <1>3, <1>4, WarpsCount, MoveOn

\* The final catch-up takes its rows like a sync loop.
LEMMA ReplaySourceStep ==
    ASSUME IInv, ReplaySource
    PROVE  IInv'
<1> DEFINE r == warp.from
<1> DEFINE row == NextRow
<1>1. /\ warp.pc = "catchUp" /\ warp.sent < Len(warp.rows) /\ Take(row, r)
      /\ UNCHANGED <<next, loop, sse, warps, fence>>
      /\ warp' = IF Dies(row, r) THEN IdleWarp ELSE [warp EXCEPT !.sent = warp.sent + 1]
  BY DEF ReplaySource, At
<1>2. /\ TypeOK /\ warp \in WarpType /\ r \in Remotes /\ r \in Nodes /\ Control \in Nodes
      /\ store[Control].log # <<>>
  BY <1>1 DEF IInv, TypeOK, WarpType, WarpOK, Nodes
<1>3. \A i \in DOMAIN warp.rows : warp.rows[i] \in Row /\ Held(r, warp.rows[i])
  BY <1>1, <1>2, ElementOfSeq, LenProperties DEF IInv, WarpOK, WarpType
<1>4. row \in Row /\ Held(r, row) /\ warp.sent \in Nat
  <2>1. DOMAIN warp.rows = 1 .. Len(warp.rows) /\ Len(warp.rows) \in Nat /\ warp.sent \in Nat
    BY <1>2, LenProperties DEF WarpType
  <2>2. warp.sent + 1 \in DOMAIN warp.rows
    BY <1>1, <2>1
  <2>3. QED
    BY <1>3, <2>1, <2>2 DEF NextRow
<1>5. /\ Grows /\ store' \in [Nodes -> Store] /\ EventsOK' /\ FenceOK'
      /\ \A n \in Nodes, any \in Row : Held(n, any) => Held(n, any)'
  BY <1>1, <1>2, <1>4, TakeStep
<1> HIDE DEF row
<1>6. warp' \in WarpType
  <2>1. [warp EXCEPT !.sent = warp.sent + 1] \in WarpType
    BY <1>2, <1>4 DEF WarpType
  <2>2. QED
    BY <1>1, <2>1, IdleWarpType
<1>7. TypeOK'
  BY <1>1, <1>2, <1>5, <1>6 DEF TypeOK, Store, WarpType
<1>8. InFlight'
  <2>1. ASSUME NEW q \in Remotes, NEW i \in DOMAIN sse[q]
        PROVE  Held(q, sse[q][i])'
    <3>1. PICK any \in Row : any = sse[q][i] /\ Held(q, any) /\ q \in Nodes
      BY <1>2, RowTypes DEF IInv, InFlight
    <3>2. Held(q, any)'
      BY <1>5, <3>1
    <3>3. QED
      BY <1>1, <3>1, <3>2 DEF Held
  <2>2. ASSUME NEW q \in Remotes, NEW i \in DOMAIN loop[q].rows
        PROVE  Held(q, loop[q].rows[i])'
    <3>1. PICK any \in Row : any = loop[q].rows[i] /\ Held(q, any) /\ q \in Nodes
      BY <1>2, RowTypes DEF IInv, InFlight
    <3>2. Held(q, any)'
      BY <1>5, <3>1
    <3>3. QED
      BY <1>1, <3>1, <3>2 DEF Held
  <2>3. QED
    BY <1>1, <2>1, <2>2 DEF InFlight
<1>9. store'[Control].log # <<>>
  <2>1. /\ Len(store[Control].log) <= Len(store'[Control].log)
        /\ Len(store[Control].log) # 0 /\ Len(store[Control].log) \in Nat
    BY <1>2, <1>5, LogType, GrownLength, EmptySeq
  <2>2. Len(<<>>) = 0
    OBVIOUS
  <2>3. QED
    BY <2>1, <2>2
<1>10. WarpOK'
  <2>1. CASE warp' = IdleWarp
    BY <2>1 DEF WarpOK, StealsTheWholeLog, At, IdleWarp
  <2>2. CASE warp' = [warp EXCEPT !.sent = warp.sent + 1]
    <3>1. warp'.pc = "catchUp" /\ warp'.from = r /\ warp'.rows = warp.rows
      BY <1>1, <1>2, <2>2 DEF WarpType
    <3>2. ASSUME NEW i \in DOMAIN warp.rows
          PROVE  /\ warp.rows[i].seq \in DOMAIN store'[r].log
                 /\ warp.rows[i].event = store'[r].log[warp.rows[i].seq]
      <4>1. PICK q \in Nodes, any \in Row : q = r /\ any = warp.rows[i] /\ Held(q, any)
        BY <1>2, <1>3
      <4>2. Held(q, any)'
        BY <1>5, <4>1
      <4>3. QED
        BY <4>1, <4>2 DEF Held
    <3> HIDE DEF r
    <3>3. QED
      BY <1>2, <1>9, <3>1, <3>2 DEF WarpOK, StealsTheWholeLog, At, Held
  <2>3. QED
    BY <1>1, <2>1, <2>2
<1>11. UnmovedOK'
  BY <1>1, WarpsCount DEF UnmovedOK
<1>12. QED
  BY <1>5, <1>7, <1>8, <1>10, <1>11 DEF IInv

LEMMA ReadLogStep ==
    ASSUME IInv, ReadLog
    PROVE  IInv'
<1> DEFINE rows == Rows(store[Control].log, 0)
<1>1. /\ warp.pc = "target" /\ warp.to \in Remotes
      /\ UNCHANGED <<store, next, loop, sse, warps, fence>>
      /\ warp' = [warp EXCEPT !.pc = "send", !.rows = rows]
  BY DEF ReadLog, At
<1>2. /\ warp \in WarpType /\ warp.sent = 0 /\ store[Control].log # <<>>
      /\ store[Control].log \in Seq(Event)
  BY <1>1, LogType DEF IInv, TypeOK, WarpType, WarpOK, Nodes
<1>3. /\ rows \in Seq(Row)
      /\ \A i \in DOMAIN rows : rows[i].seq = i /\ Held(Control, rows[i])
  <2>0. PICK none \in Nat : none = 0
    OBVIOUS
  <2>1. /\ rows \in Seq(Row)
        /\ \A i \in DOMAIN rows :
              LET row == rows[i]
              IN  /\ row.seq = i + none /\ row.seq \in DOMAIN store[Control].log
                  /\ row.event = store[Control].log[row.seq]
    <3>1. rows = Rows(store[Control].log, none)
      BY <2>0
    <3> HIDE DEF rows
    <3>2. QED
      BY <1>2, <3>1, RowsOfLog
  <2>2. DOMAIN rows = 1 .. Len(rows) /\ Len(rows) \in Nat
    BY <2>1, LenProperties
  <2> HIDE DEF rows
  <2>3. QED
    BY <2>0, <2>1, <2>2 DEF Held
<1> HIDE DEF rows
<1>4. /\ warp' \in WarpType /\ warp'.pc = "send" /\ warp'.sent = 0
      /\ warp'.rows = rows /\ warp'.to = warp.to
  BY <1>1, <1>2, <1>3 DEF WarpType
<1>5. WarpOK'
  BY <1>1, <1>2, <1>3, <1>4 DEF WarpOK, StealsTheWholeLog, At, Held
<1>6. QED
  BY <1>1, <1>4, <1>5, WarpsCount, MoveOn

\* All rows have arrived.
LEMMA SentAllStep ==
    ASSUME IInv, SentAll
    PROVE  IInv'
<1>1. /\ warp.pc = "send" /\ warp.sent = Len(warp.rows)
      /\ UNCHANGED <<store, next, loop, sse, warps, fence>>
      /\ warp' = [warp EXCEPT !.pc = "steal"]
  BY DEF SentAll, At, Goto
<1>2. /\ TypeOK /\ warp \in WarpType /\ warp.to \in Remotes /\ warp.to \in Nodes
      /\ DOMAIN warp.rows = 1 .. Len(warp.rows) /\ Len(warp.rows) \in Nat
  BY <1>1, LenProperties DEF IInv, TypeOK, WarpType, WarpOK, Nodes
<1>3. /\ warp' \in WarpType /\ warp'.pc = "steal" /\ warp'.rows = warp.rows
      /\ warp'.to = warp.to
  BY <1>1, <1>2 DEF WarpType
<1>4. \A i \in DOMAIN warp.rows :
         i \in DOMAIN store[warp.to].log /\ store[warp.to].log[i] = warp.rows[i].event
  BY <1>1, <1>2 DEF IInv, WarpOK
<1>5. Len(warp.rows) <= Len(store[warp.to].log)
  <2>1. DOMAIN store[warp.to].log = 1 .. Len(store[warp.to].log) /\ Len(store[warp.to].log) \in Nat
    BY <1>2, LogType
  <2>2. CASE Len(warp.rows) = 0
    BY <2>1, <2>2
  <2>3. CASE Len(warp.rows) # 0
    <3>1. Len(warp.rows) \in DOMAIN warp.rows
      BY <1>2, <2>3
    <3>2. QED
      BY <1>4, <2>1, <3>1
  <2>4. QED
    BY <2>2, <2>3
<1>6. WarpOK'
  BY <1>1, <1>2, <1>3, <1>4, <1>5 DEF IInv, WarpOK, StealsTheWholeLog, At, Held
<1>7. QED
  BY <1>1, <1>3, <1>6, WarpsCount, MoveOn

LEMMA ClaimStep ==
    ASSUME IInv, ClaimSession
    PROVE  IInv'
<1> DEFINE owner == IF warp.to = None THEN Project ELSE warp.to
<1>1. /\ warp.pc = "claim" /\ UNCHANGED <<next, loop, sse, warps>>
      /\ store' = [store EXCEPT ![Control] = L!Claim(store[Control], owner)]
      /\ fence' = [owner |-> owner, at |-> L!Latest(store[Control])]
      /\ warp' = [warp EXCEPT !.pc = "patch"]
  BY DEF ClaimSession, At, Goto
<1>2. /\ TypeOK /\ Control \in Nodes /\ warp \in WarpType /\ warp.sent = 0
      /\ store[Control].log # <<>> /\ store \in [Nodes -> Store]
      /\ DOMAIN store[Control].log = 1 .. Len(store[Control].log)
      /\ Len(store[Control].log) \in Nat
  BY <1>1, LogType DEF IInv, TypeOK, WarpType, WarpOK, Nodes, Store
<1>3. owner \in Owners \ {None}
  BY <1>2, NamesAssumption DEF WarpType, Homes, Owners
<1> HIDE DEF owner
<1>4. /\ store' \in [Nodes -> Store] /\ store'[Control].owner = owner
      /\ \A n \in Nodes : store'[n].log = store[n].log
  BY <1>1, <1>2, <1>3 DEF L!Claim, Store
<1>5. Same
  BY <1>4 DEF Same
<1>6. /\ warp' \in WarpType /\ warp'.pc = "patch" /\ warp'.sent = 0
      /\ fence' \in [owner : Owners, at : Nat] /\ fence'.owner = owner
      /\ fence'.at = Len(store[Control].log)
  BY <1>1, <1>2, <1>3 DEF WarpType, L!Latest
<1>7. TypeOK'
  BY <1>1, <1>2, <1>4, <1>6 DEF TypeOK, Store, WarpType
<1>8. EventsOK'
  BY <1>1, <1>2, <1>5, EventsSame DEF IInv
<1>9. InFlight'
  BY <1>1, <1>4 DEF IInv, InFlight, Held, Nodes
<1>10. WarpOK'
  BY <1>2, <1>4, <1>6 DEF WarpOK, StealsTheWholeLog, At
<1>11. FenceOK'
  BY <1>2, <1>4, <1>6 DEF FenceOK, ClaimFences
<1>12. UnmovedOK'
  BY <1>1, WarpsCount DEF UnmovedOK
<1>13. QED
  BY <1>7, <1>8, <1>9, <1>10, <1>11, <1>12 DEF IInv

\* A row of the log is sent to the target, which has it then.
LEMMA SendStep ==
    ASSUME IInv, SendRow
    PROVE  IInv'
<1> DEFINE to == warp.to
<1> DEFINE s == store[to]
<1> DEFINE row == NextRow
<1> DEFINE t == IF L!Dies(s, row.event, row.seq, to, TRUE) THEN s
                ELSE L!Replay(s, row.event, row.seq, to)
<1>1. /\ warp.pc = "send" /\ warp.sent < Len(warp.rows)
      /\ UNCHANGED <<next, loop, sse, warps, fence>>
      /\ store' = [store EXCEPT ![to] = t]
      /\ warp' = IF L!Dies(s, row.event, row.seq, to, TRUE) THEN IdleWarp
                 ELSE [warp EXCEPT !.sent = warp.sent + 1]
  BY DEF SendRow, At, L!Replayed
<1>2. /\ TypeOK /\ warp \in WarpType /\ to \in Remotes /\ to \in Nodes /\ to # Control
      /\ to \in Owners \ {None} /\ Control \in Nodes /\ store \in [Nodes -> Store]
      /\ store[Control].log # <<>>
  BY <1>1, NamesAssumption DEF IInv, TypeOK, WarpType, WarpOK, Nodes, Owners, Store
<1>3. /\ warp.sent + 1 \in DOMAIN warp.rows /\ warp.sent \in Nat
      /\ DOMAIN warp.rows = 1 .. Len(warp.rows) /\ Len(warp.rows) \in Nat
      /\ row = warp.rows[warp.sent + 1] /\ row \in Row
  <2>1. DOMAIN warp.rows = 1 .. Len(warp.rows) /\ Len(warp.rows) \in Nat /\ warp.sent \in Nat
    BY <1>2, LenProperties DEF WarpType
  <2>2. warp.sent + 1 \in DOMAIN warp.rows
    BY <1>1, <2>1
  <2>3. QED
    BY <1>2, <2>1, <2>2, ElementOfSeq DEF WarpType, NextRow
<1>4. row.seq = warp.sent + 1 /\ Held(Control, row)
  BY <1>1, <1>3 DEF IInv, WarpOK
<1>5. /\ t \in Store
      /\ \/ t.log = s.log
         \/ row.seq = Len(s.log) + 1 /\ t.log = Append(s.log, row.event)
      /\ s.owner # None => t.owner = s.owner
      /\ ~L!Dies(s, row.event, row.seq, to, TRUE) =>
            row.seq \in DOMAIN t.log /\ t.log[row.seq] = row.event
  <2>1. s \in Store /\ row.event \in Event /\ row.seq \in Nat \ {0}
    BY <1>2, <1>3, LogType DEF Row
  <2>2. CASE L!Dies(s, row.event, row.seq, to, TRUE)
    BY <2>1, <2>2
  <2>3. CASE ~L!Dies(s, row.event, row.seq, to, TRUE)
    <3>1. /\ row.seq <= L!Latest(s) => L!Stored(s, row.event, row.seq)
          /\ row.seq > L!Latest(s) /\ ~L!Fenced(s, to) => row.seq = L!Latest(s) + 1
          /\ ~L!Fenced(s, to)
      BY <2>3 DEF L!Dies
    <3>2. t = L!Replay(s, row.event, row.seq, to)
      BY <2>3
    <3> HIDE DEF t, row, s, to
    <3>3. /\ t \in Store
          /\ \/ t.log = s.log
             \/ row.seq = Len(s.log) + 1 /\ t.log = Append(s.log, row.event)
          /\ s.owner # None => t.owner = s.owner
          /\ row.seq \in DOMAIN t.log /\ t.log[row.seq] = row.event
      BY <1>2, <2>1, <3>1, <3>2, ReplayOutcome
    <3>4. QED
      BY <3>3
  <2>4. QED
    BY <2>2, <2>3
<1> HIDE DEF t, row
<1>6. /\ store' \in [Nodes -> Store] /\ OwnersStay /\ store'[to] = t
      /\ \A n \in Nodes : n # to => store'[n] = store[n]
  BY <1>1, <1>2, <1>5 DEF OwnersStay
<1>7. Same \/ (Copied(to, Control) /\ Grown(to, row.event) /\ row.event \in Event)
  <2>1. CASE t.log = s.log
    BY <1>6, <2>1 DEF Same
  <2>2. CASE row.seq = Len(s.log) + 1 /\ t.log = Append(s.log, row.event)
    <3>1. Grown(to, row.event)
      BY <1>6, <2>2 DEF Grown
    <3>2. QED
      BY <1>1, <1>3, <1>4, <2>2, <3>1 DEF Copied, Held, Row
  <2>3. QED
    BY <1>5, <2>1, <2>2
<1>8. Grows
  BY <1>2, <1>7 DEF Grows
<1>9. /\ \A n \in Nodes, any \in Row : Held(n, any) => Held(n, any)'
      /\ \A n \in Nodes : \A i \in DOMAIN store[n].log :
            i \in DOMAIN store'[n].log /\ store'[n].log[i] = store[n].log[i]
  BY <1>2, <1>8, HeldStays, GrownLog DEF Grows, Same
<1>10. EventsOK'
  BY <1>1, <1>2, <1>7, EventsSame, EventsCopied DEF IInv
<1>11. warp' \in WarpType
  <2>1. [warp EXCEPT !.sent = warp.sent + 1] \in WarpType
    BY <1>2, <1>3 DEF WarpType
  <2>2. QED
    BY <1>1, <2>1, IdleWarpType
<1>12. TypeOK'
  BY <1>1, <1>2, <1>6, <1>11 DEF TypeOK, Store, WarpType
<1>13. InFlight'
  BY <1>1, <1>2, <1>9, RowTypes DEF IInv, InFlight
<1>14. FenceOK'
  BY <1>1, <1>2, <1>6, <1>7, FenceStays DEF IInv
<1>15. UnmovedOK'
  BY <1>1, WarpsCount DEF UnmovedOK
<1>16. WarpOK'
  <2>1. CASE warp' = IdleWarp
    BY <2>1 DEF WarpOK, StealsTheWholeLog, At, IdleWarp
  <2>2. CASE ~L!Dies(s, row.event, row.seq, to, TRUE) /\ warp' = [warp EXCEPT !.sent = warp.sent + 1]
    <3>1. /\ warp'.pc = "send" /\ warp'.to = to /\ warp'.rows = warp.rows
          /\ warp'.sent = warp.sent + 1
      BY <1>1, <1>2, <2>2 DEF WarpType
    <3>2. \A i \in 1 .. warp.sent + 1 :
             i \in DOMAIN store'[to].log /\ store'[to].log[i] = warp.rows[i].event
      <4>1. ASSUME NEW i \in 1 .. warp.sent
            PROVE  i \in DOMAIN store'[to].log /\ store'[to].log[i] = warp.rows[i].event
        BY <1>1, <1>2, <1>9 DEF IInv, WarpOK
      <4>2. /\ warp.sent + 1 \in DOMAIN store'[to].log
            /\ store'[to].log[warp.sent + 1] = warp.rows[warp.sent + 1].event
        BY <1>3, <1>4, <1>5, <1>6, <2>2
      <4>3. QED
        BY <1>3, <4>1, <4>2
    <3>3. \A i \in DOMAIN warp.rows : warp.rows[i].seq = i /\ Held(Control, warp.rows[i])'
      <4>1. ASSUME NEW i \in DOMAIN warp.rows
            PROVE  warp.rows[i].seq = i /\ Held(Control, warp.rows[i]) /\ warp.rows[i] \in Row
        BY <1>1, <1>2, <1>3, ElementOfSeq DEF IInv, WarpOK, WarpType
      <4>2. ASSUME NEW i \in DOMAIN warp.rows
            PROVE  Held(Control, warp.rows[i])'
        <5>1. PICK any \in Row : any = warp.rows[i] /\ Held(Control, any)
          BY <4>1
        <5>2. Held(Control, any)'
          BY <1>2, <1>9, <5>1
        <5>3. QED
          BY <3>1, <5>1, <5>2 DEF Held
      <4>3. QED
        BY <4>1, <4>2
    <3>4. store'[Control].log # <<>>
      BY <1>2, <1>6
    <3>5. QED
      BY <1>2, <3>1, <3>2, <3>3, <3>4 DEF WarpOK, StealsTheWholeLog, At, Held
  <2>3. QED
    BY <1>1, <2>1, <2>2
<1>17. QED
  BY <1>10, <1>12, <1>13, <1>14, <1>15, <1>16 DEF IInv

\* A publication of one log in the course of a move.
LEMMA PublishingStep ==
    ASSUME IInv, NEW n \in Nodes, NEW home \in Homes, Publish(n, home), warp.pc # "idle",
           UNCHANGED <<loop, warps, fence>>, warp' \in WarpType, warp'.pc \in {"idle", "set"},
           warp'.pc = "idle" => warp'.sent = 0,
           warp'.pc = "set" => warp.pc = "steal" /\ warp'.rows = warp.rows /\ warp'.to = warp.to
    PROVE  IInv'
<1> DEFINE e == [id |-> next, at |-> n, home |-> home]
<1>1. /\ e \in Event /\ Fresh(n, e) /\ OwnersStay
      /\ sse' \in [Remotes -> Seq(Row)]
      /\ \A r \in Remotes : \A i \in DOMAIN sse'[r] :
            \/ i \in DOMAIN sse[r] /\ sse'[r][i] = sse[r][i]
            \/ /\ sse'[r][i].seq \in DOMAIN store'[r].log
               /\ sse'[r][i].event = store'[r].log[sse'[r][i].seq]
  BY PublishOutcome
<1>2. e.at = n
  OBVIOUS
<1> HIDE DEF e
<1>3. /\ Grown(n, e) /\ Grows /\ TypeOK /\ next' \in 1 .. (MaxEvents + 1)
      /\ Control \in Nodes /\ warp \in WarpType
  BY <1>1, BoundsAssumption DEF Fresh, Grows, IInv, Nodes, TypeOK, WarpType
<1>4. TypeOK'
  BY <1>1, <1>3 DEF TypeOK, Grown, Store, WarpType
<1>5. \A m \in Nodes, any \in Row : Held(m, any) => Held(m, any)'
  BY <1>3, HeldStays DEF Grows
<1>6. InFlight'
  <2>1. ASSUME NEW r \in Remotes, NEW i \in DOMAIN sse'[r]
        PROVE  Held(r, sse[r][i])'
    <3>1. CASE i \in DOMAIN sse[r] /\ sse'[r][i] = sse[r][i]
      <4>1. Held(r, sse[r][i])
        BY <3>1 DEF IInv, InFlight
      <4>2. QED
        BY <1>3, <1>5, <3>1, <4>1, RowTypes DEF Held
    <3>2. QED
      BY <1>1, <3>1 DEF Held
  <2>2. ASSUME NEW r \in Remotes, NEW i \in DOMAIN loop'[r].rows
        PROVE  Held(r, loop[r].rows[i])'
    <3>1. Held(r, loop[r].rows[i]) /\ loop' = loop
      BY <2>2 DEF IInv, InFlight
    <3>2. QED
      BY <1>3, <1>5, <2>2, <3>1, RowTypes DEF Held
  <2>3. QED
    BY <2>1, <2>2 DEF InFlight
<1>7. EventsOK'
  BY <1>1, EventsFresh DEF IInv
<1>8. FenceOK'
  <2>1. n = Control => e.at \in {Control, fence.owner}
    BY <1>2
  <2>2. QED
    BY <1>1, <1>3, <2>1, FenceStays DEF IInv
<1>9. WarpOK'
  <2>1. store'[Control].log # <<>>
    <3>1. store[Control].log # <<>>
      BY DEF IInv, WarpOK
    <3>2. /\ Len(store[Control].log) <= Len(store'[Control].log)
          /\ Len(store[Control].log) # 0 /\ Len(store[Control].log) \in Nat
      BY <1>3, <3>1, LogType, GrownLength, EmptySeq
    <3>3. Len(<<>>) = 0
      OBVIOUS
    <3>4. QED
      BY <3>2, <3>3
  <2>2. CASE warp'.pc = "idle"
    BY <2>2 DEF WarpOK, StealsTheWholeLog, At
  <2>3. CASE warp'.pc = "set"
    <3>1. /\ warp.to \in Remotes
          /\ \A i \in DOMAIN warp.rows : /\ warp.rows[i].seq = i
                                        /\ Held(Control, warp.rows[i]) /\ warp.rows[i] \in Row
      BY <1>3, <2>3, ElementOfSeq, LenProperties DEF IInv, WarpOK, WarpType
    <3>2. ASSUME NEW i \in DOMAIN warp.rows
          PROVE  Held(Control, warp.rows[i])'
      <4>1. PICK any \in Row : any = warp.rows[i] /\ Held(Control, any)
        BY <3>1
      <4>2. Held(Control, any)'
        BY <1>3, <1>5, <4>1
      <4>3. QED
        BY <2>3, <4>1, <4>2 DEF Held
    <3>3. QED
      BY <2>1, <2>3, <3>1, <3>2 DEF WarpOK, StealsTheWholeLog, At, Held
  <2>4. QED
    BY <2>2, <2>3
<1>10. UnmovedOK'
  BY WarpsCount DEF UnmovedOK
<1>11. QED
  BY <1>4, <1>6, <1>7, <1>8, <1>9, <1>10 DEF IInv

LEMMA StealStep ==
    ASSUME IInv, Steal
    PROVE  IInv'
<1>1. /\ warp.pc = "steal" /\ Publish(warp.to, warp.to) /\ UNCHANGED <<loop, warps, fence>>
      /\ warp' = [warp EXCEPT !.pc = "set"]
  BY DEF Steal, At, Goto
<1>2. warp \in WarpType /\ warp.to \in Nodes /\ warp.to \in Homes
  BY <1>1 DEF IInv, TypeOK, WarpType, WarpOK, Nodes, Homes
<1>3. warp' \in WarpType /\ warp'.pc = "set" /\ warp'.rows = warp.rows /\ warp'.to = warp.to
  BY <1>1, <1>2 DEF WarpType
<1>4. QED
  BY <1>1, <1>2, <1>3, PublishingStep

LEMMA SetStep ==
    ASSUME IInv, SetWorkspace
    PROVE  IInv'
<1>1. /\ warp.pc # "idle" /\ Publish(Control, warp.to) /\ UNCHANGED <<loop, warps, fence>>
      /\ warp' = IdleWarp
  BY DEF SetWorkspace, At
<1>2. Control \in Nodes /\ warp.to \in Homes
  BY DEF IInv, TypeOK, Nodes
<1>3. warp' \in WarpType /\ warp'.pc = "idle" /\ warp'.sent = 0
  BY <1>1, IdleWarpType DEF IdleWarp
<1>4. QED
  BY <1>1, <1>2, <1>3, PublishingStep

LEMMA RestartStep ==
    ASSUME IInv, Restart
    PROVE  IInv'
<1>1. /\ loop' = [r \in Remotes |-> IdleLoop] /\ sse' = [r \in Remotes |-> <<>>]
      /\ warp' = IdleWarp /\ UNCHANGED <<store, next, warps, fence>>
  BY DEF Restart
<1>2. TypeOK /\ EventsOK' /\ Same /\ OwnersStay /\ <<>> \in Seq(Row) /\ DOMAIN <<>> = {}
  BY <1>1, QuietStep DEF IInv
<1>3. TypeOK'
  BY <1>1, <1>2, IdleWarpType DEF TypeOK, WarpType, IdleLoop
<1>4. InFlight'
  BY <1>1, <1>2 DEF InFlight, IdleLoop
<1>5. WarpOK'
  BY <1>1 DEF WarpOK, StealsTheWholeLog, At, IdleWarp
<1>6. FenceOK'
  BY <1>1, <1>2, FenceStays DEF IInv
<1>7. UnmovedOK'
  BY <1>1 DEF IInv, UnmovedOK, IdleWarp
<1>8. QED
  BY <1>2, <1>3, <1>4, <1>5, <1>6, <1>7 DEF IInv

LEMMA IdleStep ==
    ASSUME IInv, UNCHANGED vars
    PROVE  IInv'
<1>1. UNCHANGED <<store, next, loop, sse, warp, warps, fence>> /\ TypeOK
  BY DEF vars, IInv
<1>2. EventsOK' /\ Same /\ Grows /\ OwnersStay
  BY <1>1, QuietStep
<1>3. TypeOK' /\ InFlight'
  BY <1>1 DEF IInv, TypeOK, InFlight, Held
<1>4. WarpOK' /\ FenceOK' /\ UnmovedOK'
  BY <1>1, <1>2, WarpStays, FenceStays, UnmovedStays DEF IInv
<1>5. QED
  BY <1>2, <1>3, <1>4 DEF IInv

-----------------------------------------------------------------------------
(* The theorems.                                                           *)

\* Every step, or none, keeps the invariant.
LEMMA SyncStep ==
    ASSUME IInv, [Next]_vars
    PROVE  IInv'
<1>1. ASSUME NEW n \in Nodes, Work(n) PROVE IInv'
  BY <1>1, WorkStep
<1>2. ASSUME NEW r \in Remotes, StartSync(r) \/ Sync(r) \/ Disconnect(r) PROVE IInv'
  BY <1>2, QuietLoopStep, ReplayHistoryStep, ReceiveStep DEF Sync
<1>3. ASSUME NEW to \in Homes, BeginWarp(to) PROVE IInv'
  BY <1>3, BeginWarpStep
<1>4. CASE CatchUp
  BY <1>4, CatchUpStep
<1>5. CASE ReplaySource
  BY <1>5, ReplaySourceStep
<1>6. CASE CaughtUp \/ CopyChanges \/ LoseRequest
  BY <1>6, PlainWarpStep
<1>7. CASE ClaimSession
  BY <1>7, ClaimStep
<1>8. CASE ReadLog \/ SendRow \/ SentAll
  BY <1>8, ReadLogStep, SendStep, SentAllStep
<1>9. CASE Steal \/ SetWorkspace
  BY <1>9, StealStep, SetStep
<1>10. CASE Restart
  BY <1>10, RestartStep
<1>11. CASE UNCHANGED vars
  BY <1>11, IdleStep
<1>12. QED
  BY <1>1, <1>2, <1>3, <1>4, <1>5, <1>6, <1>7, <1>8, <1>9, <1>10, <1>11 DEF Next, WarpStep

\* The invariant holds of every run, for any workspaces, events and moves.
THEOREM Invariance == Spec => []IInv
<1>1. Init => IInv
  BY Initially
<1>2. IInv /\ [Next]_vars => IInv'
  BY SyncStep
<1>3. QED
  BY <1>1, <1>2, PTL DEF Spec

\* The variables have their types; of the event in a row and of the home that
\* the projection names this is a result.
THEOREM TypesHold == Spec => []TypeOK
<1>1. IInv => TypeOK
  BY DEF IInv
<1>2. QED
  BY <1>1, Invariance, PTL

\* Copies of the log agree: an event has one number everywhere, however
\* histories, streams and moves repeat and reorder it.
THEOREM NumbersAgree == Spec => []SameNumberEverywhere
<1>1. IInv => SameNumberEverywhere
  BY DEF IInv, EventsOK
<1>2. QED
  BY <1>1, Invariance, PTL

\* After a claim only the claimant's events and the control plane's own enter
\* its log, whatever is in flight from the old workspace.
THEOREM ClaimsHold == Spec => []ClaimFences
<1>1. IInv => ClaimFences
  BY DEF IInv, FenceOK
<1>2. QED
  BY <1>1, Invariance, PTL

\* A target is asked to steal the session when it has the whole log read for it.
THEOREM StolenLogsAreWhole == Spec => []StealsTheWholeLog
<1>1. IInv => StealsTheWholeLog
  BY DEF IInv, WarpOK
<1>2. QED
  BY <1>1, Invariance, PTL

\* A beginning in the sense of the community module.
LEMMA BeginsIsPrefix ==
    ASSUME NEW s \in Seq(Event), NEW t \in Seq(Event), Begins(s, t)
    PROVE  IsPrefix(s, t)
<1> DEFINE n == Len(s)
<1>1. n \in Nat /\ Len(t) \in Nat /\ n <= Len(t) /\ \A i \in 1 .. n : s[i] = t[i]
  BY DEF Begins
<1>2. \A i \in 1 .. n : s[i] \in Event /\ t[i] \in Event
  BY <1>1, ElementOfSeq
<1>3. /\ SubSeq(s, 1, n) \in Seq(Event) /\ SubSeq(t, 1, n) \in Seq(Event)
      /\ Len(SubSeq(s, 1, n)) = n /\ Len(SubSeq(t, 1, n)) = n
      /\ \A i \in 1 .. n : SubSeq(s, 1, n)[i] = s[i] /\ SubSeq(t, 1, n)[i] = t[i]
  BY <1>1, <1>2, SubSeqProperties
<1>4. SubSeq(s, 1, n) = SubSeq(t, 1, n)
  BY <1>1, <1>3, SeqEqual
<1>5. QED
  BY <1>1, <1>4 DEF IsPrefix, n

\* Without moves the control plane holds a beginning of the writer's log.
THEOREM TheMirrorHolds == Spec => []MirrorsTheWriter
<1>1. IInv => MirrorsTheWriter
  <2> SUFFICES ASSUME IInv, NEW r \in Remotes, warps = 0, Ran(r)
               PROVE  IsPrefix(store[Control].log, store[r].log)
    BY DEF MirrorsTheWriter
  <2>1. r \in Nodes /\ Control \in Nodes /\ TypeOK
    BY DEF IInv, Nodes
  <2>2. store[r].log # <<>>
    <3>1. PICK i \in DOMAIN store[r].log : TRUE
      BY DEF Ran, Naming
    <3>2. DOMAIN <<>> = {}
      OBVIOUS
    <3>3. QED
      BY <3>1, <3>2
  <2>3. QED
    BY <2>1, <2>2, BeginsIsPrefix, LogType DEF IInv, UnmovedOK
<1>2. QED
  BY <1>1, Invariance, PTL

-----------------------------------------------------------------------------
(* Streams on the log of the control plane.                                *)

P == INSTANCE EventStream_proofs WITH Events <- Event, log <- store[Control].log

\* The log of the control plane stays or grows by an event.
Quiet == store'[Control].log = store[Control].log
GrowsByOne == \E e \in Event : store'[Control].log = Append(store[Control].log, e)

FollowedInv == IInv /\ P!IInv

-----------------------------------------------------------------------------
(* Steps of the processes.                                                 *)

LEMMA PublishGrows ==
    ASSUME IInv, NEW n \in Nodes, NEW home \in Homes \cup {"same"}, Publish(n, home)
    PROVE  Quiet \/ GrowsByOne
<1> DEFINE e == [id |-> next, at |-> n, home |-> home]
<1>1. e \in Event /\ Fresh(n, e) /\ Control \in Nodes
  BY PublishOutcome DEF Nodes
<1> HIDE DEF e
<1>2. QED
  BY <1>1 DEF Fresh, Grown, Quiet, GrowsByOne

LEMMA TakeGrows ==
    ASSUME IInv, NEW r \in Remotes, NEW row \in Row, Held(r, row), Take(row, r), next' = next
    PROVE  Quiet \/ GrowsByOne
<1>1. Same \/ Copied(Control, r)
  BY TakeOutcome
<1>2. CASE Same
  BY <1>2 DEF Same, Quiet, Nodes
<1>3. CASE Copied(Control, r)
  <2>1. TypeOK /\ r \in Nodes
    BY DEF IInv, Nodes
  <2>2. PICK e \in Event : Grown(Control, e)
    BY <1>3, <2>1, LogType DEF Copied
  <2>3. QED
    BY <2>2 DEF Grown, GrowsByOne
<1>4. QED
  BY <1>1, <1>2, <1>3

LEMMA ReplayGrows ==
    ASSUME IInv, NEW r \in Remotes, ReplayHistory(r) \/ Receive(r)
    PROVE  Quiet \/ GrowsByOne
<1>1. TypeOK /\ sse[r] \in Seq(Row) /\ loop[r].rows \in Seq(Row)
  BY RowTypes DEF IInv
<1>2. CASE ReplayHistory(r)
  <2>1. Take(Head(loop[r].rows), r) /\ next' = next /\ loop[r].rows # <<>>
    BY <1>2 DEF ReplayHistory
  <2>2. Head(loop[r].rows) \in Row /\ Held(r, Head(loop[r].rows))
    BY <1>1, <2>1, TailRows DEF IInv, InFlight
  <2>3. QED
    BY <2>1, <2>2, TakeGrows
<1>3. CASE Receive(r)
  <2>1. Take(Head(sse[r]), r) /\ next' = next /\ sse[r] # <<>>
    BY <1>3 DEF Receive
  <2>2. Head(sse[r]) \in Row /\ Held(r, Head(sse[r]))
    BY <1>1, <2>1, TailRows DEF IInv, InFlight
  <2>3. QED
    BY <2>1, <2>2, TakeGrows
<1>4. QED
  BY <1>2, <1>3

LEMMA SourceGrows ==
    ASSUME IInv, ReplaySource
    PROVE  Quiet \/ GrowsByOne
<1>1. /\ warp.pc = "catchUp" /\ warp.sent < Len(warp.rows) /\ Take(NextRow, warp.from)
      /\ next' = next
  BY DEF ReplaySource, At
<1>2. warp \in WarpType /\ warp.from \in Remotes
  BY <1>1 DEF IInv, TypeOK, WarpType, WarpOK
<1>3. DOMAIN warp.rows = 1 .. Len(warp.rows) /\ Len(warp.rows) \in Nat /\ warp.sent \in Nat
  BY <1>2, LenProperties DEF WarpType
<1>4. warp.sent + 1 \in DOMAIN warp.rows
  BY <1>1, <1>3
<1>5. NextRow \in Row /\ Held(warp.from, NextRow)
  BY <1>1, <1>2, <1>4, ElementOfSeq, <1>3 DEF IInv, WarpOK, WarpType, NextRow
<1>6. QED
  BY <1>1, <1>2, <1>5, TakeGrows

\* What is sent, and what is claimed, leaves the log of the control plane.
LEMMA SendOrClaimIsQuiet ==
    ASSUME IInv, SendRow \/ ClaimSession
    PROVE  Quiet
<1>1. store \in [Nodes -> Store] /\ Control \in Nodes
  BY DEF IInv, TypeOK, Store, Nodes
<1>2. CASE SendRow
  <2>1. warp.to # Control
    BY <1>2, NamesAssumption DEF SendRow, At, IInv, WarpOK
  <2>2. store'[Control] = store[Control]
    BY <1>1, <1>2, <2>1 DEF SendRow
  <2>3. QED
    BY <2>2 DEF Quiet
<1>3. CASE ClaimSession
  <2>1. PICK owner : store' = [store EXCEPT ![Control] = L!Claim(store[Control], owner)]
    BY <1>3 DEF ClaimSession
  <2>2. store'[Control] = L!Claim(store[Control], owner)
    BY <1>1, <2>1
  <2>3. QED
    BY <1>1, <2>2 DEF L!Claim, Quiet, Store
<1>4. QED
  BY <1>2, <1>3

LEMMA ControlStep ==
    ASSUME IInv, Next
    PROVE  Quiet \/ GrowsByOne
<1>1. ASSUME NEW n \in Nodes, Work(n) PROVE Quiet \/ GrowsByOne
  BY <1>1, PublishGrows DEF Work
<1>2. ASSUME NEW r \in Remotes, StartSync(r) \/ Sync(r) \/ Disconnect(r)
      PROVE  Quiet \/ GrowsByOne
  <2>1. CASE ReplayHistory(r) \/ Receive(r)
    BY <2>1, ReplayGrows
  <2>2. CASE StartSync(r) \/ Connect(r) \/ FetchHistory(r) \/ GoLive(r) \/ Disconnect(r)
    BY <2>2 DEF StartSync, Connect, FetchHistory, GoLive, Disconnect, Quiet
  <2>3. QED
    BY <1>2, <2>1, <2>2 DEF Sync
<1>3. CASE \/ \E to \in Homes : BeginWarp(to)
           \/ CatchUp \/ CaughtUp \/ CopyChanges \/ ReadLog \/ SentAll \/ LoseRequest \/ Restart
  BY <1>3 DEF BeginWarp, CatchUp, CaughtUp, CopyChanges, ReadLog, SentAll, LoseRequest,
              Restart, Quiet
<1>4. CASE SendRow \/ ClaimSession
  BY <1>4, SendOrClaimIsQuiet
<1>5. CASE ReplaySource
  BY <1>5, SourceGrows
<1>6. CASE Steal \/ SetWorkspace
  <2>1. warp.to \in Homes /\ Control \in Nodes
    BY DEF IInv, TypeOK, Nodes
  <2>2. CASE Steal
    <3>1. Publish(warp.to, warp.to) /\ warp.to \in Nodes
      BY <2>2 DEF Steal, At, IInv, WarpOK, Nodes
    <3>2. QED
      BY <2>1, <3>1, PublishGrows
  <2>3. CASE SetWorkspace
    <3>1. Publish(Control, warp.to)
      BY <2>3 DEF SetWorkspace
    <3>2. QED
      BY <2>1, <3>1, PublishGrows
  <2>4. QED
    BY <1>6, <2>2, <2>3
<1>7. QED
  BY <1>1, <1>2, <1>3, <1>4, <1>5, <1>6 DEF Next, WarpStep

-----------------------------------------------------------------------------
(* The theorems.                                                           *)

\* Without the streams, a step is one of WorkspaceSync or none.
LEMMA StepsOfSync == [FollowedNext]_followed => [Next]_vars
<1>1. Replicate => Next
  BY DEF Replicate, Next
<1>2. RestartAll => Next
  BY DEF RestartAll, Next
<1>3. QED
  BY <1>1, <1>2 DEF FollowedNext, Asked, followed

\* The streams of the control plane do not disturb the replication: what is
\* proved of WorkspaceSync holds with clients that follow it.
THEOREM FollowedIsSync == FollowedSpec => Spec
<1>1. FollowedInit => Init
  BY DEF FollowedInit
<1>2. QED
  BY <1>1, StepsOfSync, PTL DEF FollowedSpec, Spec

\* Both invariants hold of every run.
THEOREM FollowedInvariance == FollowedSpec => []FollowedInv
<1>1. FollowedInit => FollowedInv
  <2> SUFFICES ASSUME FollowedInit PROVE FollowedInv
    OBVIOUS
  <2>1. IInv
    BY Initially DEF FollowedInit
  <2>2. store[Control].log \in Seq(Event)
    BY <2>1, LogType DEF IInv, Nodes
  <2>3. P!NoStreams
    BY DEF FollowedInit, F!NoStreams, P!NoStreams, F!Closed, P!Closed
  <2>4. P!IInv
    BY <2>2, <2>3, P!NoneOpen
  <2>5. QED
    BY <2>1, <2>4 DEF FollowedInv
<1>2. FollowedInv /\ [FollowedNext]_followed => FollowedInv'
  <2> SUFFICES ASSUME FollowedInv, [FollowedNext]_followed PROVE FollowedInv'
    OBVIOUS
  <2>1. IInv /\ P!IInv
    BY DEF FollowedInv
  <2>2. IInv'
    BY <2>1, StepsOfSync, SyncStep
  <2> SUFFICES P!IInv'
    BY <2>2 DEF FollowedInv
  <2>3. CASE Replicate
    <3>1. Quiet \/ GrowsByOne
      BY <2>1, <2>3, ControlStep DEF Replicate, Next
    <3>2. CASE Quiet
      BY <2>1, <2>3, <3>2, P!StillStep DEF Replicate, Quiet
    <3>3. CASE ~Quiet /\ GrowsByOne
      <4>1. P!Committed
        BY <2>3, <3>3 DEF Replicate, Quiet, F!Committed, P!Committed
      <4>2. PICK e \in Event : store'[Control].log = Append(store[Control].log, e)
        BY <3>3 DEF GrowsByOne
      <4>3. QED
        BY <2>1, <4>1, <4>2, P!CommitStep
    <3>4. QED
      BY <3>1, <3>2, <3>3
  <2>4. CASE RestartAll
    BY <2>1, <2>4, P!RestartStep DEF RestartAll, F!Restart, P!Restart, F!Closed, P!Closed
  <2>5. CASE Asked /\ F!Follow
    <3>1. P!Follow
      BY <2>5, Zenon DEF Asked, F!Follow, P!Follow, F!Wake, P!Wake, F!Open, P!Open, F!Close, P!Close,
                  F!StreamStep, P!StreamStep, F!Read, P!Read, F!HandOut, P!HandOut,
                  F!HandOutRows, P!HandOutRows, F!TakeWake, P!TakeWake, F!Closed, P!Closed
    <3>2. QED
      BY <2>1, <3>1, P!FollowStep, Zenon
  <2>6. CASE UNCHANGED followed
    BY <2>1, <2>6, P!StillStep DEF followed, vars
  <2>7. QED
    BY <2>3, <2>4, <2>5, <2>6 DEF FollowedNext
<1>3. QED
  BY <1>1, <1>2, PTL DEF FollowedSpec

\* A client of the control plane is given the control plane's log from where it
\* asked, each event once and in order, whether the events were published there
\* or replayed from a workspace, and while the session moves.
THEOREM ClientsFollowTheLog == FollowedSpec => []StreamsFollowTheLog
<1>1. FollowedInv => StreamsFollowTheLog
  BY P!InvariantFollows DEF FollowedInv, StreamsFollowTheLog, F!StreamsFollowTheLog,
                            P!StreamsFollowTheLog
<1>2. QED
  BY <1>1, FollowedInvariance, PTL

=============================================================================
