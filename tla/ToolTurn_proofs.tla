--------------------------- MODULE ToolTurn_proofs ---------------------------
(***************************************************************************)
(* Proofs about PermissionDesk and ToolTurn, for any number of askers,     *)
(* repliers and calls of the provider.                                     *)
(*                                                                         *)
(* The desk: no request is listed twice, a request is listed while it is   *)
(* awaited, and what a rejection has passed is settled and stays so.  It   *)
(* holds on its own and inside a turn, which may end and crash.            *)
(*                                                                         *)
(* The turn: a call that was made has a fiber or a settlement, a fiber     *)
(* that came to its end on its own has left a settlement, a settlement     *)
(* that a fiber did not make itself is the work of a failure, and what the *)
(* provider's end left open is settled before the wait for the fibers.     *)
(*                                                                         *)
(* The turn in its session: its steps are steps of SessionEngine, which    *)
(* sees of it that a call is open and how the drain goes on.               *)
(***************************************************************************)
EXTENDS ToolTurn, SequenceTheorems, WellFoundedInduction, TLAPS

-----------------------------------------------------------------------------
(* The invariant of the desk.                                              *)
Places == {"idle", "judged", "waiting", "allowed", "rejected", "through", "refused",
           "questioning", "answered", "unanswered", "informed", "dismissed", "gone"}

ReplyType == [at : {"idle", "telling", "saving", "recalling", "checking"},
              reply : {"none", "once", "always", "reject", "answer", "dismiss"},
              on : Askers \cup {None}, item : Askers \cup {None},
              seen : SUBSET Askers, rules : SUBSET Askers]

DeskType ==
    /\ permissions \in Seq(Askers)
    /\ asker \in [Askers -> Places]
    /\ saved \subseteq Askers
    /\ replies \in [Repliers -> ReplyType]

ListedOnce == \A i, j \in DOMAIN permissions : permissions[i] = permissions[j] => i = j

\* A reply that is under way is about a request.
OnRequest(i) == replies[i].at # "idle" => replies[i].on \in Askers /\ replies[i].item \in Askers

\* A rejection tells of one request at a time, one that was made, and those that it has
\* told of are not awaited any more.
Sweeping(i) ==
    replies[i].reply = "reject" =>
        /\ replies[i].at = "telling"
        /\ asker[replies[i].item] \notin {"idle", "judged"}
        /\ \A b \in replies[i].seen \ {replies[i].item} :
               asker[b] \notin {"idle", "judged", "waiting"}

RepliesOK == \A i \in Repliers : OnRequest(i) /\ Sweeping(i)

DeskInv == DeskType /\ ListedOnce /\ ListedWhileAwaited /\ RepliesOK

-----------------------------------------------------------------------------
(* The invariant of the turn.                                              *)
Past == {"over", "repaired"}
Fibers == {"none", "running", "success", "error", "ended", "failed"}

TurnType ==
    /\ tools \in [All -> {"none", "input", "called"}]
    /\ log \in [All -> {0, 1}]
    /\ fiber \in [Calls -> Fibers]
    /\ failure \in {"none", "other", "dismissed"}
    /\ deaf \in {"none", "overflow", "provider"}
    /\ step \subseteq {"started", "failed", "finished", "ended"}
    /\ interrupted \in BOOLEAN
    /\ turn \in [at : {"streaming", "recovering", "streamed", "clearing", "joining",
                       "dismissing", "halting", "closing", "over", "repaired"},
                 last : BOOLEAN,
                 stream : {"open", "success", "llm", "overflow", "died", "interrupted"},
                 outcome : {"none", "retry", "died", "failed", "interrupted", "continue",
                            "stop", "crashed"}]

\* Before anything takes the fibers down.
Undisturbed == /\ turn.at \in {"streaming", "recovering", "streamed", "joining"}
               /\ ~interrupted

\* A local call and its fiber.
CallOK(c) ==
    /\ turn.at \notin Past /\ fiber[c] # "none" => tools[c] = "called" /\ ~turn.last
    /\ tools[c] = "called" => fiber[c] # "none" \/ Settled(c)
    /\ turn.at = "streaming" /\ fiber[c] = "none" /\ Settled(c) => turn.last
    /\ fiber[c] \in {"running", "success"} /\ Settled(c) => failure = "other"
    /\ fiber[c] = "failed" => failure # "none"
    /\ Undisturbed /\ fiber[c] = "ended" => Settled(c)
    /\ turn.at \in Past => fiber[c] \in {"none", "ended", "failed"}

CallsOK == \A c \in Calls : CallOK(c)

\* The calls of a provider that failed are settled before the turn waits.
HostedOK ==
    turn.at = "joining" /\ turn.stream \in {"llm", "overflow"} /\ deaf = "none" =>
        \A h \in Hosted : tools[h] = "called" => Settled(h)

\* Nothing was said before an overflow is recovered from.
StartedOK ==
    /\ turn.at \notin Past => \A c \in All : tools[c] # "none" => "started" \in step
    /\ turn.at = "recovering" => "started" \notin step

StreamOK ==
    /\ turn.at = "streaming" => turn.stream = "open"
    /\ turn.at \in {"recovering", "streamed", "clearing", "joining"} => turn.stream # "open"
    /\ turn.at \notin Past /\ turn.stream = "interrupted" => interrupted
    /\ turn.at = "clearing" => turn.stream = "interrupted"
    /\ turn.at \in {"clearing", "joining"} => deaf # "overflow"

\* What was called is settled once the scope of the turn closes.
ClosingOK ==
    /\ turn.at \in {"closing", "over"} /\ turn.outcome \notin {"crashed", "died"} =>
           \A c \in All : tools[c] = "called" => Settled(c)
    /\ turn.at = "repaired" => \A c \in All : tools[c] # "none" => Settled(c)

TurnInv == TurnType /\ CallsOK /\ HostedOK /\ StartedOK /\ StreamOK /\ ClosingOK

IInv == DeskInv /\ TurnInv

-----------------------------------------------------------------------------
(* Lists without duplicates.                                               *)

\* A nonempty set of positions of a sequence has a first one.
LEMMA LeastPosition ==
    ASSUME NEW n \in Nat, NEW S \in SUBSET (1 .. n), S # {}
    PROVE  Min(S) \in S
<1>1. S \subseteq Nat
  OBVIOUS
<1>2. PICK i \in S : \A j \in S : ~(<<j, i>> \in OpToRel(<, Nat))
  BY <1>1, WFMin, NatLessThanWellFounded
<1>3. ASSUME NEW j \in S PROVE i <= j
  <2>1. i \in Nat /\ j \in Nat
    BY <1>1
  <2>2. ~(j < i)
    BY <1>2, <2>1 DEF OpToRel
  <2>3. QED
    BY <2>1, <2>2
<1>4. QED
  BY <1>3 DEF Min

Once(s) == \A i, j \in DOMAIN s : s[i] = s[j] => i = j

\* What is taken from a list without duplicates is gone, and all else stays.
LEMMA RemoveFirstListed ==
    ASSUME NEW S, NEW s \in Seq(S), NEW e, Once(s)
    PROVE  /\ RemoveFirst(s, e) \in Seq(S)
           /\ Once(RemoveFirst(s, e))
           /\ ToSet(RemoveFirst(s, e)) = ToSet(s) \ {e}
<1> DEFINE I == {i \in 1 .. Len(s) : s[i] = e}
           k == Min(I)
           t == RemoveFirst(s, e)
<1>1. Len(s) \in Nat /\ DOMAIN s = 1 .. Len(s)
  BY LenProperties
<1>2. CASE I = {}
  BY <1>1, <1>2 DEF RemoveFirst, ToSet
<1>3. CASE I # {}
  <2>1. k \in 1 .. Len(s) /\ s[k] = e
    <3>1. k \in I
      BY <1>1, <1>3, LeastPosition
    <3>2. QED
      BY <3>1
  <2>2. t = SubSeq(s, 1, k - 1) \o SubSeq(s, k + 1, Len(s))
    BY <1>3 DEF RemoveFirst, SelectInSeq, RemoveAt
  <2> HIDE DEF k, I, t
  <2>3. /\ SubSeq(s, 1, k - 1) \in Seq(S) /\ Len(SubSeq(s, 1, k - 1)) = k - 1
        /\ \A i \in 1 .. k - 1 : SubSeq(s, 1, k - 1)[i] = s[i]
    <3>1. \A i \in 1 .. k - 1 : s[i] \in S
      BY <1>1, <2>1, ElementOfSeq
    <3>2. 1 \in Int /\ k - 1 \in Int
      BY <1>1, <2>1
    <3>3. QED
      BY <1>1, <2>1, <3>1, <3>2, SubSeqProperties
  <2>4. /\ SubSeq(s, k + 1, Len(s)) \in Seq(S) /\ Len(SubSeq(s, k + 1, Len(s))) = Len(s) - k
        /\ \A i \in 1 .. Len(s) - k : SubSeq(s, k + 1, Len(s))[i] = s[k + i]
    <3>1. \A i \in k + 1 .. Len(s) : s[i] \in S
      BY <1>1, <2>1, ElementOfSeq
    <3>2. k + 1 \in Int /\ Len(s) \in Int
      BY <1>1, <2>1
    <3> DEFINE m == k + 1
               n == Len(s)
    <3>3. /\ n - m + 1 = Len(s) - k /\ (m <= n \/ Len(s) - k = 0)
          /\ \A i \in 1 .. n - m + 1 : m + i - 1 = k + i
      <4>1. k \in Int /\ Len(s) \in Int /\ k <= Len(s)
        BY <1>1, <2>1
      <4>2. n - m + 1 = Len(s) - k
        BY <4>1
      <4>3. m <= n \/ Len(s) - k = 0
        BY <4>1
      <4>4. \A i \in Int : m + i - 1 = k + i
        BY <4>1
      <4>5. n - m + 1 \in Int
        BY <4>1
      <4> HIDE DEF m, n
      <4>6. \A i \in 1 .. n - m + 1 : i \in Int
        BY <4>5
      <4>7. QED
        BY <4>2, <4>3, <4>4, <4>6
    <3> HIDE DEF m, n
    <3>4. /\ SubSeq(s, m, n) \in Seq(S)
          /\ Len(SubSeq(s, m, n)) = IF m <= n THEN n - m + 1 ELSE 0
          /\ \A i \in 1 .. n - m + 1 : SubSeq(s, m, n)[i] = s[m + i - 1]
      BY <3>1, <3>2, SubSeqProperties DEF m, n
    <3>5. /\ Len(SubSeq(s, m, n)) = Len(s) - k
          /\ \A i \in 1 .. Len(s) - k : SubSeq(s, m, n)[i] = s[k + i]
      <4>1. m <= n => Len(SubSeq(s, m, n)) = Len(s) - k
        BY <3>3, <3>4
      <4>2. ~(m <= n) => Len(SubSeq(s, m, n)) = Len(s) - k
        BY <3>3, <3>4
      <4>3. \A i \in 1 .. n - m + 1 : SubSeq(s, m, n)[i] = s[k + i]
        BY <3>3, <3>4
      <4>4. QED
        BY <3>3, <4>1, <4>2, <4>3
    <3>6. QED
      BY <3>4, <3>5 DEF m, n
  <2>5. t \in Seq(S) /\ Len(t) = Len(s) - 1
    <3>1. (k - 1) + (Len(s) - k) = Len(s) - 1
      BY <1>1, <2>1
    <3>2. QED
      BY <2>2, <2>3, <2>4, <3>1, ConcatProperties
  <2>6. \A i \in 1 .. k - 1 : t[i] = s[i]
    <3> TAKE i \in 1 .. k - 1
    <3>1. i \in 1 .. (k - 1) + (Len(s) - k) /\ i <= k - 1
      BY <1>1, <2>1
    <3>2. t[i] = SubSeq(s, 1, k - 1)[i]
      BY <2>2, <2>3, <2>4, <3>1, ConcatProperties
    <3>3. QED
      BY <2>3, <3>2
  <2>7. \A i \in k .. Len(s) - 1 : t[i] = s[i + 1]
    <3> TAKE i \in k .. Len(s) - 1
    <3>1. /\ i \in 1 .. (k - 1) + (Len(s) - k) /\ ~(i <= k - 1)
          /\ i - (k - 1) \in 1 .. Len(s) - k /\ k + (i - (k - 1)) = i + 1
      BY <1>1, <2>1
    <3>2. t[i] = SubSeq(s, k + 1, Len(s))[i - (k - 1)]
      BY <2>2, <2>3, <2>4, <3>1, ConcatProperties
    <3>3. QED
      BY <2>4, <3>1, <3>2
  <2>8. DOMAIN t = 1 .. Len(s) - 1
    BY <2>5, LenProperties
  \* Every position of what is left is one of the list, except the first of e.
  <2> DEFINE from(i) == IF i < k THEN i ELSE i + 1
  <2>9. \A i \in DOMAIN t : from(i) \in DOMAIN s /\ from(i) # k /\ t[i] = s[from(i)]
    BY <1>1, <2>1, <2>6, <2>7, <2>8
  <2>10. \A i, j \in DOMAIN t : from(i) = from(j) => i = j
    BY <1>1, <2>1, <2>8
  <2>11. \A n \in DOMAIN s : n # k => \E i \in DOMAIN t : from(i) = n
    <3> SUFFICES ASSUME NEW n \in DOMAIN s, n # k PROVE \E i \in DOMAIN t : from(i) = n
      OBVIOUS
    <3>1. CASE n < k
      BY <1>1, <2>1, <2>8, <3>1
    <3>2. CASE n > k
      <4>1. n - 1 \in DOMAIN t /\ from(n - 1) = n
        BY <1>1, <2>1, <2>8, <3>2
      <4>2. QED
        BY <4>1
    <3>3. QED
      BY <1>1, <2>1, <3>1, <3>2
  <2> HIDE DEF from
  <2>12. k \in DOMAIN s
    BY <1>1, <2>1
  <2>13. Once(t)
    BY <2>9, <2>10 DEF Once
  <2>14. ToSet(t) = ToSet(s) \ {e}
    BY <2>1, <2>9, <2>11, <2>12 DEF Once, ToSet
  <2>15. QED
    BY <2>5, <2>13, <2>14 DEF t
<1>4. QED
  BY <1>2, <1>3

\* Where the walk of a reply goes next.
LEMMA ConcernedIs ==
    ASSUME NEW i, NEW list \in Seq(Askers)
    PROVE  /\ Concerned(i, list) # 0 => /\ list[Concerned(i, list)] \in Askers
                                        /\ list[Concerned(i, list)] \in ToSet(list)
                                        /\ Ahead(i, list[Concerned(i, list)])
           /\ Concerned(i, list) = 0 /\ replies[i].reply = "reject" =>
                  \A a \in ToSet(list) :
                      SessionOf[a] = SessionOf[replies[i].on] => ~Ahead(i, a)
<1> DEFINE Sought(b) == Ahead(i, b) /\ \/ replies[i].reply # "reject"
                                       \/ SessionOf[b] = SessionOf[replies[i].on]
           I == {n \in 1 .. Len(list) : Sought(list[n])}
<1>1. Len(list) \in Nat /\ DOMAIN list = 1 .. Len(list) /\ \A n \in 1 .. Len(list) : list[n] \in Askers
  BY LenProperties, ElementOfSeq
<1>2. Concerned(i, list) = IF I # {} THEN Min(I) ELSE 0
  BY DEF Concerned, SelectInSeq
<1>3. CASE I = {}
  BY <1>1, <1>2, <1>3 DEF ToSet
<1>4. CASE I # {}
  <2>1. Min(I) \in I
    BY <1>1, <1>4, LeastPosition
  <2>2. Concerned(i, list) \in I
    BY <1>2, <1>4, <2>1
  <2>3. QED
    BY <1>1, <2>2 DEF ToSet
<1>5. QED
  BY <1>3, <1>4

-----------------------------------------------------------------------------
(* The steps of the desk.                                                  *)

\* No asker goes back, in the sense of what a rejection has passed.
Forward ==
    /\ asker' \in [Askers -> Places]
    /\ \A a \in Askers :
           /\ asker[a] \notin {"idle", "judged"} => asker'[a] \notin {"idle", "judged"}
           /\ asker[a] \notin {"idle", "judged", "waiting"} =>
                  asker'[a] \notin {"idle", "judged", "waiting"}

Listing == permissions \in Seq(Askers) /\ ListedOnce /\ ListedWhileAwaited

LEMMA ReplyStays ==
    ASSUME DeskInv, Forward, NEW i \in Repliers, replies'[i] = replies[i]
    PROVE  OnRequest(i)' /\ Sweeping(i)'
<1>1. OnRequest(i) /\ Sweeping(i) /\ replies[i].seen \subseteq Askers
  BY DEF DeskInv, RepliesOK, DeskType, ReplyType
<1>2. QED
  BY <1>1 DEF OnRequest, Sweeping, Forward

LEMMA RepliesStay ==
    ASSUME DeskInv, Forward, UNCHANGED replies, Listing', saved' \subseteq Askers
    PROVE  DeskInv'
<1>1. \A i \in Repliers : OnRequest(i)' /\ Sweeping(i)'
  BY ReplyStays
<1>2. QED
  BY <1>1 DEF DeskInv, DeskType, RepliesOK, Listing, Forward

\* A reply that is not a rejection may be anywhere.
LEMMA ReplyMoves ==
    ASSUME DeskInv, Forward, Listing', saved' \subseteq Askers, NEW i \in Repliers,
           NEW r \in ReplyType, replies' = [replies EXCEPT ![i] = r],
           OnRequest(i)', Sweeping(i)'
    PROVE  DeskInv'
<1>1. /\ replies' \in [Repliers -> ReplyType]
      /\ \A j \in Repliers : j # i => replies'[j] = replies[j]
  BY DEF DeskInv, DeskType
<1>2. \A j \in Repliers : OnRequest(j)' /\ Sweeping(j)'
  BY <1>1, ReplyStays
<1>3. QED
  BY <1>1, <1>2 DEF DeskInv, DeskType, RepliesOK, Listing, Forward

LEMMA NothingMoves ==
    ASSUME DeskInv, UNCHANGED <<permissions, questions, asker, saved>>
    PROVE  Forward /\ Listing' /\ saved' \subseteq Askers
BY DEF DeskInv, DeskType, Forward, Listing, ListedOnce, ListedWhileAwaited

LEMMA IdleReply ==
    Idle \in ReplyType /\ Idle.at = "idle" /\ Idle.reply = "none" /\ Idle.seen = {}
BY DEF Idle, ReplyType

LEMMA ReplyEnds ==
    ASSUME DeskInv, Forward, Listing', saved' \subseteq Askers, NEW i \in Repliers,
           replies' = [replies EXCEPT ![i] = Idle]
    PROVE  DeskInv'
<1>1. replies'[i] = Idle
  BY DEF DeskInv, DeskType
<1>2. OnRequest(i)' /\ Sweeping(i)'
  BY <1>1, IdleReply DEF OnRequest, Sweeping
<1>3. QED
  BY <1>2, IdleReply, ReplyMoves

\* An asker takes its request back and moves on.
LEMMA UnlistKeeps ==
    ASSUME DeskInv, NEW a \in Askers, Unlist(a),
           NEW place \in Places \ {"idle", "judged", "waiting", "questioning"},
           GoTo(a, place)
    PROVE  Forward /\ Listing'
<1>1. permissions \in Seq(Askers) /\ Once(permissions) /\ asker \in [Askers -> Places]
  BY DEF DeskInv, DeskType, ListedOnce, Once
<1>2. /\ permissions' \in Seq(Askers) /\ Once(permissions')
      /\ ToSet(permissions') = ToSet(permissions) \ {a}
  BY <1>1, RemoveFirstListed DEF Unlist
<1>3. asker' = [asker EXCEPT ![a] = place] /\ questions' = questions \ {a}
  BY DEF GoTo, Unlist
<1>4. Forward
  BY <1>1, <1>3 DEF Forward
<1>5. ListedOnce'
  BY <1>2 DEF ListedOnce, Once
<1>6. ListedWhileAwaited'
  BY <1>1, <1>2, <1>3 DEF DeskInv, ListedWhileAwaited
<1>7. QED
  BY <1>2, <1>4, <1>5, <1>6 DEF Listing

LEMMA JudgeKeeps == ASSUME DeskInv, NEW a \in Askers, Judge(a) PROVE DeskInv'
<1>1. PICK place \in {"refused", "through", "judged"} : GoTo(a, place)
  BY DEF Judge
<1>2. Forward
  BY <1>1 DEF DeskInv, DeskType, Judge, GoTo, Forward, Places
<1>3. Listing'
  BY <1>1 DEF DeskInv, DeskType, Judge, GoTo, Listing, ListedOnce, ListedWhileAwaited
<1>4. QED
  BY <1>2, <1>3, RepliesStay DEF Judge, DeskInv, DeskType

LEMMA CreateKeeps == ASSUME DeskInv, NEW a \in Askers, Create(a) PROVE DeskInv'
<1>1. permissions \in Seq(Askers) /\ Once(permissions) /\ asker \in [Askers -> Places]
  BY DEF DeskInv, DeskType, ListedOnce, Once
<1>2. /\ asker[a] = "judged" /\ asker' = [asker EXCEPT ![a] = "waiting"]
      /\ permissions' = Append(permissions, a)
      /\ UNCHANGED <<questions, saved, replies>>
  BY DEF Create, GoTo
<1>3. a \notin ToSet(permissions)
  BY <1>2 DEF DeskInv, ListedWhileAwaited
<1>4. /\ DOMAIN permissions = 1 .. Len(permissions) /\ Len(permissions) \in Nat
      /\ permissions' \in Seq(Askers) /\ DOMAIN permissions' = 1 .. Len(permissions) + 1
      /\ \A n \in 1 .. Len(permissions) : permissions'[n] = permissions[n]
      /\ permissions'[Len(permissions) + 1] = a
  BY <1>1, <1>2, LenProperties, AppendProperties
<1>5. Once(permissions')
  <2>1. \A n \in 1 .. Len(permissions) : permissions[n] # a
    BY <1>3, <1>4 DEF ToSet
  <2>2. QED
    BY <1>1, <1>4, <2>1 DEF Once
<1>6. ToSet(permissions') = ToSet(permissions) \cup {a}
  BY <1>4 DEF ToSet
<1>7. Forward
  BY <1>1, <1>2 DEF Forward, Places
<1>8. ListedOnce' /\ ListedWhileAwaited'
  BY <1>1, <1>2, <1>5, <1>6 DEF ListedOnce, Once, DeskInv, ListedWhileAwaited
<1>9. QED
  BY <1>2, <1>4, <1>7, <1>8, RepliesStay DEF Listing, DeskInv, DeskType

LEMMA AskKeeps == ASSUME DeskInv, NEW a \in Askers, Ask(a) PROVE DeskInv'
<1>1. Forward
  BY DEF DeskInv, DeskType, Ask, GoTo, Forward, Places
<1>2. Listing'
  BY DEF DeskInv, DeskType, Ask, GoTo, Listing, ListedOnce, ListedWhileAwaited
<1>3. QED
  BY <1>1, <1>2, RepliesStay DEF Ask, DeskInv, DeskType

LEMMA NoticeKeeps == ASSUME DeskInv, NEW a \in Askers, Notice(a) PROVE DeskInv'
<1>1. /\ Unlist(a)
      /\ \E place \in {"through", "refused", "informed", "dismissed"} : GoTo(a, place)
      /\ UNCHANGED <<saved, replies>>
  BY DEF Notice
<1>2. Forward /\ Listing'
  BY <1>1, UnlistKeeps DEF Places
<1>3. QED
  BY <1>1, <1>2, RepliesStay DEF DeskInv, DeskType

LEMMA LeaveKeeps == ASSUME DeskInv, NEW a \in Askers, Leave(a) PROVE DeskInv'
<1>1. Unlist(a) /\ GoTo(a, "gone") /\ UNCHANGED <<saved, replies>>
  BY DEF Leave
<1>2. Forward /\ Listing'
  BY <1>1, UnlistKeeps DEF Places
<1>3. QED
  BY <1>1, <1>2, RepliesStay DEF DeskInv, DeskType

LEMMA FinalizeKeeps == ASSUME DeskInv, Finalize PROVE DeskInv'
<1>1. /\ asker \in [Askers -> Places] /\ asker' \in [Askers -> Places]
      /\ \A a \in Askers : asker'[a] = CASE asker[a] = "waiting"     -> "rejected"
                                          [] asker[a] = "questioning" -> "unanswered"
                                          [] OTHER                    -> asker[a]
  BY DEF DeskInv, DeskType, Finalize, Places
<1>2. Forward
  BY <1>1 DEF Forward
<1>3. permissions' = <<>> /\ questions' = {} /\ UNCHANGED <<saved, replies>>
  BY DEF Finalize
<1>4. permissions' \in Seq(Askers) /\ ListedOnce' /\ ToSet(permissions') = {}
  BY <1>3 DEF ListedOnce, ToSet
<1>5. \A a \in Askers : asker'[a] \notin {"waiting", "questioning"}
  BY <1>1
<1>6. Listing'
  BY <1>3, <1>4, <1>5 DEF Listing, ListedWhileAwaited
<1>7. QED
  BY <1>2, <1>3, <1>6, RepliesStay DEF DeskInv, DeskType

-----------------------------------------------------------------------------
(* The steps of a reply.                                                   *)
LEMMA SettleKeeps ==
    ASSUME DeskInv, NEW a \in Askers, NEW to \in {"allowed", "rejected"}, Settle(a, to)
    PROVE  Forward /\ Listing' /\ asker'[a] # "waiting"
<1>1. permissions \in Seq(Askers) /\ Once(permissions) /\ asker \in [Askers -> Places]
  BY DEF DeskInv, DeskType, ListedOnce, Once
<1>2. /\ permissions' \in Seq(Askers) /\ Once(permissions')
      /\ ToSet(permissions') = ToSet(permissions) \ {a}
  BY <1>1, RemoveFirstListed DEF Settle
<1>3. /\ asker' = IF asker[a] = "waiting" THEN [asker EXCEPT ![a] = to] ELSE asker
      /\ UNCHANGED questions
  BY DEF Settle, Resolve
<1>4. Forward /\ asker'[a] # "waiting"
  BY <1>1, <1>3 DEF Forward, Places
<1>5. ListedOnce'
  BY <1>2 DEF ListedOnce, Once
<1>6. ListedWhileAwaited'
  BY <1>1, <1>2, <1>3 DEF DeskInv, ListedWhileAwaited
<1>7. QED
  BY <1>2, <1>4, <1>5, <1>6 DEF Listing

\* The walk of a reply: its end, or the next request that is listed.
LEMMA WalkIs ==
    ASSUME DeskInv, NEW i \in Repliers, replies[i].at # "idle",
           NEW list \in Seq(Askers), NEW rules \in SUBSET Askers, Walk(i, list, rules)
    PROVE  \/ /\ Concerned(i, list) = 0
              /\ replies' = [replies EXCEPT ![i] = Idle]
           \/ \E next \in ToSet(list), r \in ReplyType :
                  /\ next \in Askers
                  /\ r.reply = replies[i].reply /\ r.on = replies[i].on
                  /\ r.item = next /\ r.seen = replies[i].seen \cup {next}
                  /\ r.at = IF replies[i].reply = "reject" THEN "telling" ELSE "checking"
                  /\ replies' = [replies EXCEPT ![i] = r]
<1>1. CASE Concerned(i, list) = 0
  BY <1>1 DEF Walk
<1>2. CASE Concerned(i, list) # 0
  <2> DEFINE next == list[Concerned(i, list)]
             at == IF replies[i].reply = "reject" THEN "telling" ELSE "checking"
             r == [replies[i] EXCEPT !.at = at, !.item = next,
                                     !.seen = @ \cup {next}, !.rules = rules]
  <2>1. next \in ToSet(list) /\ next \in Askers
    BY <1>2, ConcernedIs
  <2>2. replies[i] \in ReplyType /\ replies \in [Repliers -> ReplyType]
    BY DEF DeskInv, DeskType
  <2>3. replies' = [replies EXCEPT ![i].at = at, ![i].item = next,
                                   ![i].seen = @ \cup {next}, ![i].rules = rules]
    BY <1>2 DEF Walk
  <2> HIDE DEF next
  <2>4. replies' = [replies EXCEPT ![i] = r]
    BY <2>2, <2>3 DEF ReplyType
  <2>5. /\ r \in ReplyType /\ r.reply = replies[i].reply /\ r.on = replies[i].on
        /\ r.item = next /\ r.seen = replies[i].seen \cup {next} /\ r.at = at
    BY <2>1, <2>2 DEF ReplyType
  <2> HIDE DEF r
  <2>6. QED
    BY <2>1, <2>4, <2>5
<1>3. QED
  BY <1>1, <1>2

LEMMA BeginKeeps ==
    ASSUME DeskInv, NEW i \in Repliers, NEW a \in Askers,
           NEW reply \in {"once", "always", "reject", "answer", "dismiss"},
           reply = "reject" => asker[a] \notin {"idle", "judged"}, Begin(i, a, reply)
    PROVE  DeskInv'
<1> DEFINE r == [Idle EXCEPT !.at = "telling", !.reply = reply, !.on = a, !.item = a]
<1>1. replies' = [replies EXCEPT ![i] = r] /\ UNCHANGED <<permissions, questions, asker, saved>>
  BY DEF Begin
<1>2. /\ r \in ReplyType /\ r.at = "telling" /\ r.reply = reply /\ r.on = a /\ r.item = a
      /\ r.seen = {}
  BY DEF ReplyType, Idle
<1>3. replies'[i] = r
  BY <1>1 DEF DeskInv, DeskType
<1> HIDE DEF r
<1>4. OnRequest(i)' /\ Sweeping(i)'
  BY <1>1, <1>2, <1>3 DEF OnRequest, Sweeping
<1>5. QED
  BY <1>1, <1>2, <1>4, NothingMoves, ReplyMoves

LEMMA UserKeeps == ASSUME DeskInv, NEW i \in Repliers, UserStep(i) PROVE DeskInv'
<1>1. ASSUME NEW a \in Askers, NEW reply \in {"once", "always", "reject"}, Reply(i, a, reply)
      PROVE  DeskInv'
  <2>1. asker[a] = "waiting"
    BY <1>1 DEF Reply, DeskInv, ListedWhileAwaited
  <2>2. QED
    BY <1>1, <2>1, BeginKeeps DEF Reply
<1>2. ASSUME NEW a \in Askers, NEW reply \in {"answer", "dismiss"}, ReplyQuestion(i, a, reply)
      PROVE  DeskInv'
  BY <1>2, BeginKeeps DEF ReplyQuestion
<1>3. QED
  BY <1>1, <1>2 DEF UserStep

\* A reply that is not a rejection goes on, or returns.
LEMMA WalkKeeps ==
    ASSUME DeskInv, NEW i \in Repliers, replies[i].at # "idle", replies[i].reply # "reject",
           Forward, Listing', saved' \subseteq Askers,
           NEW list \in Seq(Askers), NEW rules \in SUBSET Askers, Walk(i, list, rules)
    PROVE  DeskInv'
<1>1. CASE replies' = [replies EXCEPT ![i] = Idle]
  BY <1>1, ReplyEnds
<1>2. ASSUME NEW r \in ReplyType, r.item \in Askers,
             r.reply = replies[i].reply, r.on = replies[i].on,
             replies' = [replies EXCEPT ![i] = r]
      PROVE  DeskInv'
  <2>1. replies'[i] = r
    BY <1>2 DEF DeskInv, DeskType
  <2>2. replies[i].on \in Askers
    BY DEF DeskInv, RepliesOK, OnRequest
  <2>3. OnRequest(i)' /\ Sweeping(i)'
    BY <1>2, <2>1, <2>2 DEF OnRequest, Sweeping
  <2>4. QED
    BY <1>2, <2>3, ReplyMoves
<1>3. QED
  BY <1>1, <1>2, WalkIs

\* A reply that returns with a rejection has left no request of its session.
SweptBy(i) ==
    replies'[i].at = "idle" =>
        \A a \in ToSet(permissions') : SessionOf[a] # SessionOf[replies[i].on]

LEMMA RejectKeeps == ASSUME DeskInv, NEW i \in Repliers, Reject(i) PROVE DeskInv' /\ SweptBy(i)
<1> DEFINE old == replies[i].item
<1>1. /\ replies[i].at = "telling" /\ replies[i].reply = "reject"
      /\ Settle(old, "rejected") /\ Walk(i, permissions', {}) /\ saved' = saved
  BY DEF Reject, Told
<1>2. /\ old \in Askers /\ replies[i].on \in Askers /\ replies[i].seen \subseteq Askers
      /\ asker[old] \notin {"idle", "judged"} /\ saved' \subseteq Askers
      /\ \A b \in replies[i].seen \ {old} : asker[b] \notin {"idle", "judged", "waiting"}
  BY <1>1 DEF DeskInv, DeskType, RepliesOK, OnRequest, Sweeping, ReplyType
<1>3. Forward /\ Listing' /\ asker'[old] # "waiting"
  BY <1>1, <1>2, SettleKeeps
<1>4. \A b \in replies[i].seen \cup {old} : asker'[b] \notin {"idle", "judged", "waiting"}
  BY <1>2, <1>3 DEF Forward
<1>5. permissions' \in Seq(Askers) /\ \A a \in ToSet(permissions') : a \in Askers /\ asker'[a] = "waiting"
  BY <1>3 DEF Listing, ListedWhileAwaited
<1>6. CASE /\ Concerned(i, permissions') = 0
           /\ replies' = [replies EXCEPT ![i] = Idle]
  <2>1. DeskInv'
    BY <1>2, <1>3, <1>6, ReplyEnds
  <2>2. \A a \in ToSet(permissions') :
            SessionOf[a] = SessionOf[replies[i].on] => a \in replies[i].seen
    BY <1>1, <1>5, <1>6, ConcernedIs DEF Ahead
  <2>3. QED
    BY <1>4, <1>5, <2>1, <2>2 DEF SweptBy
<1>7. ASSUME NEW next \in ToSet(permissions'), NEW r \in ReplyType, next \in Askers,
             r.reply = replies[i].reply, r.on = replies[i].on, r.item = next,
             r.seen = replies[i].seen \cup {next}, r.at = "telling",
             replies' = [replies EXCEPT ![i] = r]
      PROVE  DeskInv' /\ SweptBy(i)
  <2>1. replies'[i] = r
    BY <1>7 DEF DeskInv, DeskType
  <2>2. OnRequest(i)'
    BY <1>2, <1>7, <2>1 DEF OnRequest
  <2>3. asker'[next] = "waiting"
    BY <1>5, <1>7
  <2>4. Sweeping(i)'
    BY <1>4, <1>7, <2>1, <2>3 DEF Sweeping
  <2>5. DeskInv'
    BY <1>2, <1>3, <1>7, <2>2, <2>4, ReplyMoves
  <2>6. QED
    BY <1>7, <2>1, <2>5 DEF SweptBy
<1>8. QED
  BY <1>1, <1>5, <1>6, <1>7, WalkIs

LEMMA AllowKeeps == ASSUME DeskInv, NEW i \in Repliers, Allow(i) PROVE DeskInv'
<1>1. /\ replies[i].at = "telling" /\ replies[i].reply # "reject"
      /\ Settle(replies[i].item, "allowed") /\ saved' = saved
  BY DEF Allow, Told
<1>2. /\ replies[i].item \in Askers /\ replies[i].rules \subseteq Askers
      /\ saved' \subseteq Askers
  BY <1>1 DEF DeskInv, DeskType, RepliesOK, OnRequest, ReplyType
<1>3. Forward /\ Listing'
  BY <1>1, <1>2, SettleKeeps
<1>4. CASE Walk(i, permissions', replies[i].rules)
  BY <1>1, <1>2, <1>3, <1>4, WalkKeeps DEF Listing
<1>5. CASE replies' = [replies EXCEPT ![i] = Idle]
  BY <1>2, <1>3, <1>5, ReplyEnds
<1>6. QED
  BY <1>4, <1>5 DEF Allow

LEMMA RecallKeeps == ASSUME DeskInv, NEW i \in Repliers, Recall(i) PROVE DeskInv'
<1>1. /\ replies[i].at = "recalling" /\ Walk(i, permissions, saved)
      /\ UNCHANGED <<permissions, questions, asker, saved>>
  BY DEF Recall
<1>2. /\ replies[i].reply # "reject" /\ permissions \in Seq(Askers) /\ saved \subseteq Askers
  BY <1>1 DEF DeskInv, DeskType, RepliesOK, Sweeping
<1>3. QED
  BY <1>1, <1>2, NothingMoves, WalkKeeps

\* Where a reply that is not a rejection stands is of no account.
LEMMA PlaceKeeps ==
    ASSUME DeskInv, NEW i \in Repliers, replies[i].at # "idle", replies[i].reply # "reject",
           NEW at \in {"telling", "saving", "recalling"},
           replies' = [replies EXCEPT ![i].at = at],
           Forward, Listing', saved' \subseteq Askers
    PROVE  DeskInv'
<1> DEFINE r == [replies[i] EXCEPT !.at = at]
<1>1. replies[i] \in ReplyType /\ replies \in [Repliers -> ReplyType]
  BY DEF DeskInv, DeskType
<1>2. /\ r \in ReplyType /\ r.at = at /\ r.reply = replies[i].reply
      /\ r.on = replies[i].on /\ r.item = replies[i].item
  BY <1>1 DEF ReplyType
<1>3. replies' = [replies EXCEPT ![i] = r]
  OBVIOUS
<1> HIDE DEF r
<1>4. replies'[i] = r
  BY <1>1, <1>3
<1>5. OnRequest(i)' /\ Sweeping(i)'
  BY <1>2, <1>4 DEF DeskInv, RepliesOK, OnRequest, Sweeping
<1>6. QED
  BY <1>2, <1>3, <1>5, ReplyMoves

LEMMA KeepKeeps == ASSUME DeskInv, NEW i \in Repliers, Keep(i) PROVE DeskInv'
<1>1. /\ replies[i].at = "telling" /\ replies[i].reply = "always"
      /\ replies' = [replies EXCEPT ![i].at = "saving"]
      /\ UNCHANGED <<permissions, questions, asker, saved>>
  BY DEF Keep, Told
<1>2. QED
  BY <1>1, NothingMoves, PlaceKeeps

LEMMA SaveKeeps == ASSUME DeskInv, NEW i \in Repliers, Save(i) PROVE DeskInv'
<1>1. /\ replies[i].at = "saving" /\ saved' = saved \cup {replies[i].on}
      /\ Settle(replies[i].on, "allowed")
      /\ replies' = [replies EXCEPT ![i].at = "recalling"]
  BY DEF Save
<1>2. /\ replies[i].on \in Askers /\ replies[i].reply # "reject" /\ saved \subseteq Askers
  BY <1>1 DEF DeskInv, DeskType, RepliesOK, OnRequest, Sweeping
<1>3. Forward /\ Listing'
  BY <1>1, <1>2, SettleKeeps
<1>4. QED
  BY <1>1, <1>2, <1>3, PlaceKeeps

LEMMA CheckKeeps == ASSUME DeskInv, NEW i \in Repliers, Check(i) PROVE DeskInv'
<1>1. /\ replies[i].at = "checking"
      /\ UNCHANGED <<permissions, questions, asker, saved>>
  BY DEF Check
<1>2. /\ replies[i].reply # "reject" /\ permissions \in Seq(Askers)
      /\ replies[i].rules \subseteq Askers
  BY <1>1 DEF DeskInv, DeskType, RepliesOK, Sweeping, ReplyType
<1>3. CASE replies' = [replies EXCEPT ![i].at = "telling"]
  BY <1>1, <1>2, <1>3, NothingMoves, PlaceKeeps
<1>4. CASE Walk(i, permissions, replies[i].rules)
  BY <1>1, <1>2, <1>4, NothingMoves, WalkKeeps
<1>5. QED
  BY <1>3, <1>4 DEF Check

LEMMA SettleQuestionKeeps == ASSUME DeskInv, NEW i \in Repliers, SettleQuestion(i) PROVE DeskInv'
<1> DEFINE a == replies[i].on
<1>1. /\ replies[i].at = "telling"
      /\ \E to \in {"answered", "unanswered"} :
             asker' = IF asker[a] = "questioning" THEN [asker EXCEPT ![a] = to] ELSE asker
      /\ questions' = questions \ {a}
      /\ replies' = [replies EXCEPT ![i] = Idle]
      /\ UNCHANGED <<permissions, saved>>
  BY DEF SettleQuestion, Told, Resolve
<1>2. a \in Askers /\ asker \in [Askers -> Places] /\ saved \subseteq Askers
  BY <1>1 DEF DeskInv, DeskType, RepliesOK, OnRequest
<1>3. Forward
  BY <1>1, <1>2 DEF Forward, Places
<1>4. Listing'
  BY <1>1, <1>2 DEF DeskInv, DeskType, Listing, ListedOnce, ListedWhileAwaited
<1>5. QED
  BY <1>1, <1>2, <1>3, <1>4, ReplyEnds

LEMMA DieKeeps == ASSUME DeskInv, NEW i \in Repliers, Die(i) PROVE DeskInv'
BY NothingMoves, ReplyEnds DEF Die

LEMMA ReplyKeeps == ASSUME DeskInv, NEW i \in Repliers, ReplyStep(i) PROVE DeskInv'
BY RejectKeeps, AllowKeeps, KeepKeeps, SaveKeeps, RecallKeeps, CheckKeeps,
   SettleQuestionKeeps, DieKeeps DEF ReplyStep

LEMMA AskerKeeps == ASSUME DeskInv, NEW a \in Askers, AskerStep(a) PROVE DeskInv'
BY JudgeKeeps, CreateKeeps, AskKeeps, NoticeKeeps DEF AskerStep

LEMMA DeskStays == ASSUME DeskInv, UNCHANGED desk PROVE DeskInv'
BY DEF desk, DeskInv, DeskType, ListedOnce, ListedWhileAwaited, RepliesOK, OnRequest, Sweeping

-----------------------------------------------------------------------------
(* The desk on its own.                                                    *)
LEMMA DeskStep == ASSUME DeskInv, DeskNext PROVE DeskInv'
BY AskerKeeps, LeaveKeeps, UserKeeps, ReplyKeeps, FinalizeKeeps DEF DeskNext

LEMMA DeskStarts == DeskInit => DeskInv
<1> SUFFICES ASSUME DeskInit PROVE DeskInv
  OBVIOUS
<1>1. DeskType
  BY IdleReply DEF DeskInit, DeskType, Places
<1>2. ListedOnce /\ ListedWhileAwaited
  BY DEF DeskInit, ListedOnce, ListedWhileAwaited, ToSet
<1>3. RepliesOK
  BY IdleReply DEF DeskInit, RepliesOK, OnRequest, Sweeping
<1>4. QED
  BY <1>1, <1>2, <1>3 DEF DeskInv

LEMMA DeskInvariance == Desk => []DeskInv
<1>1. DeskInv /\ [DeskNext]_desk => DeskInv'
  BY DeskStep, DeskStays
<1>2. QED
  BY DeskStarts, <1>1, PTL DEF Desk

\* Requests that are listed are awaited and the other way round (permission.ts,
\* question.ts): for any askers, repliers, sessions and rules.
THEOREM RequestsAreListed == Desk => []ListedWhileAwaited
<1>1. DeskInv => ListedWhileAwaited
  BY DEF DeskInv
<1>2. QED
  BY DeskInvariance, <1>1, PTL

\* Others do not touch a reply.
LEMMA OthersReply ==
    ASSUME DeskInv, NEW i \in Repliers, NEW j \in Repliers \ {i}, UserStep(j) \/ ReplyStep(j)
    PROVE  replies'[i] = replies[i]
<1>1. replies \in [Repliers -> ReplyType]
  BY DEF DeskInv, DeskType
<1>2. ASSUME UserStep(j) PROVE replies'[i] = replies[i]
  <2>1. PICK a \in Askers, reply \in {"once", "always", "reject", "answer", "dismiss"} :
            Begin(j, a, reply)
    BY <1>2 DEF UserStep, Reply, ReplyQuestion
  <2>2. QED
    BY <1>1, <2>1 DEF Begin
<1>3. ASSUME NEW list, NEW rules, Walk(j, list, rules) PROVE replies'[i] = replies[i]
  BY <1>1, <1>3 DEF Walk
<1>4. CASE Reject(j)
  BY <1>3, <1>4 DEF Reject
<1>5. CASE Allow(j)
  BY <1>1, <1>3, <1>5 DEF Allow
<1>6. CASE Keep(j) \/ Save(j) \/ SettleQuestion(j) \/ Die(j)
  BY <1>1, <1>6 DEF Keep, Save, SettleQuestion, Die
<1>7. CASE Recall(j)
  BY <1>3, <1>7 DEF Recall
<1>8. CASE Check(j)
  BY <1>1, <1>3, <1>8 DEF Check
<1>9. QED
  BY <1>2, <1>4, <1>5, <1>6, <1>7, <1>8 DEF ReplyStep

\* A rejection returns with its own step.
LEMMA ReturnSweeps ==
    ASSUME DeskInv, NEW i \in Repliers, Returns(i), replies[i].reply = "reject",
           NEW j \in Repliers, UserStep(j) \/ ReplyStep(j)
    PROVE  SweptBy(i)
<1>1. replies[i].at = "telling" /\ replies'[i] # replies[i] /\ ~Die(i)
  BY DEF Returns, DeskInv, RepliesOK, Sweeping
<1>2. j = i
  BY <1>1, OthersReply
<1>3. ReplyStep(i)
  <2>1. replies[i] # Idle
    BY <1>1, IdleReply
  <2>2. ~UserStep(i)
    <3>1. \A a, reply : ~Begin(i, a, reply)
      BY <2>1 DEF Begin
    <3>2. QED
      BY <3>1 DEF UserStep, Reply, ReplyQuestion
  <2>3. UserStep(i) \/ ReplyStep(i)
    BY <1>2
  <2>4. QED
    BY <2>2, <2>3
<1>4. Reject(i)
  <2>1. ~Told(i, "once") /\ ~Told(i, "always") /\ ~Told(i, "answer") /\ ~Told(i, "dismiss")
    BY DEF Told
  <2>2. /\ ~Keep(i) /\ ~Save(i) /\ ~Recall(i) /\ ~Check(i)
        /\ ~Allow(i) /\ ~SettleQuestion(i)
    BY <1>1, <2>1 DEF Keep, Save, Recall, Check, Allow, SettleQuestion
  <2>3. Reject(i) \/ Allow(i) \/ Keep(i) \/ Save(i) \/ Recall(i) \/ Check(i)
        \/ SettleQuestion(i) \/ Die(i)
    BY <1>3 DEF ReplyStep
  <2>4. QED
    BY <1>1, <2>1, <2>2, <2>3
<1>5. QED
  BY <1>4, RejectKeeps

\* A rejection does not return before it has settled all requests of its session
\* (permission.ts, reply): those that came while it was under way as well.
THEOREM RejectionsSweep == Desk => RejectionSweepsTheSession
<1> DEFINE Swept == \A i \in Repliers : Returns(i) /\ replies[i].reply = "reject" =>
                        \A a \in ToSet(permissions') : SessionOf[a] # SessionOf[replies[i].on]
<1>1. ASSUME DeskInv, [DeskNext]_desk PROVE [Swept]_desk
  <2> SUFFICES ASSUME DeskNext, NEW i \in Repliers, Returns(i), replies[i].reply = "reject"
               PROVE  \A a \in ToSet(permissions') : SessionOf[a] # SessionOf[replies[i].on]
    BY <1>1
  <2>1. replies' # replies /\ replies'[i].at = "idle"
    BY DEF Returns
  <2>2. PICK j \in Repliers : UserStep(j) \/ ReplyStep(j)
    BY <2>1 DEF DeskNext, AskerStep, Judge, Create, Ask, Notice, Leave, Finalize
  <2>3. SweptBy(i)
    BY <1>1, <2>2, ReturnSweeps
  <2>4. QED
    BY <2>1, <2>3 DEF SweptBy
<1>2. QED
  BY DeskInvariance, <1>1, PTL DEF Desk, RejectionSweepsTheSession

-----------------------------------------------------------------------------
(* The desk inside a turn.                                                 *)

\* A tool ends with its place at the desk, not before it was answered.
LEMMA EndToolKeepsDesk == ASSUME DeskInv, NEW c \in Calls, EndTool(c) PROVE DeskInv'
<1>1. /\ asker[c] \in {"refused", "dismissed", "through", "informed"}
      /\ asker' = [asker EXCEPT ![c] = IF @ = "dismissed" THEN @ ELSE "gone"]
      /\ UNCHANGED <<permissions, questions, saved, replies>>
  BY DEF EndTool
<1>2. c \in Askers /\ asker \in [Askers -> Places] /\ saved \subseteq Askers
  BY DEF DeskInv, DeskType, Calls
<1>3. Forward
  BY <1>1, <1>2 DEF Forward, Places
<1>4. Listing'
  BY <1>1, <1>2 DEF DeskInv, DeskType, Listing, ListedOnce, ListedWhileAwaited
<1>5. QED
  BY <1>1, <1>2, <1>3, <1>4, RepliesStay

LEMMA CrashKeepsDesk == ASSUME DeskInv, Crash PROVE DeskInv'
<1>1. /\ permissions' = <<>> /\ questions' = {} /\ saved' = saved
      /\ asker' = [a \in Askers |-> "gone"] /\ replies' = [i \in Repliers |-> Idle]
  BY DEF Crash
<1>2. DeskType'
  BY <1>1, IdleReply DEF DeskInv, DeskType, Places
<1>3. ListedOnce' /\ ListedWhileAwaited'
  BY <1>1 DEF ListedOnce, ListedWhileAwaited, ToSet
<1>4. RepliesOK'
  BY <1>1, IdleReply DEF RepliesOK, OnRequest, Sweeping
<1>5. QED
  BY <1>2, <1>3, <1>4 DEF DeskInv

LEMMA DeskInTurn == ASSUME DeskInv, [Next]_vars PROVE DeskInv'
<1>1. CASE UNCHANGED desk
  BY <1>1, DeskStays
<1>2. CASE FiberStep
  BY <1>1, <1>2, AskerKeeps, EndToolKeepsDesk, LeaveKeeps
     DEF FiberStep, AtDesk, PublishResult, InterruptFiber, Calls
<1>3. CASE FromUser
  BY <1>3, UserKeeps, ReplyKeeps DEF FromUser
<1>4. CASE Crash
  BY <1>4, CrashKeepsDesk
<1>5. CASE FromStream
  BY <1>1, <1>5 DEF FromStream, CallTool, CallDisabledTool, CallHosted, HostedResult,
     HostedDuplicate, StartInput, FinishStep, ProviderError, StreamEnds
<1>6. CASE TurnStep
  BY <1>1, <1>6 DEF TurnStep, Streamed, Cleared, Joined, JoinFails, JoinDismissed, Dismissed,
     JoinInterrupted, Halted, Close, Finish
<1>7. CASE Recover \/ Interrupt \/ FailInterruptedTools
  BY <1>1, <1>7 DEF Recover, Interrupt, FailInterruptedTools
<1>8. CASE UNCHANGED vars
  BY <1>1, <1>8 DEF vars
<1>9. QED
  BY <1>2, <1>3, <1>4, <1>5, <1>6, <1>7, <1>8 DEF Next

LEMMA DeskInTurns == Spec => []DeskInv
<1>1. Init => DeskInv
  BY DeskStarts DEF Init
<1>2. DeskInv /\ [Next]_vars => DeskInv'
  BY DeskInTurn
<1>3. QED
  BY <1>1, <1>2, PTL DEF Spec

\* Inside a turn as well, where tools end, fibers are interrupted and the process
\* crashes, who waits is listed and what is listed is waited for.
THEOREM TurnsKeepTheDesk == Spec => []ListedWhileAwaited
<1>1. DeskInv => ListedWhileAwaited
  BY DEF DeskInv
<1>2. QED
  BY DeskInTurns, <1>1, PTL

\* Inside a turn a rejection sweeps its session as well.
THEOREM TurnsSweep == Spec => RejectionSweepsTheSession
<1> DEFINE Swept == \A i \in Repliers : Returns(i) /\ replies[i].reply = "reject" =>
                        \A a \in ToSet(permissions') : SessionOf[a] # SessionOf[replies[i].on]
<1>1. ASSUME DeskInv, [Next]_vars PROVE [Swept]_desk
  <2> SUFFICES ASSUME [Next]_vars, NEW i \in Repliers, Returns(i), replies[i].reply = "reject"
               PROVE  \A a \in ToSet(permissions') : SessionOf[a] # SessionOf[replies[i].on]
    BY <1>1
  <2>1. replies' # replies /\ replies'[i].at = "idle"
    BY DEF Returns
  <2>2. CASE Crash
    BY <2>2 DEF Crash, ToSet
  <2>3. CASE FromUser
    <3>1. PICK j \in Repliers : UserStep(j) \/ ReplyStep(j)
      BY <2>3 DEF FromUser
    <3>2. SweptBy(i)
      BY <1>1, <3>1, ReturnSweeps
    <3>3. QED
      BY <2>1, <3>2 DEF SweptBy
  <2>4. ~FiberStep
    BY <2>1 DEF FiberStep, AtDesk, AskerStep, Judge, Create, Ask, Notice, EndTool, PublishResult,
       InterruptFiber, Leave, desk
  <2>5. ~FromStream
    BY <2>1 DEF desk, FromStream, CallTool, CallDisabledTool, CallHosted, HostedResult,
       HostedDuplicate, StartInput, FinishStep, ProviderError, StreamEnds
  <2>6. ~TurnStep
    BY <2>1 DEF desk, TurnStep, Streamed, Cleared, Joined, JoinFails, JoinDismissed, Dismissed,
       JoinInterrupted, Halted, Close, Finish
  <2>7. ~(Recover \/ Interrupt \/ FailInterruptedTools) /\ vars' # vars
    BY <2>1 DEF desk, vars, Recover, Interrupt, FailInterruptedTools
  <2>8. QED
    BY <2>2, <2>3, <2>4, <2>5, <2>6, <2>7 DEF Next
<1>2. QED
  BY DeskInTurns, <1>1, PTL DEF Spec, RejectionSweepsTheSession

-----------------------------------------------------------------------------
(* The stream.                                                             *)

\* What settles the open calls leaves all others, and no call has two settlements.
LEMMA FailUnsettledIs ==
    ASSUME NEW calls, NEW known, log \in [All -> {0, 1}], FailUnsettled(calls, known)
    PROVE  /\ log' \in [All -> {0, 1}]
           /\ \A c \in All : Settled(c) => Settled(c)'
           /\ \A c \in All : c \in calls /\ known[c] # "none" => Settled(c)'
           /\ \A c \in All : c \notin calls => log'[c] = log[c]
BY DEF FailUnsettled, Settled

LEMMA RecordIs ==
    ASSUME NEW c \in All, log \in [All -> {0, 1}], Record(c), ~Settled(c)
    PROVE  /\ log' \in [All -> {0, 1}] /\ Settled(c)'
           /\ \A d \in All : d # c => log'[d] = log[d]
BY DEF Record, Settled

LEMMA CallsAre == Calls \subseteq All /\ Hosted \subseteq All /\ Calls \cap Hosted = {}
BY HostedAssumption DEF Calls, All

LEMMA StartInputKeeps == ASSUME TurnInv, NEW c \in All, StartInput(c) PROVE TurnInv'
<1>1. TurnType'
  BY DEF TurnInv, TurnType, StartInput
<1>2. CallsOK'
  BY CallsAre DEF TurnInv, TurnType, CallsOK, CallOK, StartInput, Streaming, Undisturbed, Settled
<1>3. HostedOK' /\ StartedOK' /\ StreamOK' /\ ClosingOK'
  BY DEF TurnInv, TurnType, StartInput, Streaming, HostedOK, StartedOK, StreamOK, ClosingOK, Past
<1>4. QED
  BY <1>1, <1>2, <1>3 DEF TurnInv

LEMMA CallToolKeeps == ASSUME TurnInv, NEW c \in Calls, CallTool(c) PROVE TurnInv'
<1>1. TurnType'
  BY CallsAre DEF TurnInv, TurnType, CallTool, Called, Fibers
<1>2. CallsOK'
  BY CallsAre DEF TurnInv, TurnType, CallsOK, CallOK, CallTool, Called, Streaming, Undisturbed,
     Settled, Past
<1>3. HostedOK' /\ StartedOK' /\ StreamOK' /\ ClosingOK'
  BY DEF TurnInv, TurnType, CallTool, Called, Streaming, HostedOK, StartedOK, StreamOK,
     ClosingOK, Past
<1>4. QED
  BY <1>1, <1>2, <1>3 DEF TurnInv

LEMMA CallDisabledToolKeeps ==
    ASSUME TurnInv, NEW c \in Calls, CallDisabledTool(c) PROVE TurnInv'
<1>1. /\ turn.at = "streaming" /\ turn.last /\ tools' = [tools EXCEPT ![c] = "called"]
      /\ tools[c] \in {"none", "input"} /\ step' = step \cup {"started"}
      /\ FailUnsettled(All, tools') /\ UNCHANGED <<fiber, failure, deaf, interrupted, turn>>
  BY DEF CallDisabledTool, Called, Streaming
<1>2. /\ log \in [All -> {0, 1}] /\ tools \in [All -> {"none", "input", "called"}]
  BY DEF TurnInv, TurnType
<1>3. /\ log' \in [All -> {0, 1}]
      /\ \A d \in All : (Settled(d) => Settled(d)') /\ (tools'[d] # "none" => Settled(d)')
  BY <1>1, <1>2, FailUnsettledIs
<1>4. TurnType'
  BY <1>1, <1>2, <1>3, CallsAre DEF TurnInv, TurnType
<1>5. \A d \in Calls : fiber'[d] = "none"
  BY <1>1 DEF TurnInv, CallsOK, CallOK, Past
<1>6. CallsOK'
  BY <1>1, <1>2, <1>3, <1>5, CallsAre DEF TurnInv, CallsOK, CallOK, Undisturbed, Past
<1>7. HostedOK' /\ StartedOK' /\ StreamOK' /\ ClosingOK'
  BY <1>1, <1>2 DEF TurnInv, HostedOK, StartedOK, StreamOK, ClosingOK, Past
<1>8. QED
  BY <1>4, <1>6, <1>7 DEF TurnInv

LEMMA CallHostedKeeps == ASSUME TurnInv, NEW h \in Hosted, CallHosted(h) PROVE TurnInv'
<1>1. TurnType'
  BY CallsAre DEF TurnInv, TurnType, CallHosted, Called
<1>2. CallsOK'
  BY CallsAre DEF TurnInv, TurnType, CallsOK, CallOK, CallHosted, Called, Streaming,
     Undisturbed, Settled
<1>3. HostedOK' /\ StartedOK' /\ StreamOK' /\ ClosingOK'
  BY DEF TurnInv, TurnType, CallHosted, Called, Streaming, HostedOK, StartedOK, StreamOK,
     ClosingOK, Past
<1>4. QED
  BY <1>1, <1>2, <1>3 DEF TurnInv

LEMMA HostedResultKeeps == ASSUME TurnInv, NEW h \in Hosted, HostedResult(h) PROVE TurnInv'
<1>1. /\ turn.at = "streaming" /\ Record(h) /\ ~Settled(h)
      /\ UNCHANGED <<tools, fiber, failure, step, deaf, interrupted, turn>>
  BY DEF HostedResult, Streaming
<1>2. /\ log' \in [All -> {0, 1}]
      /\ \A d \in Calls : log'[d] = log[d]
  BY <1>1, CallsAre, RecordIs DEF TurnInv, TurnType
<1>3. TurnType'
  BY <1>1, <1>2 DEF TurnInv, TurnType
<1>4. CallsOK'
  BY <1>1, <1>2 DEF TurnInv, CallsOK, CallOK, Undisturbed, Settled
<1>5. HostedOK' /\ StartedOK' /\ StreamOK' /\ ClosingOK'
  BY <1>1 DEF TurnInv, HostedOK, StartedOK, StreamOK, ClosingOK, Past
<1>6. QED
  BY <1>3, <1>4, <1>5 DEF TurnInv

LEMMA HostedDuplicateKeeps == ASSUME TurnInv, NEW h \in Hosted, HostedDuplicate(h) PROVE TurnInv'
<1>1. TurnType'
  BY DEF TurnInv, TurnType, HostedDuplicate
<1>2. CallsOK'
  BY DEF TurnInv, TurnType, CallsOK, CallOK, HostedDuplicate, Streaming, Undisturbed, Settled,
     Past
<1>3. HostedOK' /\ StartedOK' /\ StreamOK' /\ ClosingOK'
  BY DEF TurnInv, TurnType, HostedDuplicate, Streaming, HostedOK, StartedOK, StreamOK,
     ClosingOK, Past
<1>4. QED
  BY <1>1, <1>2, <1>3 DEF TurnInv

LEMMA FinishStepKeeps == ASSUME TurnInv, FinishStep PROVE TurnInv'
<1>1. TurnType'
  BY DEF TurnInv, TurnType, FinishStep
<1>2. CallsOK'
  BY DEF TurnInv, CallsOK, CallOK, FinishStep, Undisturbed, Settled
<1>3. HostedOK' /\ StartedOK' /\ StreamOK' /\ ClosingOK'
  BY DEF TurnInv, FinishStep, Streaming, HostedOK, StartedOK, StreamOK, ClosingOK, Past, Settled
<1>4. QED
  BY <1>1, <1>2, <1>3 DEF TurnInv

LEMMA ProviderErrorKeeps == ASSUME TurnInv, ProviderError PROVE TurnInv'
<1>1. TurnType'
  <2>1. /\ deaf' \in {"overflow", "provider"}
        /\ step' \subseteq step \cup {"started", "failed"}
        /\ UNCHANGED <<tools, log, fiber, failure, interrupted, turn>>
    BY DEF ProviderError, FailAssistant
  <2>2. step' \subseteq {"started", "failed", "finished", "ended"}
    BY <2>1 DEF TurnInv, TurnType
  <2>3. QED
    BY <2>1, <2>2 DEF TurnInv, TurnType
<1>2. CallsOK'
  BY DEF TurnInv, CallsOK, CallOK, ProviderError, Undisturbed, Settled
<1>3. HostedOK' /\ StartedOK' /\ StreamOK' /\ ClosingOK'
  BY DEF TurnInv, ProviderError, FailAssistant, Streaming, HostedOK, StartedOK, StreamOK,
     ClosingOK, Past
<1>4. QED
  BY <1>1, <1>2, <1>3 DEF TurnInv

LEMMA StreamEndsKeeps ==
    ASSUME TurnInv, NEW stream \in {"success", "llm", "overflow", "died"}, StreamEnds(stream)
    PROVE  TurnInv'
<1>1. TurnType'
  BY DEF TurnInv, TurnType, StreamEnds
<1>2. CallsOK'
  <2> SUFFICES ASSUME NEW c \in Calls PROVE CallOK(c)'
    BY DEF CallsOK
  <2>1. CallOK(c) /\ UNCHANGED <<tools, log, fiber, failure>>
    BY DEF TurnInv, CallsOK, StreamEnds
  <2>2. /\ turn.at \notin Past /\ turn'.at \notin Past \cup {"streaming"}
        /\ turn'.last = turn.last /\ (Undisturbed' => Undisturbed)
    BY DEF TurnInv, TurnType, StreamEnds, Undisturbed, Past
  <2>3. QED
    BY <2>1, <2>2 DEF CallOK, Settled
<1>3. HostedOK' /\ StartedOK' /\ StreamOK' /\ ClosingOK'
  BY DEF TurnInv, TurnType, StreamEnds, Overflowed, HostedOK, StartedOK, StreamOK, ClosingOK,
     Past
<1>4. QED
  BY <1>1, <1>2, <1>3 DEF TurnInv

LEMMA StreamKeeps == ASSUME TurnInv, FromStream PROVE TurnInv'
BY CallToolKeeps, CallDisabledToolKeeps, CallHostedKeeps, HostedResultKeeps,
   HostedDuplicateKeeps, StartInputKeeps, FinishStepKeeps, ProviderErrorKeeps, StreamEndsKeeps
   DEF FromStream

-----------------------------------------------------------------------------
(* What comes after the stream.                                            *)

\* A turn of which nothing was said has nothing to settle.
LEMMA NothingWasCalled ==
    ASSUME TurnInv, "started" \notin step, turn.at \notin Past
    PROVE  \A c \in All : tools[c] # "called"
BY DEF TurnInv, StartedOK

LEMMA RecoverKeeps == ASSUME TurnInv, Recover PROVE TurnInv'
<1>1. TurnType'
  BY DEF TurnInv, TurnType, Recover, TurnAt
<1>2. CallsOK'
  <2> SUFFICES ASSUME NEW c \in Calls PROVE CallOK(c)'
    BY DEF CallsOK
  <2>1. CallOK(c) /\ UNCHANGED <<tools, log, fiber, failure>>
    BY DEF TurnInv, CallsOK, Recover
  <2>2. /\ turn.at \notin Past /\ turn'.at \notin Past \cup {"streaming"}
        /\ turn'.last = turn.last /\ (Undisturbed' => Undisturbed)
    BY DEF TurnInv, TurnType, Recover, TurnAt, Undisturbed, Past
  <2>3. QED
    BY <2>1, <2>2 DEF CallOK, Settled
<1>3. \A c \in All : tools'[c] # "called"
  BY NothingWasCalled DEF Recover, TurnInv, StartedOK, Past
<1>4. HostedOK' /\ StartedOK' /\ StreamOK' /\ ClosingOK'
  BY <1>3 DEF TurnInv, TurnType, Recover, TurnAt, HostedOK, StartedOK, StreamOK, ClosingOK, Past
<1>5. QED
  BY <1>1, <1>2, <1>4 DEF TurnInv

LEMMA InterruptKeeps == ASSUME TurnInv, Interrupt PROVE TurnInv'
<1>1. TurnType'
  BY DEF TurnInv, TurnType, Interrupt
<1>2. CallsOK'
  <2> SUFFICES ASSUME NEW c \in Calls PROVE CallOK(c)'
    BY DEF CallsOK
  <2>1. CallOK(c) /\ UNCHANGED <<tools, log, fiber, failure>>
    BY DEF TurnInv, CallsOK, Interrupt
  <2>2. /\ turn.at \notin Past /\ turn'.at \notin Past \cup {"streaming"}
        /\ turn'.last = turn.last /\ (Undisturbed' => Undisturbed)
    BY DEF TurnInv, TurnType, Interrupt, Undisturbed, Past
  <2>3. QED
    BY <2>1, <2>2 DEF CallOK, Settled
<1>3. CASE /\ turn.at = "recovering" \/ (turn.at = "streaming" /\ Overflowed("open"))
           /\ turn' = [turn EXCEPT !.at = "closing", !.outcome = "interrupted"]
  <2>1. \A c \in All : tools'[c] # "called"
    BY <1>3, NothingWasCalled DEF Interrupt, Overflowed, TurnInv, StartedOK, Past
  <2>2. QED
    BY <1>1, <1>2, <1>3, <2>1
       DEF TurnInv, TurnType, Interrupt, HostedOK, StartedOK, StreamOK, ClosingOK, Past
<1>4. CASE /\ turn.at = "streaming"
           /\ turn' = [turn EXCEPT !.at = "streamed", !.stream = "interrupted"]
  BY <1>1, <1>2, <1>4
     DEF TurnInv, TurnType, Interrupt, HostedOK, StartedOK, StreamOK, ClosingOK, Past
<1>5. CASE turn.at \in {"streamed", "joining"} /\ UNCHANGED turn
  BY <1>1, <1>2, <1>5
     DEF TurnInv, TurnType, Interrupt, HostedOK, StartedOK, StreamOK, ClosingOK, Past, Settled
<1>6. QED
  BY <1>3, <1>4, <1>5 DEF Interrupt

\* The calls of a provider that failed are settled, no local call is touched.
LEMMA StreamedKeeps == ASSUME TurnInv, Streamed PROVE TurnInv'
<1> DEFINE late == deaf = "overflow"
           fails == turn.stream \in {"llm", "overflow"} /\ deaf = "none"
<1>1. /\ turn.at = "streamed" /\ deaf' = (IF late THEN "provider" ELSE deaf)
      /\ step' = (IF late \/ fails THEN FailAssistant(step) ELSE step)
      /\ IF fails THEN FailUnsettled(HostedCalls, tools) ELSE UNCHANGED log
      /\ turn' = [turn EXCEPT !.at = IF turn.stream = "interrupted" THEN "clearing" ELSE "joining"]
      /\ UNCHANGED <<tools, fiber, failure, interrupted>>
  BY DEF Streamed, TurnAt
<1>2. log \in [All -> {0, 1}]
  BY DEF TurnInv, TurnType
<1>3. /\ log' \in [All -> {0, 1}]
      /\ \A c \in Calls : log'[c] = log[c]
      /\ fails => \A h \in Hosted : tools[h] = "called" => Settled(h)'
  <2>1. CASE fails
    <3>1. HostedCalls \subseteq Hosted /\ \A h \in Hosted : tools[h] = "called" => h \in HostedCalls
      BY DEF HostedCalls
    <3>2. \A h \in HostedCalls : tools[h] # "none"
      BY DEF HostedCalls
    <3>3. QED
      BY <1>1, <1>2, <2>1, <3>1, <3>2, CallsAre, FailUnsettledIs
  <2>2. CASE ~fails
    BY <1>1, <1>2, <2>2
  <2>3. QED
    BY <2>1, <2>2
<1>4. TurnType'
  BY <1>1, <1>3 DEF TurnInv, TurnType, FailAssistant
<1>5. CallsOK'
  BY <1>1, <1>3 DEF TurnInv, TurnType, CallsOK, CallOK, Undisturbed, Settled, Past
<1>6. HostedOK'
  BY <1>1, <1>3 DEF TurnInv, TurnType, HostedOK
<1>7. StartedOK' /\ StreamOK' /\ ClosingOK'
  BY <1>1 DEF TurnInv, TurnType, FailAssistant, StartedOK, StreamOK, ClosingOK, Past
<1>8. QED
  BY <1>4, <1>5, <1>6, <1>7 DEF TurnInv

LEMMA ClearedKeeps == ASSUME TurnInv, Cleared PROVE TurnInv'
<1>1. TurnType'
  BY DEF TurnInv, TurnType, Cleared, TurnAt
<1>2. CallsOK'
  BY DEF TurnInv, TurnType, CallsOK, CallOK, Cleared, TurnAt, Undisturbed, Settled, Past,
     StreamOK
<1>3. HostedOK' /\ StartedOK' /\ StreamOK' /\ ClosingOK'
  BY DEF TurnInv, TurnType, Cleared, TurnAt, HostedOK, StartedOK, StreamOK, ClosingOK, Past
<1>4. QED
  BY <1>1, <1>2, <1>3 DEF TurnInv

-----------------------------------------------------------------------------
(* The end of the turn.                                                    *)
LEMMA DismissesKeep == ASSUME TurnInv, JoinDismissed \/ JoinInterrupted PROVE TurnInv'
<1>1. /\ turn.at = "joining" /\ UNCHANGED <<tools, log, fiber, failure, step, deaf, interrupted>>
      /\ \E at \in {"dismissing", "halting"} : turn' = [turn EXCEPT !.at = at]
  BY DEF JoinDismissed, JoinInterrupted, TurnAt
<1>2. TurnType'
  BY <1>1 DEF TurnInv, TurnType
<1>3. CallsOK'
  BY <1>1 DEF TurnInv, TurnType, CallsOK, CallOK, Undisturbed, Settled, Past
<1>4. HostedOK' /\ StartedOK' /\ StreamOK' /\ ClosingOK'
  BY <1>1 DEF TurnInv, TurnType, HostedOK, StartedOK, StreamOK, ClosingOK, Past
<1>5. QED
  BY <1>2, <1>3, <1>4 DEF TurnInv

\* A turn that goes on to close: what was called must be settled, and what a fiber did
\* not settle itself is the work of a failure.
LEMMA ClosingKeeps ==
    ASSUME TurnInv, turn.at \in {"joining", "dismissing", "halting"},
           UNCHANGED <<tools, fiber, failure, deaf, interrupted>>,
           step' \subseteq {"started", "failed", "finished", "ended"}, step \subseteq step',
           NEW outcome \in {"died", "failed", "interrupted", "continue", "stop"},
           turn' = [turn EXCEPT !.at = "closing", !.outcome = outcome],
           log' \in [All -> {0, 1}], \A c \in All : Settled(c) => Settled(c)',
           \A c \in Calls : fiber[c] \in {"running", "success"} =>
               failure = "other" \/ log'[c] = log[c],
           outcome # "died" => \A c \in All : tools[c] = "called" => Settled(c)'
    PROVE  TurnInv'
<1>1. TurnType'
  BY DEF TurnInv, TurnType
<1>2. turn'.at = "closing" /\ turn'.last = turn.last /\ turn'.stream = turn.stream
      /\ turn'.outcome = outcome
  BY DEF TurnInv, TurnType
<1>3. CallsOK'
  BY <1>2, CallsAre DEF TurnInv, CallsOK, CallOK, Undisturbed, Settled, Past
<1>4. HostedOK' /\ StartedOK' /\ StreamOK' /\ ClosingOK'
  BY <1>2 DEF TurnInv, HostedOK, StartedOK, StreamOK, ClosingOK, Past
<1>5. QED
  BY <1>1, <1>3, <1>4 DEF TurnInv

LEMMA FinishIs ==
    ASSUME TurnInv, NEW calls \in SUBSET All, NEW s, Finish(calls, s)
    PROVE  /\ UNCHANGED <<tools, fiber, failure, deaf, interrupted>>
           /\ step' = s \/ step' = s \cup {"started", "ended"}
           /\ turn' = [turn EXCEPT !.at = "closing", !.outcome = Outcome]
           /\ log' \in [All -> {0, 1}]
           /\ \A c \in All : Settled(c) => Settled(c)'
           /\ \A c \in calls : tools[c] # "none" => Settled(c)'
           /\ deaf = "provider" => \A c \in All : tools[c] # "none" => Settled(c)'
           /\ turn.stream = "success" => \A h \in Hosted : tools[h] = "called" => Settled(h)'
<1> DEFINE provider == deaf = "provider"
           hosted == IF turn.stream = "success" /\ ~provider THEN HostedCalls ELSE {}
           settles == calls \cup (IF provider THEN All ELSE hosted)
<1>1. /\ FailUnsettled(settles, tools)
      /\ step' = s \/ step' = s \cup {"started", "ended"}
      /\ turn' = [turn EXCEPT !.at = "closing", !.outcome = Outcome]
      /\ UNCHANGED <<tools, fiber, failure, deaf, interrupted>>
  BY DEF Finish
<1>2. log \in [All -> {0, 1}] /\ HostedCalls \subseteq Hosted
  BY DEF TurnInv, TurnType, HostedCalls
<1>3. /\ log' \in [All -> {0, 1}]
      /\ \A c \in All : Settled(c) => Settled(c)'
      /\ \A c \in All : c \in settles /\ tools[c] # "none" => Settled(c)'
  BY <1>1, <1>2, FailUnsettledIs
<1>4. turn.stream = "success" => \A h \in Hosted : tools[h] = "called" => h \in settles
  BY CallsAre DEF HostedCalls
<1>5. QED
  BY <1>1, <1>3, <1>4, CallsAre

LEMMA OutcomeIs ==
    /\ Outcome \in {"died", "failed", "interrupted", "continue", "stop"}
    /\ Outcome = "died" <=> turn.stream = "died"
BY DEF Outcome

\* All fibers have ended by themselves, and what the provider's end left open is settled.
LEMMA JoinedKeeps == ASSUME TurnInv, Joined PROVE TurnInv'
<1>1. /\ turn.at = "joining" /\ ~interrupted /\ failure = "none" /\ AtRest
      /\ Finish({}, step)
  BY DEF Joined
<1>2. /\ UNCHANGED <<tools, fiber, failure, deaf, interrupted>>
      /\ step' = step \/ step' = step \cup {"started", "ended"}
      /\ turn' = [turn EXCEPT !.at = "closing", !.outcome = Outcome]
      /\ log' \in [All -> {0, 1}]
      /\ \A c \in All : Settled(c) => Settled(c)'
      /\ deaf = "provider" => \A c \in All : tools[c] # "none" => Settled(c)'
      /\ turn.stream = "success" => \A h \in Hosted : tools[h] = "called" => Settled(h)'
  BY <1>1, FinishIs
<1>3. \A c \in Calls : tools[c] = "called" => Settled(c)
  BY <1>1 DEF TurnInv, CallsOK, CallOK, Undisturbed, AtRest
<1>4. ASSUME turn.stream # "died", NEW h \in Hosted, tools[h] = "called" PROVE Settled(h)'
  <2>1. deaf \in {"none", "provider"} /\ turn.stream \in {"success", "llm", "overflow"}
    BY <1>1, <1>4 DEF TurnInv, TurnType, StreamOK, Past
  <2>2. CASE deaf = "provider"
    BY <1>2, <1>4, <2>2, CallsAre
  <2>3. CASE turn.stream = "success"
    BY <1>2, <1>4, <2>3
  <2>4. CASE deaf = "none" /\ turn.stream \in {"llm", "overflow"}
    BY <1>1, <1>2, <1>4, <2>4, CallsAre DEF TurnInv, HostedOK
  <2>5. QED
    BY <2>1, <2>2, <2>3, <2>4
<1>5. Outcome # "died" => \A c \in All : tools[c] = "called" => Settled(c)'
  BY <1>2, <1>3, <1>4, OutcomeIs, CallsAre DEF All
<1>6. \A c \in Calls : fiber[c] \notin {"running", "success"}
  BY <1>1 DEF AtRest
<1>7. /\ step' \subseteq {"started", "failed", "finished", "ended"}
      /\ step \subseteq step'
  BY <1>2 DEF TurnInv, TurnType
<1>8. QED
  BY <1>1, <1>2, <1>5, <1>6, <1>7, OutcomeIs, ClosingKeeps

\* The first failure, and the end of an interrupted turn, settle all calls.
LEMMA FinishAllKeeps ==
    ASSUME TurnInv, turn.at \in {"joining", "halting"}, failure = "other" \/ AtRest,
           NEW s, step \subseteq s, s \subseteq {"started", "failed", "finished", "ended"},
           Finish(All, s)
    PROVE  TurnInv'
<1>1. /\ UNCHANGED <<tools, fiber, failure, deaf, interrupted>>
      /\ step' = s \/ step' = s \cup {"started", "ended"}
      /\ turn' = [turn EXCEPT !.at = "closing", !.outcome = Outcome]
      /\ log' \in [All -> {0, 1}]
      /\ \A c \in All : Settled(c) => Settled(c)'
      /\ \A c \in All : tools[c] # "none" => Settled(c)'
  BY FinishIs
<1>2. \A c \in Calls : fiber[c] \in {"running", "success"} => failure = "other"
  BY DEF AtRest
<1>3. /\ step' \subseteq {"started", "failed", "finished", "ended"}
      /\ step \subseteq step'
  BY <1>1
<1>4. QED
  BY <1>1, <1>2, <1>3, OutcomeIs, ClosingKeeps

LEMMA JoinFailsKeeps == ASSUME TurnInv, JoinFails PROVE TurnInv'
BY FinishAllKeeps DEF JoinFails, TurnInv, TurnType

LEMMA HaltedKeeps == ASSUME TurnInv, Halted PROVE TurnInv'
<1> DEFINE s == IF Active(step) THEN FailAssistant(step) ELSE step
<1>1. turn.at = "halting" /\ AtRest /\ Finish(All, s)
  BY DEF Halted
<1>2. step \subseteq s /\ s \subseteq {"started", "failed", "finished", "ended"}
  BY DEF FailAssistant, TurnInv, TurnType
<1>3. QED
  BY <1>1, <1>2, FinishAllKeeps

LEMMA DismissedKeeps == ASSUME TurnInv, Dismissed PROVE TurnInv'
<1>1. /\ turn.at = "dismissing" /\ AtRest /\ FailUnsettled(All, tools)
      /\ turn' = [turn EXCEPT !.at = "closing", !.outcome = "interrupted"]
      /\ UNCHANGED <<tools, fiber, failure, step, deaf, interrupted>>
  BY DEF Dismissed
<1>2. /\ log' \in [All -> {0, 1}]
      /\ \A c \in All : Settled(c) => Settled(c)'
      /\ \A c \in All : tools[c] # "none" => Settled(c)'
  BY <1>1, FailUnsettledIs DEF TurnInv, TurnType
<1>3. \A c \in Calls : fiber[c] \notin {"running", "success"}
  BY <1>1 DEF AtRest
<1>4. step' \subseteq {"started", "failed", "finished", "ended"} /\ step \subseteq step'
  BY <1>1 DEF TurnInv, TurnType
<1>5. QED
  BY <1>1, <1>2, <1>3, <1>4, ClosingKeeps

LEMMA CloseKeeps == ASSUME TurnInv, Close PROVE TurnInv'
<1>1. TurnType'
  BY DEF TurnInv, TurnType, Close, TurnAt
<1>2. CallsOK'
  BY DEF TurnInv, TurnType, CallsOK, CallOK, Close, AtRest, TurnAt, Undisturbed, Settled, Past
<1>3. HostedOK' /\ StartedOK' /\ StreamOK' /\ ClosingOK'
  BY DEF TurnInv, TurnType, Close, TurnAt, HostedOK, StartedOK, StreamOK, ClosingOK, Past,
     Settled
<1>4. QED
  BY <1>1, <1>2, <1>3 DEF TurnInv

LEMMA TurnStepKeeps == ASSUME TurnInv, TurnStep PROVE TurnInv'
BY StreamedKeeps, ClearedKeeps, JoinedKeeps, JoinFailsKeeps, DismissesKeep, DismissedKeeps,
   HaltedKeeps, CloseKeeps DEF TurnStep

-----------------------------------------------------------------------------
(* The fibers.                                                             *)

\* A fiber that runs or has a result ends, and nothing but its own settlement is made.
LEMMA FiberMoves ==
    ASSUME TurnInv, NEW c \in Calls, fiber[c] \in {"running", "success", "error"},
           NEW place \in Fibers \ {"none", "running"}, fiber' = [fiber EXCEPT ![c] = place],
           UNCHANGED <<tools, step, deaf, interrupted, turn>>,
           log' \in [All -> {0, 1}], Settled(c) => Settled(c)',
           \A d \in All : d # c => log'[d] = log[d],
           failure' \in {"none", "other", "dismissed"},
           failure # "none" => failure' = failure,
           place = "success" /\ Settled(c)' => failure' = "other",
           place = "failed" => failure' # "none",
           place = "ended" => Settled(c)' \/ ~Undisturbed
    PROVE  TurnInv'
<1>1. TurnType'
  BY DEF TurnInv, TurnType, Fibers
<1>2. turn.at \notin Past
  BY DEF TurnInv, CallsOK, CallOK
<1>3. fiber'[c] = place /\ \A d \in Calls : d # c => fiber'[d] = fiber[d]
  BY DEF TurnInv, TurnType
<1>4. CallOK(c)'
  BY <1>2, <1>3 DEF TurnInv, CallsOK, CallOK, Undisturbed
<1>5. ASSUME NEW d \in Calls, d # c PROVE CallOK(d)'
  BY <1>2, <1>3, <1>5, CallsAre DEF TurnInv, TurnType, CallsOK, CallOK, Undisturbed, Settled
<1>6. \A d \in All : Settled(d) => Settled(d)'
  BY DEF Settled
<1>7. HostedOK' /\ StartedOK' /\ StreamOK' /\ ClosingOK'
  BY <1>6, CallsAre DEF TurnInv, HostedOK, StartedOK, StreamOK, ClosingOK
<1>8. QED
  BY <1>1, <1>4, <1>5, <1>7 DEF TurnInv, CallsOK

LEMMA EndToolKeeps == ASSUME TurnInv, NEW c \in Calls, EndTool(c) PROVE TurnInv'
<1>1. PICK place \in {"success", "error", "failed"} :
          /\ fiber' = [fiber EXCEPT ![c] = place]
          /\ \/ place # "failed" /\ UNCHANGED failure
             \/ \E how \in {"other", "dismissed"} : Fail(how)
  BY DEF EndTool, FiberIs
<1>2. /\ fiber[c] = "running" /\ UNCHANGED <<tools, log, step, deaf, interrupted, turn>>
  BY DEF EndTool
<1>3. Settled(c) => failure = "other"
  BY <1>2 DEF TurnInv, CallsOK, CallOK
<1>4. /\ failure' \in {"none", "other", "dismissed"}
      /\ failure # "none" => failure' = failure
      /\ place = "failed" => failure' # "none"
  BY <1>1 DEF Fail, TurnInv, TurnType
<1>5. place \in Fibers \ {"none", "running", "ended"}
  BY <1>1 DEF Fibers
<1>6. log' \in [All -> {0, 1}] /\ (Settled(c)' <=> Settled(c)) /\ \A d \in All : log'[d] = log[d]
  BY <1>2 DEF TurnInv, TurnType, Settled
<1>7. place = "success" /\ Settled(c)' => failure' = "other"
  BY <1>3, <1>4, <1>6
<1>8. QED
  BY <1>1, <1>2, <1>4, <1>5, <1>6, <1>7, FiberMoves

LEMMA PublishResultKeeps == ASSUME TurnInv, NEW c \in Calls, PublishResult(c) PROVE TurnInv'
<1>1. /\ fiber[c] \in {"success", "error"}
      /\ UNCHANGED <<tools, step, deaf, interrupted, turn>> /\ log \in [All -> {0, 1}]
      /\ failure \in {"none", "other", "dismissed"}
  BY DEF PublishResult, TurnInv, TurnType
<1>2. c \in All
  BY CallsAre
<1>3. CASE ~Settled(c)
  <2>1. Record(c) /\ fiber' = [fiber EXCEPT ![c] = "ended"] /\ UNCHANGED failure
    BY <1>3 DEF PublishResult, FiberIs
  <2>2. /\ log' \in [All -> {0, 1}] /\ Settled(c)'
        /\ \A d \in All : d # c => log'[d] = log[d]
    BY <1>1, <1>2, <1>3, <2>1, RecordIs
  <2>3. "ended" \in Fibers \ {"none", "running"}
    BY DEF Fibers
  <2>4. QED
    BY <1>1, <2>1, <2>2, <2>3, FiberMoves
<1>4. CASE Settled(c)
  <2>1. /\ UNCHANGED log
        /\ \/ fiber' = [fiber EXCEPT ![c] = "failed"] /\ Fail("other")
           \/ fiber' = [fiber EXCEPT ![c] = "ended"] /\ UNCHANGED failure
    BY <1>4 DEF PublishResult, FiberIs
  <2>2. PICK place \in {"failed", "ended"} :
            /\ fiber' = [fiber EXCEPT ![c] = place]
            /\ place = "failed" => Fail("other")
            /\ place = "ended" => UNCHANGED failure
    BY <2>1
  <2>3. /\ failure' \in {"none", "other", "dismissed"}
        /\ failure # "none" => failure' = failure
        /\ place = "failed" => failure' # "none"
    BY <1>1, <2>2 DEF Fail
  <2>4. Settled(c)' /\ place \in Fibers \ {"none", "running"}
    BY <1>4, <2>1, <2>2 DEF Settled, Fibers
  <2>5. QED
    BY <1>1, <2>1, <2>2, <2>3, <2>4, FiberMoves
<1>5. QED
  BY <1>3, <1>4

LEMMA InterruptFiberKeeps == ASSUME TurnInv, NEW c \in Calls, InterruptFiber(c) PROVE TurnInv'
<1>1. /\ turn.at \in {"clearing", "dismissing", "halting", "closing"} /\ fiber[c] = "running"
      /\ fiber' = [fiber EXCEPT ![c] = "ended"]
      /\ UNCHANGED <<tools, log, failure, step, deaf, interrupted, turn>>
  BY DEF InterruptFiber, Doomed, FiberIs
<1>2. ~Undisturbed /\ "ended" \in Fibers \ {"none", "running"}
  BY <1>1 DEF Undisturbed, Fibers
<1>3. log' \in [All -> {0, 1}] /\ failure' \in {"none", "other", "dismissed"}
      /\ (Settled(c)' <=> Settled(c))
  BY <1>1 DEF TurnInv, TurnType, Settled
<1>4. QED
  BY <1>1, <1>2, <1>3, FiberMoves

LEMMA LifeStays == ASSUME TurnInv, UNCHANGED life PROVE TurnInv'
BY DEF life, TurnInv, TurnType, CallsOK, CallOK, HostedOK, StartedOK, StreamOK, ClosingOK,
   Undisturbed, Settled

LEMMA FiberKeeps == ASSUME TurnInv, FiberStep PROVE TurnInv'
BY LifeStays, EndToolKeeps, PublishResultKeeps, InterruptFiberKeeps DEF FiberStep, AtDesk

-----------------------------------------------------------------------------
(* Crash and repair.                                                       *)
LEMMA CrashKeeps == ASSUME TurnInv, Crash PROVE TurnInv'
<1>1. /\ turn' = [turn EXCEPT !.at = "over", !.outcome = "crashed"]
      /\ fiber' = [c \in Calls |-> "ended"]
      /\ step' = {} /\ failure' = "none" /\ deaf' = "none" /\ interrupted' = FALSE
      /\ UNCHANGED <<tools, log>>
  BY DEF Crash
<1>2. TurnType'
  BY <1>1 DEF TurnInv, TurnType, Fibers
<1>3. turn'.at = "over" /\ turn'.outcome = "crashed" /\ \A c \in Calls : fiber'[c] = "ended"
  BY <1>1 DEF TurnInv, TurnType
<1>4. CallsOK' /\ HostedOK' /\ StartedOK' /\ StreamOK' /\ ClosingOK'
  BY <1>3 DEF CallsOK, CallOK, HostedOK, StartedOK, StreamOK, ClosingOK, Undisturbed, Past
<1>5. QED
  BY <1>2, <1>4 DEF TurnInv

LEMMA RepairKeeps == ASSUME TurnInv, FailInterruptedTools PROVE TurnInv'
<1>1. /\ turn.at = "over" /\ FailUnsettled(All, tools)
      /\ turn' = [turn EXCEPT !.at = "repaired"]
      /\ UNCHANGED <<tools, fiber, failure, step, deaf, interrupted>>
  BY DEF FailInterruptedTools, TurnAt
<1>2. /\ log' \in [All -> {0, 1}]
      /\ \A c \in All : Settled(c) => Settled(c)'
      /\ \A c \in All : tools[c] # "none" => Settled(c)'
  BY <1>1, FailUnsettledIs DEF TurnInv, TurnType
<1>3. TurnType' /\ turn'.at = "repaired"
  BY <1>1, <1>2 DEF TurnInv, TurnType
<1>4. CallsOK'
  BY <1>1, <1>2, <1>3, CallsAre DEF TurnInv, CallsOK, CallOK, Undisturbed, Past
<1>5. HostedOK' /\ StartedOK' /\ StreamOK' /\ ClosingOK'
  BY <1>1, <1>2, <1>3 DEF HostedOK, StartedOK, StreamOK, ClosingOK, Past
<1>6. QED
  BY <1>3, <1>4, <1>5 DEF TurnInv

LEMMA TurnStarts == Init => TurnInv
<1> SUFFICES ASSUME Init PROVE TurnInv
  OBVIOUS
<1>1. TurnType
  <2>1. PICK last \in BOOLEAN :
            turn = [at |-> "streaming", last |-> last, stream |-> "open", outcome |-> "none"]
    BY DEF Init
  <2>2. /\ tools = [c \in All |-> "none"] /\ log = [c \in All |-> 0]
        /\ fiber = [c \in Calls |-> "none"] /\ failure = "none" /\ step = {}
        /\ deaf = "none" /\ interrupted = FALSE
    BY DEF Init
  <2>3. QED
    BY <2>1, <2>2 DEF TurnType, Fibers
<1>2. turn.at = "streaming" /\ turn.stream = "open"
  BY DEF Init
<1>3. CallsOK
  BY <1>2, CallsAre DEF Init, CallsOK, CallOK, Undisturbed, Settled, Past
<1>4. HostedOK /\ StartedOK /\ StreamOK /\ ClosingOK
  BY <1>2 DEF Init, HostedOK, StartedOK, StreamOK, ClosingOK, Past
<1>5. QED
  BY <1>1, <1>3, <1>4 DEF TurnInv

LEMMA InvStep == ASSUME IInv, [Next]_vars PROVE IInv'
<1>1. DeskInv'
  BY DeskInTurn DEF IInv
<1>2. TurnInv
  BY DEF IInv
<1>3. ASSUME UNCHANGED vars PROVE TurnInv'
  BY <1>2, <1>3, LifeStays DEF vars
<1>4. ASSUME FromUser PROVE TurnInv'
  BY <1>2, <1>4, LifeStays DEF FromUser
<1>5. ASSUME Next, ~FromUser PROVE TurnInv'
  BY <1>2, <1>5, StreamKeeps, TurnStepKeeps, RecoverKeeps, InterruptKeeps, FiberKeeps,
     CrashKeeps, RepairKeeps DEF Next
<1>6. QED
  BY <1>1, <1>3, <1>4, <1>5 DEF IInv

LEMMA Invariance == Spec => []IInv
<1>1. Init => IInv
  BY DeskStarts, TurnStarts DEF Init, IInv
<1>2. IInv /\ [Next]_vars => IInv'
  BY InvStep
<1>3. QED
  BY <1>1, <1>2, PTL DEF Spec

-----------------------------------------------------------------------------
(* The turn.                                                               *)

\* However a turn returns (llm.ts, runTurnAttempt), its calls have one settlement each in
\* the log, and the next run of the session repairs what a crash or a defect left: for
\* any number of local calls and of calls of the provider.
THEOREM TurnsSettleTheirCalls == Spec => []TurnSettlesItsCalls
<1>1. IInv => TurnSettlesItsCalls
  <2> SUFFICES ASSUME IInv, NEW c \in All
               PROVE  /\ log[c] <= 1
                      /\ turn.at = "over" /\ tools[c] = "called"
                         /\ turn.outcome \notin {"crashed", "died"} => Settled(c)
                      /\ turn.at = "repaired" /\ tools[c] # "none" => Settled(c)
    BY DEF TurnSettlesItsCalls
  <2>1. log[c] \in {0, 1} /\ ClosingOK
    BY DEF IInv, TurnInv, TurnType
  <2>2. QED
    BY <2>1 DEF ClosingOK
<1>2. QED
  BY Invariance, <1>1, PTL

\* Only the failure of another tool makes a turn drop the result of one that has
\* succeeded (publish-llm-event.ts): no interruption, provider error or dismissal does.
THEOREM TurnsKeepResults == Spec => ResultsAreKept
<1> DEFINE Kept == \A c \in Calls :
                       fiber[c] = "success" /\ log'[c] = log[c] /\ turn'.outcome # "crashed"
                           => fiber'[c] = "success" \/ failure = "other"
<1>1. ASSUME IInv, [Next]_vars PROVE [Kept]_vars
  <2> SUFFICES ASSUME Next, NEW c \in Calls, fiber[c] = "success", log'[c] = log[c],
                      turn'.outcome # "crashed", failure # "other"
               PROVE  fiber'[c] = "success"
    BY <1>1
  <2>1. /\ fiber \in [Calls -> Fibers] /\ log \in [All -> {0, 1}] /\ c \in All
        /\ tools[c] = "called" /\ ~Settled(c)
    BY <1>1, CallsAre DEF IInv, TurnInv, TurnType, CallsOK, CallOK, Past
  <2>2. ~PublishResult(c)
    <3>1. Record(c) => log'[c] # log[c]
      BY <2>1 DEF Record
    <3>2. QED
      BY <2>1, <3>1 DEF PublishResult
  <2>3. CASE FiberStep
    <3>1. PICK d \in Calls : AtDesk(d) \/ EndTool(d) \/ PublishResult(d) \/ InterruptFiber(d)
      BY <2>3 DEF FiberStep
    <3>2. CASE d = c
      BY <2>1, <2>2, <3>1, <3>2 DEF AtDesk, EndTool, InterruptFiber
    <3>3. CASE d # c
      BY <2>1, <3>1, <3>3 DEF AtDesk, EndTool, PublishResult, InterruptFiber, FiberIs, life
    <3>4. QED
      BY <3>2, <3>3
  <2>4. CASE FromStream
    <3>1. \A d \in Calls : CallTool(d) => d # c
      BY <2>1 DEF CallTool, Called
    <3>2. QED
      BY <2>1, <2>4, <3>1 DEF FromStream, CallTool, CallDisabledTool, CallHosted, HostedResult,
         HostedDuplicate, StartInput, FinishStep, ProviderError, StreamEnds
  <2>5. CASE TurnStep
    BY <2>5 DEF TurnStep, Streamed, Cleared, Joined, JoinFails, JoinDismissed, Dismissed,
       JoinInterrupted, Halted, Close, Finish
  <2>6. CASE Recover \/ Interrupt \/ FailInterruptedTools \/ FromUser
    BY <2>6 DEF Recover, Interrupt, FailInterruptedTools, FromUser, life
  <2>7. ~Crash
    BY <1>1 DEF Crash, IInv, TurnInv, TurnType
  <2>8. QED
    BY <2>3, <2>4, <2>5, <2>6, <2>7 DEF Next
<1>2. QED
  BY Invariance, <1>1, PTL DEF Spec, ResultsAreKept

-----------------------------------------------------------------------------
(* The turn and the desk.                                                  *)

\* When a turn is over its tools are, and none of them is at the desk: no request of a
\* finished turn is left for a user to answer.
NothingIsPending ==
    turn.at \in {"over", "repaired"} => AtRest /\ permissions = <<>> /\ questions = {}

\* Who is on his way through the desk has a fiber that runs.
AskersRun == \A c \in Calls : asker[c] \notin {"idle", "gone", "dismissed"} => fiber[c] = "running"

\* A reply settles the requests of those only who wait.
LEMMA ReplyMovesWaiters ==
    ASSUME DeskInv, NEW i \in Repliers, UserStep(i) \/ ReplyStep(i), NEW a \in Askers
    PROVE  \/ asker'[a] = asker[a]
           \/ asker[a] \in {"waiting", "questioning"} /\ asker'[a] # "dismissed"
<1>1. asker \in [Askers -> Places]
  BY DEF DeskInv, DeskType
<1>2. ASSUME NEW b, NEW from \in {"waiting", "questioning"},
             NEW to \in {"allowed", "rejected", "answered", "unanswered"}, Resolve(b, from, to)
      PROVE  \/ asker'[a] = asker[a]
             \/ asker[a] \in {"waiting", "questioning"} /\ asker'[a] # "dismissed"
  BY <1>1, <1>2 DEF Resolve
<1>3. CASE asker' = asker
  BY <1>3
<1>4. CASE Reject(i) \/ Allow(i) \/ Save(i)
  <2>1. CASE Reject(i)
    <3>1. Resolve(replies[i].item, "waiting", "rejected")
      BY <2>1 DEF Reject, Settle
    <3>2. QED
      BY <1>2, <3>1
  <2>2. CASE Allow(i)
    <3>1. Resolve(replies[i].item, "waiting", "allowed")
      BY <2>2 DEF Allow, Settle
    <3>2. QED
      BY <1>2, <3>1
  <2>3. CASE Save(i)
    <3>1. Resolve(replies[i].on, "waiting", "allowed")
      BY <2>3 DEF Save, Settle
    <3>2. QED
      BY <1>2, <3>1
  <2>4. QED
    BY <1>4, <2>1, <2>2, <2>3
<1>5. CASE SettleQuestion(i)
  BY <1>2, <1>5 DEF SettleQuestion
<1>6. QED
  BY <1>3, <1>4, <1>5 DEF UserStep, Reply, ReplyQuestion, Begin, ReplyStep, Keep, Recall, Check,
     Die

LEMMA AskersRunStep ==
    ASSUME IInv, AskersRun, [Next]_vars
    PROVE  AskersRun'
<1>1. /\ asker \in [Askers -> Places] /\ fiber \in [Calls -> Fibers] /\ DeskInv
  BY DEF IInv, DeskInv, DeskType, TurnInv, TurnType
<1>2. CASE UNCHANGED <<asker, fiber>>
  BY <1>2 DEF AskersRun
<1>3. CASE FiberStep
  <2>1. PICK c \in Calls : AtDesk(c) \/ EndTool(c) \/ PublishResult(c) \/ InterruptFiber(c)
    BY <1>3 DEF FiberStep
  <2>2. CASE AtDesk(c)
    BY <1>1, <2>2 DEF AtDesk, AskerStep, Judge, Create, Ask, Notice, GoTo, life, AskersRun, Calls
  <2>3. CASE EndTool(c)
    BY <1>1, <2>3 DEF EndTool, FiberIs, AskersRun, Calls
  <2>4. CASE PublishResult(c)
    BY <1>1, <2>4 DEF PublishResult, FiberIs, desk, AskersRun
  <2>5. CASE InterruptFiber(c)
    BY <1>1, <2>5 DEF InterruptFiber, Leave, GoTo, FiberIs, AskersRun, Calls
  <2>6. QED
    BY <2>1, <2>2, <2>3, <2>4, <2>5
<1>4. CASE FromUser
  <2>1. PICK i \in Repliers : UserStep(i) \/ ReplyStep(i)
    BY <1>4 DEF FromUser
  <2>2. fiber' = fiber
    BY <1>4 DEF FromUser, life
  <2>3. ASSUME NEW c \in Calls, asker'[c] \notin {"idle", "gone", "dismissed"}
        PROVE  asker[c] \notin {"idle", "gone", "dismissed"}
    BY <1>1, <2>1, <2>3, ReplyMovesWaiters DEF Calls
  <2>4. QED
    BY <2>2, <2>3 DEF AskersRun
<1>5. CASE Crash
  BY <1>5 DEF Crash, AskersRun, Calls
<1>6. ASSUME NEW c \in Calls, CallTool(c) PROVE AskersRun'
  BY <1>1, <1>6 DEF CallTool, desk, AskersRun
<1>7. CASE FromStream
  BY <1>2, <1>6, <1>7 DEF FromStream, CallDisabledTool, CallHosted, HostedResult,
     HostedDuplicate, StartInput, FinishStep, ProviderError, StreamEnds, desk
<1>8. CASE TurnStep
  BY <1>2, <1>8 DEF TurnStep, Streamed, Cleared, Joined, JoinFails, JoinDismissed, Dismissed,
     JoinInterrupted, Halted, Close, Finish, desk
<1>9. CASE Recover \/ Interrupt \/ FailInterruptedTools \/ UNCHANGED vars
  BY <1>2, <1>9 DEF Recover, Interrupt, FailInterruptedTools, desk, vars, life
<1>10. QED
  BY <1>3, <1>4, <1>5, <1>7, <1>8, <1>9 DEF Next

\* No request outlives its turn (llm.ts, permission.ts, question.ts): fibers that fail, are
\* interrupted or dismissed leave the desk, and the turn waits for them before it is over.
THEOREM NoRequestOutlivesItsTurn == Spec => []NothingIsPending
<1>1. Init => AskersRun
  BY DEF Init, DeskInit, AskersRun, Calls
<1>2. Spec => []AskersRun
  BY <1>1, AskersRunStep, Invariance, PTL DEF Spec
<1>3. IInv /\ AskersRun => NothingIsPending
  <2> SUFFICES ASSUME IInv, AskersRun, turn.at \in Past
               PROVE  AtRest /\ permissions = <<>> /\ questions = {}
    BY DEF NothingIsPending, Past
  <2>1. AtRest
    BY DEF IInv, TurnInv, CallsOK, CallOK, AtRest
  <2>2. \A a \in Askers : asker[a] \notin {"waiting", "questioning"}
    BY <2>1 DEF AskersRun, AtRest, Calls
  <2>3. permissions \in Seq(Askers) /\ ToSet(permissions) = {} /\ questions = {}
    BY <2>2 DEF IInv, DeskInv, DeskType, ListedWhileAwaited
  <2>4. permissions = <<>>
    <3>1. DOMAIN permissions = {}
      BY <2>3 DEF ToSet
    <3>2. Len(permissions) = 0
      BY <2>3, <3>1, LenProperties
    <3>3. QED
      BY <2>3, <3>2, EmptySeq
  <2>5. QED
    BY <2>1, <2>3, <2>4
<1>4. QED
  BY <1>2, <1>3, Invariance, PTL

-----------------------------------------------------------------------------
(* The turn in its session.  What SessionEngine knows of a provider turn:  *)
(* that a call of the history is open, that the model has to see a result, *)
(* and how the drain goes on.  The session is one drain at the provider    *)
(* with nobody around but a client who may interrupt it; the drain goes on *)
(* when the scope of the turn has closed.                                  *)

\* The history shows a call without a settlement.
Open == \E c \in All : tools[c] = "called" /\ ~Settled(c)

Going == turn.at \notin Past
Ends(outcomes) == ~Going /\ turn.outcome \in outcomes

SeenStep == IF turn.last THEN 2 ELSE 1

SeenAt(pc, promotion, n, continue, overflowed) ==
    [pc |-> pc, owner |-> IF pc = "none" THEN "nobody" ELSE "owner", promotion |-> promotion,
     step |-> n, cutoff |-> 0, rows |-> {}, promoted |-> FALSE, continue |-> continue,
     compacted |-> FALSE, overflowed |-> overflowed]

SeenDrain == IF Going                    THEN SeenAt("provider", "none", SeenStep, More, FALSE)
             ELSE IF Ends({"retry"})     THEN SeenAt("turn", "none", SeenStep, FALSE, TRUE)
             ELSE IF Ends({"continue"})  THEN SeenAt("turn", "steer", SeenStep + 1, FALSE, FALSE)
             ELSE IF Ends({"stop"})      THEN SeenAt("checkSteer", "none", SeenStep, FALSE, FALSE)
             ELSE SeenAt("none", "none", 1, FALSE, FALSE)

SeenEntry == IF Ends({"crashed"})
             THEN [key |-> "nobody", phase |-> "unused", force |-> FALSE,
                   pendingWake |-> FALSE, stopping |-> FALSE, exit |-> "success"]
             ELSE [key |-> "session",
                   phase |-> IF Ends({"failed", "died", "interrupted"}) THEN "exiting"
                                                                        ELSE "draining",
                   force |-> FALSE, pendingWake |-> FALSE, stopping |-> interrupted,
                   exit |-> IF Ends({"failed", "died"}) THEN "failure"
                            ELSE IF Ends({"interrupted"}) THEN "interrupt" ELSE "success"]

SeenClient == IF interrupted THEN [pc |-> "interrupt", on |-> "owner"]
                             ELSE [pc |-> "idle", on |-> "nobody"]

\* The turn returned, and the model is owed no answer.
Boundary == ~Going /\ turn.outcome \notin {"continue", "retry"}

SE == INSTANCE SessionEngine WITH
          Session <- "session", Messages <- {}, Prompters <- {}, Entries <- {"owner"},
          Callers <- {"client"}, None <- "nobody", Steps <- 2,
          seq <- 0, input <- [m \in {} |-> 0], prompter <- [p \in {} |-> 0], woken <- {},
          active <- [k \in {"session"} |-> IF Ends({"crashed"}) THEN "nobody" ELSE "owner"],
          entry <- [e \in {"owner"} |-> SeenEntry],
          caller <- [c \in {"client"} |-> SeenClient],
          owed <- [k \in {"session"} |-> FALSE],
          drain <- SeenDrain, tool <- Open,
          boundary <- Boundary


\* Why the turn returns: a fiber that failed was a fiber, and so is what was dismissed.
EndOK ==
    /\ Going /\ failure # "none" => More
    /\ turn.at = "dismissing" => failure # "none"
    /\ turn.at = "closing" =>
           /\ turn.outcome \notin {"none", "crashed"}
           /\ turn.outcome = "continue" => More
           /\ turn.outcome = "interrupted" => interrupted \/ More
           /\ turn.outcome = "retry" => ~More

\* A fiber never goes back to where it was before its call.
LEMMA FiberFate ==
    ASSUME TurnInv, [Next]_vars, Going'
    PROVE  \/ UNCHANGED <<fiber, failure>>
           \/ \E c \in Calls, p \in Fibers \ {"none"} :
                  fiber' = [fiber EXCEPT ![c] = p] /\ (fiber[c] # "none" \/ CallTool(c))
<1>1. ASSUME NEW c \in Calls, CallTool(c)
      PROVE  fiber' = [fiber EXCEPT ![c] = "running"]
  BY <1>1 DEF CallTool
<1>2. ASSUME NEW c \in Calls, EndTool(c)
      PROVE  (\E p \in Fibers \ {"none"} : fiber' = [fiber EXCEPT ![c] = p]) /\ fiber[c] # "none"
  BY <1>2 DEF EndTool, FiberIs, Fail, Fibers
<1>3. ASSUME NEW c \in Calls, PublishResult(c)
      PROVE  (\E p \in Fibers \ {"none"} : fiber' = [fiber EXCEPT ![c] = p]) /\ fiber[c] # "none"
  BY <1>3 DEF PublishResult, FiberIs, Fail, Fibers
<1>4. ASSUME NEW c \in Calls, InterruptFiber(c)
      PROVE  fiber' = [fiber EXCEPT ![c] = "ended"] /\ fiber[c] # "none"
  BY <1>4 DEF InterruptFiber, FiberIs
<1>5. ASSUME FiberStep
      PROVE  \/ UNCHANGED <<fiber, failure>>
             \/ \E c \in Calls, p \in Fibers \ {"none"} :
                    fiber' = [fiber EXCEPT ![c] = p] /\ fiber[c] # "none"
  <2>1. PICK c \in Calls : AtDesk(c) \/ EndTool(c) \/ PublishResult(c) \/ InterruptFiber(c)
    BY <1>5 DEF FiberStep
  <2>2. CASE AtDesk(c)
    BY <2>2 DEF AtDesk, life
  <2>3. CASE InterruptFiber(c)
    BY <1>4, <2>3 DEF Fibers
  <2>4. QED
    BY <1>2, <1>3, <2>1, <2>2, <2>3
<1>6. ASSUME FromStream, \A c \in Calls : ~CallTool(c) PROVE UNCHANGED <<fiber, failure>>
  BY <1>6 DEF FromStream, CallDisabledTool, CallHosted, HostedResult, HostedDuplicate, StartInput,
     FinishStep, ProviderError, StreamEnds
<1>7. ASSUME TurnStep \/ Recover \/ Interrupt \/ FailInterruptedTools
      PROVE  UNCHANGED <<fiber, failure>>
  <2>1. ASSUME Streamed PROVE UNCHANGED <<fiber, failure>>
    BY <2>1 DEF Streamed
  <2>2. ASSUME Joined \/ JoinFails \/ Halted PROVE UNCHANGED <<fiber, failure>>
    BY <2>2, Zenon DEF Joined, JoinFails, Halted, Finish
  <2>3. ASSUME Cleared \/ JoinDismissed \/ Dismissed \/ JoinInterrupted \/ Close
        PROVE  UNCHANGED <<fiber, failure>>
    BY <2>3, Zenon DEF Cleared, JoinDismissed, Dismissed, JoinInterrupted, Close
  <2>4. ASSUME Recover \/ Interrupt \/ FailInterruptedTools PROVE UNCHANGED <<fiber, failure>>
    BY <2>4 DEF Recover, Interrupt, FailInterruptedTools
  <2>5. QED
    BY <1>7, <2>1, <2>2, <2>3, <2>4 DEF TurnStep
<1>8. ~Crash
  BY DEF Crash, Going, Past, TurnInv, TurnType
<1>9. ASSUME FromUser \/ UNCHANGED vars PROVE UNCHANGED <<fiber, failure>>
  BY <1>9 DEF FromUser, vars, life
<1>10. CASE \E c \in Calls : CallTool(c)
  BY <1>1, <1>10 DEF Fibers
<1>11. QED
  BY <1>5, <1>6, <1>7, <1>8, <1>9, <1>10 DEF Next

\* What the model has to see it does not lose, and after the stream nothing is added.
LEMMA MoreStays ==
    ASSUME TurnInv, EndOK, [Next]_vars, Going, Going'
    PROVE  /\ More => More'
           /\ failure' # "none" => More'
           /\ turn.at # "streaming" /\ More' => More
<1>1. CASE UNCHANGED <<fiber, failure>>
  BY <1>1 DEF More, EndOK
<1>2. ASSUME NEW c \in Calls, NEW p \in Fibers \ {"none"}, fiber' = [fiber EXCEPT ![c] = p],
             fiber[c] # "none" \/ CallTool(c)
      PROVE  More' /\ (turn.at # "streaming" => More)
  <2>1. fiber'[c] # "none"
    BY <1>2 DEF TurnInv, TurnType
  <2>2. QED
    BY <1>2, <2>1 DEF More, CallTool, Called, Streaming
<1>3. QED
  BY <1>1, <1>2, FiberFate

\* What is no step of the turn itself ends its stream at most.
LEMMA TurnGoesOn ==
    ASSUME TurnInv, FromStream \/ FiberStep \/ FromUser \/ UNCHANGED vars
    PROVE  /\ interrupted' = interrupted
           /\ \/ turn' = turn
              \/ /\ Going /\ turn'.at \in {"streamed", "recovering"} /\ turn'.last = turn.last
<1>1. CASE FromStream
  <2>1. ASSUME NEW c \in Calls, CallTool(c) \/ CallDisabledTool(c)
        PROVE  turn' = turn /\ interrupted' = interrupted
    BY <2>1 DEF CallTool, CallDisabledTool
  <2>2. ASSUME NEW h \in Hosted, CallHosted(h) \/ HostedResult(h)
        PROVE  turn' = turn /\ interrupted' = interrupted
    BY <2>2 DEF CallHosted, HostedResult
  <2>3. ASSUME (\E c \in All : StartInput(c)) \/ FinishStep \/ ProviderError
        PROVE  turn' = turn /\ interrupted' = interrupted
    BY <2>3 DEF StartInput, FinishStep, ProviderError
  <2>4. ASSUME \/ \E h \in Hosted : HostedDuplicate(h)
               \/ \E stream \in {"success", "llm", "overflow", "died"} : StreamEnds(stream)
        PROVE  /\ interrupted' = interrupted
               /\ Going /\ turn'.at \in {"streamed", "recovering"} /\ turn'.last = turn.last
    BY <2>4 DEF TurnInv, TurnType, HostedDuplicate, StreamEnds, Streaming, Going, Past
  <2>5. QED
    BY <1>1, <2>1, <2>2, <2>3, <2>4 DEF FromStream
<1>2. CASE FiberStep
  BY <1>2 DEF FiberStep, AtDesk, life, EndTool, PublishResult, InterruptFiber
<1>3. CASE FromUser \/ UNCHANGED vars
  BY <1>3 DEF FromUser, vars, life
<1>4. QED
  BY <1>1, <1>2, <1>3

\* A turn that is over stays over.
LEMMA PastStays ==
    ASSUME TurnInv, [Next]_vars, ~Going
    PROVE  (FailInterruptedTools \/ UNCHANGED life) /\ ~Going'
<1>1. ~FromStream
  BY DEF FromStream, CallTool, CallDisabledTool, Called, CallHosted, HostedResult,
     HostedDuplicate, StartInput, FinishStep, ProviderError, StreamEnds, Streaming, Going, Past
<1>2. ~TurnStep
  BY DEF TurnStep, Streamed, Cleared, Joined, JoinFails, JoinDismissed, Dismissed,
     JoinInterrupted, Halted, Close, Going, Past
<1>3. ~Recover /\ ~Interrupt /\ ~Crash
  BY DEF Recover, Interrupt, Crash, Going, Past
<1>4. ~FiberStep
  <2>1. \A c \in Calls : fiber[c] \in {"none", "ended", "failed"}
    BY DEF TurnInv, CallsOK, CallOK, Going, Past
  <2>2. QED
    BY <2>1 DEF FiberStep, AtDesk, EndTool, PublishResult, InterruptFiber
<1>5. FailInterruptedTools \/ UNCHANGED life
  BY <1>1, <1>2, <1>3, <1>4 DEF Next, FromUser, vars, life
<1>6. FailInterruptedTools => turn'.at = "repaired"
  BY DEF FailInterruptedTools, TurnAt, TurnInv, TurnType
<1>7. QED
  BY <1>5, <1>6 DEF life, Going, Past

\* The steps in which the turn comes to an end.
LEMMA Ending ==
    ASSUME TurnInv, Joined \/ JoinFails \/ Halted
    PROVE  /\ turn' = [turn EXCEPT !.at = "closing", !.outcome = Outcome]
           /\ UNCHANGED <<tools, fiber, interrupted>>
           /\ turn.at \notin Past \cup {"closing"}
<1>1. ASSUME NEW calls \in SUBSET All, NEW s, Finish(calls, s)
      PROVE  /\ turn' = [turn EXCEPT !.at = "closing", !.outcome = Outcome]
             /\ UNCHANGED <<tools, fiber, interrupted>>
  BY <1>1 DEF Finish
<1>2. {} \in SUBSET All /\ All \in SUBSET All
  OBVIOUS
<1>3. QED
  BY <1>1, <1>2 DEF Joined, JoinFails, Halted, Past

\* The steps that move the turn on, and nothing that the session sees but the log.
Moves == Streamed \/ Cleared \/ JoinDismissed \/ JoinInterrupted

LEMMA MovesOn ==
    ASSUME TurnInv, Moves
    PROVE  /\ UNCHANGED <<tools, fiber, interrupted>>
           /\ turn'.at \in {"clearing", "joining", "dismissing", "halting"}
           /\ turn'.last = turn.last /\ Going
           /\ turn'.at = "dismissing" => failure' # "none"
BY DEF TurnInv, TurnType, Moves, Streamed, Cleared, JoinDismissed, JoinInterrupted, TurnAt, Going,
   Past

LEMMA TurnStepIs ==
    TurnStep <=> Moves \/ (Joined \/ JoinFails \/ Halted) \/ Dismissed \/ Close
BY DEF TurnStep, Moves

LEMMA FailureStays ==
    ASSUME FromStream \/ FiberStep \/ FromUser \/ UNCHANGED vars, failure # "none"
    PROVE  failure' # "none"
<1>1. CASE FromStream
  <2>1. failure' = failure
    BY <1>1 DEF FromStream, CallTool, CallDisabledTool, CallHosted, HostedResult, HostedDuplicate,
       StartInput, FinishStep, ProviderError, StreamEnds
  <2>2. QED
    BY <2>1
<1>2. CASE FiberStep
  BY <1>2 DEF FiberStep, AtDesk, life, EndTool, Fail, PublishResult, InterruptFiber
<1>3. CASE FromUser \/ UNCHANGED vars
  BY <1>3 DEF FromUser, vars, life
<1>4. QED
  BY <1>1, <1>2, <1>3

LEMMA EndOKStep == ASSUME TurnInv, EndOK, [Next]_vars PROVE EndOK'
<1> DEFINE Comes == turn'.at = "closing" =>
               /\ turn'.outcome \notin {"none", "crashed"}
               /\ turn'.outcome = "continue" => More'
               /\ turn'.outcome = "interrupted" => interrupted' \/ More'
               /\ turn'.outcome = "retry" => ~More'
<1>1. CASE ~Going'
  BY <1>1 DEF EndOK, Going, Past
<1>2. SUFFICES ASSUME Going, Going'
               PROVE  (turn'.at = "dismissing" => failure' # "none") /\ Comes
  BY <1>1, PastStays, MoreStays DEF EndOK
<1>3. (More => More') /\ (turn.at # "streaming" /\ More' => More)
  BY <1>2, MoreStays
<1>4. CASE FromStream \/ FiberStep \/ FromUser \/ UNCHANGED vars
  <2>1. CASE turn' = turn
    <3>1. turn.at = "dismissing" => failure' # "none"
      BY <1>4, <2>1, FailureStays DEF EndOK
    <3>2. QED
      BY <1>3, <1>4, <2>1, <3>1, TurnGoesOn DEF EndOK
  <2>2. QED
    BY <1>4, <2>1, TurnGoesOn
<1>5. CASE Moves
  BY <1>5, MovesOn
<1>6. CASE Joined \/ JoinFails \/ Halted
  <2>1. turn'.at = "closing" /\ turn'.outcome = Outcome /\ interrupted' = interrupted
    BY <1>6, Ending DEF TurnInv, TurnType
  <2>2. (Outcome = "continue" => More) /\ (Outcome = "interrupted" => interrupted)
    BY DEF Outcome
  <2>3. QED
    BY <1>3, <2>1, <2>2, OutcomeIs
<1>7. CASE Dismissed
  <2>1. /\ turn'.at = "closing" /\ turn'.outcome = "interrupted" /\ turn.at = "dismissing"
    BY <1>7 DEF Dismissed, TurnInv, TurnType
  <2>2. More
    BY <1>2, <2>1 DEF EndOK
  <2>3. QED
    BY <1>3, <2>1, <2>2
<1>8. CASE Recover
  <2>1. UNCHANGED fiber /\ turn.at = "recovering" /\ "started" \notin step
    BY <1>8 DEF Recover, TurnInv, StartedOK
  <2>2. ~More
    BY <1>2, <2>1, NothingWasCalled, CallsAre DEF More, Going, TurnInv, CallsOK, CallOK
  <2>3. turn'.at = "closing" => turn'.outcome = "retry"
    BY <1>8 DEF Recover, TurnAt, TurnInv, TurnType
  <2>4. turn'.at # "dismissing"
    BY <1>8 DEF Recover, TurnAt, TurnInv, TurnType
  <2>5. QED
    BY <1>3, <2>1, <2>2, <2>3, <2>4
<1>9. CASE Interrupt
  <2>1. /\ interrupted' = TRUE /\ turn'.at # "dismissing"
        /\ turn'.at = "closing" => turn'.outcome = "interrupted"
    BY <1>9 DEF Interrupt, TurnInv, TurnType
  <2>2. QED
    BY <2>1
<1>10. ~Close /\ ~Crash /\ ~FailInterruptedTools
  BY <1>2 DEF Close, Crash, FailInterruptedTools, TurnAt, TurnInv, TurnType, Going, Past
<1>11. QED
  BY <1>4, <1>5, <1>6, <1>7, <1>8, <1>9, <1>10, TurnStepIs DEF Next

\* What the session sees is one call more or less.
LEMMA SeenGoesOn ==
    ASSUME NEW n, NEW m \in BOOLEAN, NEW local \in BOOLEAN, NEW seen,
           seen = [SeenAt("provider", "none", n, m, FALSE) EXCEPT !.continue = @ \/ local]
    PROVE  seen = SeenAt("provider", "none", n, m \/ local, FALSE)
BY DEF SeenAt

\* While the turn goes on, calls come and are settled.
LEMMA GoesOn ==
    ASSUME Going, Going', turn'.last = turn.last, interrupted' = interrupted,
           More => More', More' => More \/ (Open' /\ ~turn.last)
    PROVE  [SE!Next]_(SE!vars)
<1> USE DEF Ends
<1>1. /\ SeenDrain = SeenAt("provider", "none", SeenStep, More, FALSE)
      /\ SeenDrain' = SeenAt("provider", "none", SeenStep, More', FALSE)
  BY DEF SeenDrain, SeenAt, SeenStep
<1>2. SeenEntry' = SeenEntry /\ SeenClient' = SeenClient
  BY DEF SeenEntry, SeenClient
<1>3. More \in BOOLEAN /\ More' \in BOOLEAN /\ Open \in BOOLEAN /\ Open' \in BOOLEAN
  BY DEF More, Open
<1>4. SE!At("provider") /\ SeenDrain.step = SeenStep
  BY <1>1 DEF SE!At, SeenAt
<1>5. CASE More' = More /\ Open' = Open
  BY <1>1, <1>2, <1>5 DEF SE!vars, SE!inboxVars, SE!coordVars, Boundary
<1>6. CASE More' = More /\ Open /\ ~Open'
  <2>1. SE!SettleTool
    BY <1>1, <1>2, <1>4, <1>6 DEF SE!SettleTool, SE!inboxVars, SE!coordVars, Boundary
  <2>2. QED
    BY <2>1 DEF SE!Next, SE!DrainStep
<1>7. ASSUME NEW local \in BOOLEAN, local => ~turn.last, Open', More' = (More \/ local)
      PROVE  [SE!Next]_(SE!vars)
  <2>1. SeenDrain' = [SeenDrain EXCEPT !.continue = @ \/ local]
    BY <1>1, <1>3, <1>7, SeenGoesOn, Zenon
  <2>2. local => SeenDrain.step < 2
    BY <1>4, <1>7 DEF SeenStep
  <2>3. Open' = TRUE
    BY <1>7
  <2>4. SE!CallTool
    BY <1>2, <1>4, <2>1, <2>2, <2>3 DEF SE!CallTool, SE!inboxVars, SE!coordVars, Boundary
  <2>5. QED
    BY <2>4 DEF SE!Next, SE!DrainStep
<1>8. CASE Open' /\ More' = More
  <2>1. More' = (More \/ FALSE)
    BY <1>3, <1>8
  <2>2. QED
    BY <1>7, <1>8, <2>1, Zenon
<1>9. CASE Open' /\ More' /\ ~turn.last
  <2>1. More' = (More \/ TRUE)
    BY <1>3, <1>9
  <2>2. QED
    BY <1>7, <1>9, <2>1, Zenon
<1>10. QED
  BY <1>3, <1>5, <1>6, <1>8, <1>9, Zenon

\* A local call is made while the history shows it open.
LEMMA CallsOpen ==
    ASSUME TurnInv, EndOK, [Next]_vars, Going, Going', More', ~More
    PROVE  Open' /\ ~turn.last
<1>1. PICK c \in Calls, p \in Fibers \ {"none"} :
          fiber' = [fiber EXCEPT ![c] = p] /\ (fiber[c] # "none" \/ CallTool(c))
  BY FiberFate DEF More
<1>2. CallTool(c) /\ fiber[c] = "none"
  BY <1>1 DEF More
<1>3. ~Settled(c) /\ ~turn.last /\ turn.at = "streaming"
  BY <1>2 DEF CallTool, Called, Streaming, TurnInv, CallsOK, CallOK
<1>4. tools'[c] = "called" /\ ~Settled(c)'
  BY <1>2, <1>3, CallsAre DEF CallTool, Called, Settled, TurnInv, TurnType
<1>5. QED
  BY <1>3, <1>4, CallsAre DEF Open

\* The user interrupts the session.
LEMMA InterruptIsOfTheSession ==
    ASSUME TurnInv, Interrupt
    PROVE  [SE!Next]_(SE!vars)
<1>1. /\ Going /\ Going' /\ turn'.last = turn.last /\ UNCHANGED <<tools, log, fiber>>
      /\ interrupted = FALSE /\ interrupted' = TRUE
  BY DEF TurnInv, TurnType, Interrupt, Going, Past
<1>2. /\ SeenEntry = [key |-> "session", phase |-> "draining", force |-> FALSE,
                      pendingWake |-> FALSE, stopping |-> FALSE, exit |-> "success"]
      /\ SeenEntry' = [key |-> "session", phase |-> "draining", force |-> FALSE,
                       pendingWake |-> FALSE, stopping |-> TRUE, exit |-> "success"]
  BY <1>1 DEF SeenEntry, Ends
<1>3. /\ SeenClient = [pc |-> "idle", on |-> "nobody"]
      /\ SeenClient' = [pc |-> "interrupt", on |-> "owner"]
  BY <1>1 DEF SeenClient
<1>4. SeenDrain' = SeenDrain /\ Open' = Open /\ ~Ends({"crashed"}) /\ ~Ends({"crashed"})'
  BY <1>1 DEF SeenDrain, SeenAt, SeenStep, More, Open, Settled, Ends
<1>5. SE!Interrupt("client")
  BY <1>1, <1>2, <1>3, <1>4 DEF SE!Interrupt, SE!RC!Interrupt, SE!inboxVars, Boundary
<1>6. QED
  BY <1>5 DEF SE!Next

\* The process dies.
LEMMA CrashIsOfTheSession ==
    ASSUME TurnInv, Crash
    PROVE  [SE!Next]_(SE!vars)
<1>1. /\ ~Going' /\ Going /\ turn'.outcome = "crashed" /\ UNCHANGED <<tools, log>>
      /\ interrupted' = FALSE
  BY DEF TurnInv, TurnType, Crash, Going, Past
<1>2. /\ SeenEntry' = [key |-> "nobody", phase |-> "unused", force |-> FALSE,
                       pendingWake |-> FALSE, stopping |-> FALSE, exit |-> "success"]
      /\ SeenClient' = [pc |-> "idle", on |-> "nobody"]
  BY <1>1 DEF SeenEntry, SeenClient, Ends
<1>3. SeenDrain' = SE!NoDrain
  BY <1>1 DEF SeenDrain, SeenAt, Ends, SE!NoDrain
<1>4. Open' = Open /\ Ends({"crashed"})'
  BY <1>1 DEF Open, Settled, Ends
<1>5. SE!Crash
  BY <1>1, <1>2, <1>3, <1>4
     DEF SE!Crash, SE!RC!Unused, SE!RC!IdleCaller, SE!IdlePrompt, SE!inboxVars, Boundary
<1>6. QED
  BY <1>5 DEF SE!Next

\* The drains that a session sees after a turn.
LEMMA SeenRetry ==
    ASSUME NEW n, NEW seen,
           seen = [SeenAt("provider", "none", n, FALSE, FALSE) EXCEPT
                       !.pc = "turn", !.promotion = "none", !.overflowed = TRUE]
    PROVE  seen = SeenAt("turn", "none", n, FALSE, TRUE)
BY DEF SeenAt

LEMMA SeenNext ==
    ASSUME NEW n, NEW seen,
           seen = [SE!NoDrain EXCEPT !.pc = "turn", !.owner = "owner", !.promotion = "steer",
                                     !.step = n]
    PROVE  seen = SeenAt("turn", "steer", n, FALSE, FALSE)
BY DEF SeenAt, SE!NoDrain

LEMMA SeenLook ==
    ASSUME NEW n, NEW seen,
           seen = [SE!NoDrain EXCEPT !.pc = "checkSteer", !.owner = "owner", !.step = n]
    PROVE  seen = SeenAt("checkSteer", "none", n, FALSE, FALSE)
BY DEF SeenAt, SE!NoDrain

LEMMA CloseIsOfTheSession ==
    ASSUME TurnInv, EndOK, Close
    PROVE  [SE!Next]_(SE!vars)
<1>1. /\ Going /\ ~Going' /\ turn'.outcome = turn.outcome /\ turn'.last = turn.last
      /\ UNCHANGED <<tools, log, fiber, interrupted>> /\ turn.at = "closing"
  BY DEF TurnInv, TurnType, Close, TurnAt, Going, Past
<1>2. /\ turn.outcome \in {"retry", "died", "failed", "interrupted", "continue", "stop"}
      /\ turn.outcome = "continue" => More
      /\ turn.outcome = "interrupted" => interrupted \/ More
      /\ turn.outcome = "retry" => ~More
  BY <1>1 DEF EndOK, TurnInv, TurnType
<1>3. /\ turn.outcome # "died" => ~Open
      /\ Open' = Open /\ SeenStep' = SeenStep /\ SeenClient' = SeenClient
      /\ interrupted \in BOOLEAN /\ Open \in BOOLEAN /\ More \in BOOLEAN
  <2>1. turn.outcome # "died" => ~Open
    BY <1>1, <1>2 DEF TurnInv, ClosingOK, Open
  <2>2. Open' = Open
    BY <1>1 DEF Open, Settled
  <2>3. SeenStep' = SeenStep /\ SeenClient' = SeenClient
    BY <1>1 DEF SeenStep, SeenClient
  <2>4. interrupted \in BOOLEAN /\ Open \in BOOLEAN /\ More \in BOOLEAN
    BY DEF TurnInv, TurnType, Open, More
  <2>5. QED
    BY <2>1, <2>2, <2>3, <2>4
<1>4. /\ \A outcomes : ~Ends(outcomes) /\ (Ends(outcomes)' <=> turn.outcome \in outcomes)
  BY <1>1 DEF Ends
<1>5. SeenDrain = SeenAt("provider", "none", SeenStep, More, FALSE)
  BY <1>1 DEF SeenDrain
<1>6. /\ SE!At("provider") /\ SeenDrain.continue = More /\ SeenDrain.overflowed = FALSE
      /\ SeenDrain.owner = "owner" /\ SeenDrain.step = SeenStep /\ SeenDrain.pc = "provider"
  BY <1>5 DEF SE!At, SeenAt
<1>7. SeenEntry = [key |-> "session", phase |-> "draining", force |-> FALSE,
                   pendingWake |-> FALSE, stopping |-> interrupted, exit |-> "success"]
  BY <1>4 DEF SeenEntry
<1>8. Boundary = FALSE /\ Boundary' = (turn.outcome \notin {"continue", "retry"})
  BY <1>1 DEF Boundary
<1>9. ~Ends({"crashed"}) /\ ~Ends({"crashed"})'
  BY <1>2, <1>4
<1> USE DEF SE!inboxVars, SE!coordVars
<1>10. CASE turn.outcome = "retry"
  <2>1. SeenDrain' = SeenAt("turn", "none", SeenStep, FALSE, TRUE)
    BY <1>1, <1>3, <1>10 DEF SeenDrain, Ends
  <2>2. SeenDrain = SeenAt("provider", "none", SeenStep, FALSE, FALSE)
    BY <1>2, <1>3, <1>5, <1>10
  <2>3. SeenDrain' = [SeenDrain EXCEPT !.pc = "turn", !.promotion = "none", !.overflowed = TRUE]
    BY <2>1, <2>2, SeenRetry, Zenon
  <2>4. SeenEntry' = SeenEntry
    BY <1>1, <1>7, <1>10 DEF SeenEntry, Ends
  <2>5. ~Open /\ Open' = Open /\ ~SeenDrain.continue /\ ~SeenDrain.overflowed
    BY <1>2, <1>3, <1>6, <1>10
  <2>6. Boundary' = Boundary
    BY <1>8, <1>10
  <2>7. SE!RecoverOverflow
    BY <1>3, <1>6, <1>9, <2>3, <2>4, <2>5, <2>6 DEF SE!RecoverOverflow
  <2>8. QED
    BY <2>7 DEF SE!Next, SE!DrainStep
<1>11. CASE turn.outcome \in {"continue", "stop"}
  <2>1. SeenEntry' = SeenEntry
    BY <1>1, <1>7, <1>11 DEF SeenEntry, Ends
  <2>2. ~Open /\ Open' = Open
    BY <1>3, <1>11
  <2>3. CASE turn.outcome = "continue"
    <3>1. SeenDrain' = SeenAt("turn", "steer", SeenStep + 1, FALSE, FALSE)
      BY <1>1, <1>3, <2>3 DEF SeenDrain, Ends
    <3>2. SeenDrain' = [SE!NoDrain EXCEPT !.pc = "turn", !.owner = "owner", !.promotion = "steer",
                                          !.step = SeenStep + 1]
      BY <3>1, SeenNext, Zenon
    <3>3. SeenDrain' = SE!NextTurn("steer", SeenDrain.step + 1)
      BY <1>6, <3>2 DEF SE!NextTurn
    <3>4. SE!FinishTurn
      BY <1>2, <1>3, <1>6, <1>8, <1>9, <2>1, <2>2, <2>3, <3>3 DEF SE!FinishTurn
    <3>5. QED
      BY <3>4 DEF SE!Next, SE!DrainStep
  <2>4. CASE turn.outcome = "stop"
    <3>1. SeenDrain' = SeenAt("checkSteer", "none", SeenStep, FALSE, FALSE)
      BY <1>1, <1>3, <2>4 DEF SeenDrain, Ends
    <3>2. SeenDrain' = [SE!NoDrain EXCEPT !.pc = "checkSteer", !.owner = "owner", !.step = SeenStep]
      BY <3>1, SeenLook, Zenon
    <3>3. SeenDrain' = SE!Look("checkSteer")
      BY <1>6, <3>2 DEF SE!Look
    <3>4. SE!FinishTurn
      BY <1>3, <1>6, <1>8, <1>9, <2>1, <2>2, <2>4, <3>3 DEF SE!FinishTurn
    <3>5. QED
      BY <3>4 DEF SE!Next, SE!DrainStep
  <2>5. QED
    BY <1>11, <2>3, <2>4
<1>12. ASSUME NEW x \in {"failure", "interrupt"},
              x = IF turn.outcome = "interrupted" THEN "interrupt" ELSE "failure",
              turn.outcome \in {"died", "failed", "interrupted"}
       PROVE  SE!End(x) /\ SE!RC!EndDrain("owner")
  <2>1. SeenEntry' = [key |-> "session", phase |-> "exiting", force |-> FALSE,
                      pendingWake |-> FALSE, stopping |-> interrupted, exit |-> x]
    BY <1>1, <1>12 DEF SeenEntry, Ends
  <2>2. SeenDrain' = SE!NoDrain
    BY <1>1, <1>12 DEF SeenDrain, SeenAt, Ends, SE!NoDrain
  <2>3. Boundary' = TRUE
    BY <1>8, <1>12
  <2>4. SE!RC!EndDrain("owner")
    BY <1>3, <1>7, <1>9, <2>1 DEF SE!RC!EndDrain, SE!RC!Exits
  <2>5. QED
    BY <1>6, <2>1, <2>2, <2>3, <2>4 DEF SE!End
<1>13. CASE turn.outcome \in {"died", "failed"}
  <2>1. SE!End("failure")
    BY <1>12, <1>13
  <2>2. SE!FailTurn
    BY <1>3, <1>6, <1>9, <2>1 DEF SE!FailTurn
  <2>3. QED
    BY <2>2 DEF SE!Next, SE!DrainStep
<1>14. CASE turn.outcome = "interrupted"
  <2>1. SE!End("interrupt") /\ Open = FALSE /\ Open' = FALSE
    BY <1>3, <1>12, <1>14
  <2>2. CASE interrupted
    <3>1. SeenDrain # SE!NoDrain
      BY <1>6 DEF SE!NoDrain
    <3>2. SeenEntry.stopping
      BY <1>7, <2>2
    <3>3. SE!NoticeStop
      BY <1>3, <1>6, <1>9, <2>1, <3>1, <3>2 DEF SE!NoticeStop
    <3>4. QED
      BY <3>3 DEF SE!Next, SE!DrainStep
  <2>3. CASE More
    <3>1. SE!DismissQuestion
      BY <1>3, <1>6, <1>9, <2>1, <2>3 DEF SE!DismissQuestion
    <3>2. QED
      BY <3>1 DEF SE!Next, SE!DrainStep
  <2>4. QED
    BY <1>2, <1>14, <2>2, <2>3
<1>15. QED
  BY <1>2, <1>10, <1>11, <1>13, <1>14

LEMMA SessionStep ==
    ASSUME TurnInv, EndOK, [Next]_vars
    PROVE  [SE!Next \/ FailInterruptedTools]_(SE!vars)
<1>1. CASE ~Going
  <2>1. CASE UNCHANGED life
    <3>1. UNCHANGED <<SeenDrain, SeenEntry, SeenClient, Open, Boundary>>
      BY <2>1 DEF life, SeenDrain, SeenAt, SeenStep, SeenEntry, SeenClient, Open, Settled,
         Boundary, Going, Ends, More
    <3>2. Ends({"crashed"})' <=> Ends({"crashed"})
      BY <2>1 DEF life, Ends, Going
    <3>3. QED
      BY <3>1, <3>2 DEF SE!vars, SE!inboxVars, SE!coordVars
  <2>2. QED
    BY <1>1, <2>1, PastStays
<1>2. ASSUME Going, Going', turn'.last = turn.last, interrupted' = interrupted
      PROVE  [SE!Next]_(SE!vars)
  BY <1>2, CallsOpen, MoreStays, GoesOn
<1>3. CASE Going /\ (FromStream \/ FiberStep \/ FromUser \/ UNCHANGED vars)
  BY <1>2, <1>3, TurnGoesOn DEF Going, Past
<1>4. CASE Going /\ Moves
  BY <1>2, <1>4, MovesOn DEF Going, Past
<1>5. CASE Going /\ (Joined \/ JoinFails \/ Halted)
  <2>1. Going' /\ turn'.last = turn.last /\ interrupted' = interrupted
    BY <1>5, Ending DEF TurnInv, TurnType, Going, Past
  <2>2. QED
    BY <1>2, <1>5, <2>1
<1>6. CASE Going /\ (Dismissed \/ Recover)
  <2>1. Going' /\ turn'.last = turn.last /\ interrupted' = interrupted
    BY <1>6 DEF TurnInv, TurnType, Dismissed, Recover, TurnAt, Going, Past
  <2>2. QED
    BY <1>2, <1>6, <2>1
<1>7. CASE Interrupt \/ Crash \/ Close
  BY <1>7, InterruptIsOfTheSession, CrashIsOfTheSession, CloseIsOfTheSession
<1>8. QED
  BY <1>1, <1>3, <1>4, <1>5, <1>6, <1>7, TurnStepIs DEF Next

\* Whatever the fibers of a provider turn, its stream, the user and the desk do between
\* them (runTurnAttempt, publish-llm-event.ts), the session that runs the turn takes one
\* of its own steps or none: calls come and are settled, and the drain goes on as
\* SessionEngine has it.  What a crash or a defect leaves open the next drain settles.
THEOREM TurnsAreSessionSteps == Spec => [][SE!Next \/ FailInterruptedTools]_(SE!vars)
<1>1. Init => EndOK
  BY DEF Init, EndOK, Going, Past
<1>2. IInv /\ EndOK /\ [Next]_vars => EndOK'
  BY EndOKStep DEF IInv
<1>3. IInv /\ EndOK /\ [Next]_vars => [SE!Next \/ FailInterruptedTools]_(SE!vars)
  BY SessionStep DEF IInv
<1>4. QED
  BY <1>1, <1>2, <1>3, Invariance, PTL DEF Spec

-----------------------------------------------------------------------------
(* Dismissed questions.                                                    *)

\* A question that the user dismissed halts the loop of the session, as the comment at
\* llm.ts:143 says, unless another tool failed before the turn learned of it.
DismissalHalts ==
    turn.at = "over" /\ (\E c \in Calls : asker[c] = "dismissed")
        => failure = "other" \/ turn.outcome \notin {"continue", "stop", "retry"}

\* A fiber with a dismissed question has failed or is about to, and a turn that goes on
\* has no fiber that could still fail first.
Halting ==
    /\ \A c \in Calls : asker[c] = "dismissed" => fiber[c] \in {"running", "failed"}
    /\ turn.at = "halting" => interrupted
    /\ turn.at \in {"closing"} \cup Past /\ turn.outcome \in {"continue", "stop", "retry"} =>
           failure # "dismissed" /\ (failure = "other" \/ AtRest)

LEMMA FailedFibersStay ==
    ASSUME IInv, Halting, [Next]_vars, NEW c \in Calls, asker'[c] = "dismissed"
    PROVE  fiber'[c] \in {"running", "failed"}
<1>1. /\ asker \in [Askers -> Places] /\ fiber \in [Calls -> Fibers] /\ DeskInv
      /\ asker[c] = "dismissed" => fiber[c] \in {"running", "failed"}
  BY DEF IInv, DeskInv, DeskType, TurnInv, TurnType, Halting
<1>2. CASE UNCHANGED <<asker, fiber>>
  BY <1>1, <1>2
<1>3. CASE FiberStep
  <2>1. PICK b \in Calls : AtDesk(b) \/ EndTool(b) \/ PublishResult(b) \/ InterruptFiber(b)
    BY <1>3 DEF FiberStep
  <2>2. CASE AtDesk(b)
    BY <1>1, <2>2 DEF AtDesk, AskerStep, Judge, Create, Ask, Notice, GoTo, life, Calls
  <2>3. CASE EndTool(b)
    BY <1>1, <2>3 DEF EndTool, FiberIs, Calls
  <2>4. CASE PublishResult(b)
    BY <1>1, <2>4 DEF PublishResult, FiberIs, desk
  <2>5. CASE InterruptFiber(b)
    BY <1>1, <2>5 DEF InterruptFiber, Leave, GoTo, FiberIs, Interruptible, Calls
  <2>6. QED
    BY <2>1, <2>2, <2>3, <2>4, <2>5
<1>4. CASE FromUser
  <2>1. PICK i \in Repliers : UserStep(i) \/ ReplyStep(i)
    BY <1>4 DEF FromUser
  <2>2. fiber' = fiber
    BY <1>4 DEF FromUser, life
  <2>3. QED
    BY <1>1, <2>1, <2>2, ReplyMovesWaiters DEF Calls
<1>5. CASE Crash
  BY <1>5 DEF Crash, Calls
<1>6. ASSUME NEW b \in Calls, CallTool(b) PROVE fiber'[c] \in {"running", "failed"}
  BY <1>1, <1>6 DEF CallTool, desk
<1>7. CASE FromStream
  BY <1>2, <1>6, <1>7 DEF FromStream, CallDisabledTool, CallHosted, HostedResult,
     HostedDuplicate, StartInput, FinishStep, ProviderError, StreamEnds, desk
<1>8. CASE TurnStep
  BY <1>2, <1>8 DEF TurnStep, Streamed, Cleared, Joined, JoinFails, JoinDismissed, Dismissed,
     JoinInterrupted, Halted, Close, Finish, desk
<1>9. CASE Recover \/ Interrupt \/ FailInterruptedTools \/ UNCHANGED vars
  BY <1>2, <1>9 DEF Recover, Interrupt, FailInterruptedTools, desk, vars, life
<1>10. QED
  BY <1>3, <1>4, <1>5, <1>7, <1>8, <1>9 DEF Next

\* Where every fiber rests nothing fails any more.
LEMMA RestingStays ==
    ASSUME TurnInv, FiberStep \/ FromUser \/ UNCHANGED vars, failure = "other" \/ AtRest,
           failure # "dismissed"
    PROVE  failure' # "dismissed" /\ (failure' = "other" \/ AtRest')
<1>1. CASE FiberStep
  <2>1. ~AtRest
    BY <1>1 DEF FiberStep, AtRest, AtDesk, EndTool, PublishResult, InterruptFiber
  <2>2. QED
    BY <1>1, <2>1 DEF FiberStep, AtDesk, life, EndTool, Fail, PublishResult, InterruptFiber
<1>2. CASE FromUser \/ UNCHANGED vars
  BY <1>2 DEF FromUser, vars, life, AtRest
<1>3. QED
  BY <1>1, <1>2

LEMMA HaltingStep ==
    ASSUME IInv, EndOK, Halting, [Next]_vars
    PROVE  Halting'
<1> DEFINE GoesOnTo == turn.at \in {"closing"} \cup Past
                         /\ turn.outcome \in {"continue", "stop", "retry"}
           Undismissed == failure # "dismissed" /\ (failure = "other" \/ AtRest)
<1>1. TurnInv /\ (turn.at = "halting" => interrupted) /\ (GoesOnTo => Undismissed)
  BY DEF IInv, Halting
<1>2. SUFFICES (turn'.at = "halting" => interrupted') /\ (GoesOnTo' => Undismissed')
  BY FailedFibersStay DEF Halting
<1>3. CASE FromStream \/ FiberStep \/ FromUser \/ UNCHANGED vars
  <2>1. CASE turn' = turn
    <3>1. turn'.at = "halting" => interrupted'
      BY <1>1, <1>3, <2>1, TurnGoesOn
    <3>2. GoesOnTo => ~FromStream
      BY DEF FromStream, CallTool, CallDisabledTool, Called, CallHosted, HostedResult,
         HostedDuplicate, StartInput, FinishStep, ProviderError, StreamEnds, Streaming, Past
    <3>3. QED
      BY <1>1, <1>3, <2>1, <3>1, <3>2, RestingStays
  <2>2. QED
    BY <1>1, <1>3, <2>1, TurnGoesOn DEF Past
<1>4. CASE Moves
  <2>1. turn'.at = "halting" => JoinInterrupted
    BY <1>1, <1>4 DEF Moves, Streamed, Cleared, JoinDismissed, TurnAt, TurnInv, TurnType
  <2>2. JoinInterrupted => interrupted'
    BY DEF JoinInterrupted
  <2>3. QED
    BY <1>1, <1>4, <2>1, <2>2, MovesOn DEF Past
<1>5. CASE Joined \/ JoinFails
  <2>1. turn'.at = "closing" /\ UNCHANGED <<fiber, failure>>
    BY <1>1, <1>5 DEF Joined, JoinFails, Finish, TurnInv, TurnType
  <2>2. failure = "other" \/ (failure = "none" /\ AtRest)
    BY <1>5 DEF Joined, JoinFails
  <2>3. QED
    BY <2>1, <2>2 DEF AtRest
<1>6. CASE Halted
  <2>1. turn'.at = "closing" /\ turn'.outcome = Outcome /\ interrupted
    BY <1>1, <1>6 DEF Halted, Finish, TurnInv, TurnType
  <2>2. Outcome \in {"died", "failed", "interrupted"}
    BY <2>1 DEF Outcome
  <2>3. QED
    BY <2>1, <2>2
<1>7. CASE Dismissed \/ Crash
  <2>1. turn'.at \in {"closing", "over"} /\ turn'.outcome \in {"interrupted", "crashed"}
    BY <1>1, <1>7 DEF Dismissed, Crash, TurnInv, TurnType
  <2>2. QED
    BY <2>1
<1>8. CASE Recover
  <2>1. /\ turn.at = "recovering" /\ turn'.at # "halting" /\ UNCHANGED <<fiber, failure>>
        /\ "started" \notin step
    BY <1>1, <1>8 DEF Recover, TurnAt, TurnInv, TurnType, StartedOK
  <2>2. \A c \in Calls : fiber[c] = "none"
    BY <1>1, <2>1, NothingWasCalled, CallsAre DEF Past, TurnInv, CallsOK, CallOK
  <2>3. failure = "none"
    BY <2>1, <2>2 DEF EndOK, Going, Past, More
  <2>4. QED
    BY <2>1, <2>2, <2>3 DEF AtRest
<1>9. CASE Interrupt
  <2>1. turn'.at = "halting" => interrupted'
    BY <1>9 DEF Interrupt
  <2>2. ~GoesOnTo'
    BY <1>1, <1>9 DEF Interrupt, TurnInv, TurnType, Past
  <2>3. QED
    BY <2>1, <2>2
<1>10. CASE Close \/ FailInterruptedTools
  <2>1. /\ turn'.at \in Past /\ turn'.outcome = turn.outcome /\ turn.at \in {"closing", "over"}
        /\ UNCHANGED <<fiber, failure>>
    BY <1>1, <1>10 DEF Close, FailInterruptedTools, TurnAt, TurnInv, TurnType, Past
  <2>2. QED
    BY <1>1, <2>1 DEF AtRest, Past
<1>11. QED
  BY <1>3, <1>4, <1>5, <1>6, <1>7, <1>8, <1>9, <1>10, TurnStepIs DEF Next

\* Only the failure of another tool lets the loop go on past a dismissed question: the
\* failure that isQuestionRejected sees is the first one, the others are lost.
THEOREM DismissalsHalt == Spec => []DismissalHalts
<1>1. Init => EndOK /\ Halting
  BY DEF Init, DeskInit, EndOK, Halting, Going, Past, Calls
<1>2. IInv /\ EndOK /\ Halting /\ [Next]_vars => EndOK' /\ Halting'
  BY EndOKStep, HaltingStep DEF IInv
<1>3. IInv /\ EndOK /\ Halting => DismissalHalts
  <2> SUFFICES ASSUME IInv, Halting, turn.at = "over", NEW c \in Calls, asker[c] = "dismissed"
               PROVE  failure = "other" \/ turn.outcome \notin {"continue", "stop", "retry"}
    BY DEF DismissalHalts
  <2>1. fiber[c] = "failed"
    BY DEF IInv, TurnInv, CallsOK, CallOK, Halting, Past
  <2>2. failure \in {"other", "dismissed"}
    BY <2>1 DEF IInv, TurnInv, TurnType, CallsOK, CallOK
  <2>3. QED
    BY <2>2 DEF Halting, Past
<1>4. QED
  BY <1>1, <1>2, <1>3, Invariance, PTL DEF Spec

=============================================================================
