----------------------- MODULE SessionHistory_proofs -----------------------
(***************************************************************************)
(* Theorems about SessionHistory, for any sets of prompts, values and      *)
(* clients and any number of events.                                       *)
(*                                                                         *)
(* The argument for the system context.  An epoch is told by the updates   *)
(* behind its baseline (Told), and it has no update behind a compaction    *)
(* that is newer than its baseline (Settled), since after a compaction the *)
(* baseline is replaced before it is updated again.  Only the drain writes *)
(* epochs, and a revert that commits removes the epoch; so what the drain  *)
(* read of epoch and compaction still holds as long as there is an epoch,  *)
(* or no revert has committed (Current).                                   *)
(***************************************************************************)
EXTENDS SessionHistory, TLAPS

Updates(n) == {r \in OfType("system") : r.seq > n}

Told(e) == Tells(e.baseline, Updates(e.seq), e.snapshot)

Settled(e) ==
    \A r \in OfType("system"), c \in OfType("compaction") : c.seq > e.seq => r.seq < c.seq

SettledEpoch == epoch # None => Settled(epoch)

NoUpdatesSince(n) == \A r \in OfType("system") : r.seq <= n

Current == ~drain.disturbed \/ epoch # None

\* Numbers are used once; an input is promoted after its admission.
Numbered ==
    /\ \A r \in rows : r.seq >= 1 /\ r.seq <= seq
    /\ \A r, q \in rows : r.seq = q.seq => r = q
    /\ \A r \in rows : r.type = "user" => r.id \in Prompts
    /\ \A p \in Prompts :
           /\ inbox[p].admitted <= seq /\ inbox[p].promoted <= seq
           /\ inbox[p].promoted = 0 \/ inbox[p].admitted <= inbox[p].promoted

\* What the fields of the drain are, where it uses them.
Equipped ==
    /\ At("number") => drain.value \in Values
    /\ At("insert") \/ At("replace") \/ At("compaction") \/ At("rows") \/ At("request")
           => drain.base \in Epoch
    /\ At("advance") => drain.value \in Values /\ drain.known \in Epoch
    /\ At("idle") => drain = IdleDrain
    /\ At("prepare") \/ drain.read = {}

\* No number stands for an event to come.
Bounded ==
    /\ drain.compaction <= seq
    /\ \A e \in {epoch, drain.known, drain.base} : e # None => e.seq <= seq

\* What the drain has read and holds still.
Informed ==
    /\ At("prepare") /\ "epoch" \in drain.read =>
           /\ epoch # None => drain.known = epoch
           /\ Current /\ drain.known # None => Told(drain.known) /\ Settled(drain.known)
    /\ At("prepare") /\ "compaction" \in drain.read /\ Current =>
           IsLatestCompaction(drain.compaction)
    /\ At("advance") =>
           /\ epoch # None => drain.known = epoch
           /\ Current => /\ Told(drain.known)
                         /\ \A c \in OfType("compaction") : c.seq <= drain.known.seq
    /\ At("insert") => drain.base.baseline = drain.base.snapshot /\ NoUpdatesSince(drain.base.seq)
    /\ At("replace") =>
           /\ drain.base.baseline = drain.base.snapshot
           /\ Current => NoUpdatesSince(drain.base.seq)
    /\ At("promote") /\ drain.base # None /\ ~drain.disturbed => Told(drain.base)
    /\ (At("compaction") \/ At("rows")) /\ ~drain.disturbed => Told(drain.base)
    /\ At("rows") /\ ~drain.disturbed => IsLatestCompaction(drain.compaction)
    /\ At("request") /\ ~drain.disturbed =>
           \E n \in 0 .. seq : /\ IsLatestCompaction(n)
                              /\ drain.loaded = {r \in rows : Visible(r, n, drain.base.seq)}

IInv ==
    /\ TypeOK /\ Equipped /\ Bounded /\ Numbered
    /\ PromptsAreMessages /\ NewestAssistantOnly
    /\ EpochTellsTheTruth /\ SettledEpoch /\ Informed /\ RequestTellsTheContext

-----------------------------------------------------------------------------
(* Types.                                                                  *)

LEMMA BaselineType == \A v \in Values, n \in Nat : Baseline(v, n) \in Epoch
BY DEF Baseline, Epoch

LEMMA MessageType ==
    ASSUME seq \in Nat, NEW t \in {"user", "assistant", "system", "compaction"}, NEW id \in Ids
    PROVE  Message(t, id) \in Row
BY DEF Message, Row

LEMMA IdleType == IdleDrain \in Drain
BY DEF IdleDrain, Drain


LEMMA CoveredType == ASSUME NEW S \in SUBSET Row PROVE Covered(S) \subseteq Nat
BY DEF Covered, Row

LEMMA CloseType == \A r \in Row : Close(r) \in Row
BY DEF Close, Row

\* Every step keeps the types, and leaves the drain with what it needs next.
LEMMA TypeStep == TypeOK /\ Equipped /\ Next => TypeOK' /\ Equipped'
<1> SUFFICES ASSUME TypeOK, Equipped, Next PROVE TypeOK' /\ Equipped'
  OBVIOUS
<1> USE NoneAssumption, IdleType
<1> USE DEF TypeOK, Equipped, At, Go, Stop, stored
<1>1. CASE Begin
  <2>1. PICK place \in {"observe", "promote"} :
            drain' = [IdleDrain EXCEPT !.at = place, !.first = TRUE]
    BY <1>1 DEF Begin
  <2>2. drain' \in Drain /\ drain'.at = place /\ drain'.read = {}
    BY <2>1 DEF Drain, IdleDrain
  <2> QED
    BY <1>1, <2>2 DEF Begin
<1>2. CASE Observe
  <2>1. CASE Stop
    BY <1>2, <2>1 DEF Observe, IdleDrain
  <2>2. CASE ~Stop
    <3>1. PICK v \in Values : drain' = [drain EXCEPT !.at = "number", !.value = v]
      BY <1>2, <2>2 DEF Observe
    <3>2. drain' \in Drain /\ drain'.at = "number" /\ drain'.value \in Values /\ drain'.read = {}
      BY <1>2, <3>1 DEF Observe, Drain
    <3> QED
      BY <1>2, <3>2 DEF Observe
  <2> QED
    BY <2>1, <2>2
<1>3. CASE Number
  <2>1. Baseline(drain.value, seq) \in Epoch
    BY <1>3, BaselineType DEF Number
  <2>2. PICK place \in {"insert", "replace"} :
            drain' = [drain EXCEPT !.at = place, !.known = None, !.value = None,
                                   !.base = Baseline(drain.value, seq)]
    BY <1>3 DEF Number
  <2>3. drain' \in Drain
    BY <2>1, <2>2 DEF Drain
  <2>4. drain'.at = place /\ drain'.base \in Epoch /\ drain'.read = {}
    <3>1. drain'.at = place /\ drain'.base = Baseline(drain.value, seq) /\ drain'.read = drain.read
      BY <2>2 DEF Drain
    <3>2. drain.read = {}
      BY <1>3 DEF Number
    <3> QED
      BY <2>1, <3>1, <3>2
  <2> QED
    BY <1>3, <2>3, <2>4 DEF Number
<1>4. CASE Insert
  <2>1. PICK place \in {"promote", "compaction"} : drain' = [drain EXCEPT !.at = place]
    BY <1>4 DEF Insert
  <2>2. drain' \in Drain /\ drain'.at = place /\ drain'.read = {} /\ drain'.base = drain.base
    BY <1>4, <2>1 DEF Insert, Drain
  <2> QED
    BY <1>4, <2>2 DEF Insert
<1>5. CASE Select
  <2>1. PICK S \in SUBSET Prompts : drain' = [drain EXCEPT
            !.first = FALSE, !.picked = {[id |-> p, admitted |-> inbox[p].admitted] : p \in S}]
    BY <1>5 DEF Select
  <2>2. {[id |-> p, admitted |-> inbox[p].admitted] : p \in S} \subseteq [id : Prompts, admitted : Nat]
    BY DEF Input
  <2>3. drain' \in Drain /\ drain'.at = "promote" /\ drain'.read = {}
    BY <1>5, <2>1, <2>2 DEF Select, Drain
  <2> QED
    BY <1>5, <2>3 DEF Select
<1>6. ASSUME NEW p \in drain.picked, Promote(p) PROVE TypeOK' /\ Equipped'
  <2>1. p \in [id : Prompts, admitted : Nat]
    BY DEF Drain
  <2>2. CASE drain' = IdleDrain
    BY <1>6, <2>1, <2>2 DEF Promote, IdleDrain
  <2>3. CASE drain' # IdleDrain
    <3>1. Message("user", p.id) \in Row
      BY <2>1, MessageType DEF Ids
    <3>2. inbox' \in [Prompts -> Input]
      BY <1>6, <2>1, <2>3 DEF Promote, NextEvent, Input, NoInput
    <3>3. rows' \subseteq Row /\ seq' \in Nat
      BY <1>6, <2>3, <3>1 DEF Promote, NextEvent
    <3>4. drain' \in Drain /\ drain'.at = "promote" /\ drain'.read = {}
      BY <1>6, <2>3 DEF Promote, Drain
    <3> QED
      BY <1>6, <3>2, <3>3, <3>4 DEF Promote
  <2> QED
    BY <2>2, <2>3
<1>7. CASE Promoted
  BY <1>7 DEF Promoted, Drain
<1>8. CASE FindEpoch
  BY <1>8 DEF FindEpoch, Drain
<1>9. CASE FindCompaction
  <2>1. PICK n \in 0 .. seq :
            drain' = [drain EXCEPT !.read = @ \cup {"compaction"}, !.compaction = n]
    BY <1>9 DEF FindCompaction
  <2>2. drain' \in Drain /\ drain'.at = "prepare"
    <3>1. n \in Nat
      OBVIOUS
    <3>2. drain.read \cup {"compaction"} \subseteq {"epoch", "compaction"}
      BY DEF Drain
    <3>3. drain.at = "prepare"
      BY <1>9 DEF FindCompaction
    <3> QED
      BY <2>1, <3>1, <3>2, <3>3 DEF Drain
  <2> QED
    BY <1>9, <2>2 DEF FindCompaction
<1>10. CASE FoundNone
  BY <1>10 DEF FoundNone, Found, Read, Drain
<1>11. CASE KeepBaseline
  BY <1>11 DEF KeepBaseline, Found, Read, Drain
<1>12. CASE Rebuild
  <2>1. PICK v \in Values :
            drain' = [Read EXCEPT !.at = "replace", !.known = None,
                                  !.base = Baseline(v, drain.compaction)]
    BY <1>12 DEF Rebuild
  <2>2. Baseline(v, drain.compaction) \in Epoch
    BY BaselineType DEF Drain
  <2>3. drain' \in Drain /\ drain'.at = "replace" /\ drain'.base \in Epoch /\ drain'.read = {}
    BY <2>1, <2>2 DEF Read, Drain
  <2> QED
    BY <1>12, <2>3 DEF Rebuild
<1>13. CASE Reconcile
  <2>1. PICK v \in Values, place \in {"advance", "number"} :
            drain' = [Read EXCEPT !.at = place, !.value = v]
    BY <1>13 DEF Reconcile
  <2>2. drain.known \in Epoch
    BY <1>13 DEF Reconcile, Drain
  <2>3. drain' \in Drain /\ drain'.at = place /\ drain'.value = v /\ drain'.known = drain.known
        /\ drain'.read = {}
    BY <2>1 DEF Read, Drain
  <2> QED
    BY <1>13, <2>2, <2>3 DEF Reconcile
<1>14. CASE Advance
  <2>1. CASE epoch = None
    <3>1. drain' = IdleDrain /\ UNCHANGED <<seq, rows, epoch, inbox, revert, calls>>
      BY <1>14, <2>1 DEF Advance
    <3> QED
      BY <3>1 DEF IdleDrain
  <2>2. CASE epoch # None
    <3>1. Message("system", seq + 1) \in Row
      BY MessageType DEF Ids
    <3>2. rows' \subseteq Row
      <4>1. rows' = rows \cup {[Message("system", seq + 1) EXCEPT
                                     !.was = drain.known.snapshot, !.now = drain.value]}
        BY <1>14, <2>2 DEF Advance
      <4>2. drain.known.snapshot \in Values /\ drain.value \in Values
        BY <1>14 DEF Advance, Epoch
      <4>3. [Message("system", seq + 1) EXCEPT !.was = drain.known.snapshot, !.now = drain.value] \in Row
        BY <3>1, <4>2 DEF Row
      <4> QED
        BY <4>1, <4>3
    <3>3. epoch' \in Epoch /\ seq' \in Nat
      BY <1>14, <2>2 DEF Advance, Epoch, NextEvent
    <3>4. [drain.known EXCEPT !.snapshot = drain.value] \in Epoch
      BY <1>14 DEF Advance, Epoch
    <3>5. drain' \in Drain /\ drain'.at = "compaction" /\ drain'.base \in Epoch /\ drain'.read = {}
      <4>1. drain' = [drain EXCEPT !.at = "compaction", !.known = None, !.value = None,
                                  !.base = [drain.known EXCEPT !.snapshot = drain.value]]
        BY <1>14, <2>2 DEF Advance
      <4> QED
        BY <1>14, <3>4, <4>1 DEF Advance, Drain
    <3> QED
      BY <1>14, <3>2, <3>3, <3>5 DEF Advance
  <2> QED
    BY <2>1, <2>2
<1>15. CASE Replace
  <2>1. CASE epoch = None
    <3>1. drain' = IdleDrain /\ UNCHANGED <<seq, rows, epoch, inbox, revert, calls>>
      BY <1>15, <2>1 DEF Replace
    <3> QED
      BY <3>1 DEF IdleDrain
  <2>2. CASE epoch # None
    <3>1. drain' = [drain EXCEPT !.at = "compaction"] /\ epoch' = drain.base
      BY <1>15, <2>2 DEF Replace
    <3>2. drain' \in Drain /\ drain'.at = "compaction" /\ drain'.base = drain.base /\ drain'.read = {}
      BY <1>15, <3>1 DEF Replace, Drain
    <3> QED
      BY <1>15, <3>1, <3>2 DEF Replace
  <2> QED
    BY <2>1, <2>2
<1>16. CASE LatestCompaction
  <2>1. PICK n \in 0 .. seq : drain' = [drain EXCEPT !.at = "rows", !.compaction = n]
    BY <1>16 DEF LatestCompaction
  <2>2. drain' \in Drain /\ drain'.at = "rows" /\ drain'.base = drain.base /\ drain'.read = {}
    <3>1. n \in Nat
      OBVIOUS
    <3> QED
      BY <1>16, <2>1, <3>1 DEF LatestCompaction, Drain
  <2> QED
    BY <1>16, <2>2 DEF LatestCompaction
<1>17. CASE LoadRows
  BY <1>17 DEF LoadRows, Drain
<1>18. CASE Summarize
  <2>1. Message("compaction", seq + 1) \in Row
    BY MessageType DEF Ids
  <2>2. Covered(drain.loaded) \subseteq Nat
    BY CoveredType DEF Drain
  <2>3. rows' \subseteq Row
    BY <1>18, <2>1, <2>2 DEF Summarize, Row
  <2> QED
    BY <1>18, <2>3 DEF Summarize, NextEvent, IdleDrain
<1>19. CASE StartStep
  <2>1. Message("assistant", seq + 1) \in Row
    BY MessageType DEF Ids
  <2>2. rows' \subseteq Row
    BY <1>19, <2>1, CloseType DEF StartStep
  <2>3. drain' \in Drain /\ drain'.at = "step" /\ drain'.read = {}
    <3>1. drain' = [IdleDrain EXCEPT !.at = "step", !.assistant = seq + 1]
      BY <1>19 DEF StartStep
    <3>2. seq + 1 \in Nat
      OBVIOUS
    <3>3. PICK n \in Nat : drain' = [IdleDrain EXCEPT !.at = "step", !.assistant = n]
      BY <3>1, <3>2
    <3>4. drain' \in Drain
      BY <3>3 DEF Drain
    <3> QED
      BY <3>3, <3>4 DEF IdleDrain
  <2> QED
    BY <1>19, <2>2, <2>3 DEF StartStep, NextEvent
<1>20. CASE EndStep
  BY <1>20, CloseType DEF EndStep, IdleDrain
<1>21. CASE Abandon
  BY <1>21 DEF Abandon, IdleDrain
<1>22. ASSUME NEW p \in Prompts, Admit(p) PROVE TypeOK' /\ Equipped'
  BY <1>22 DEF Admit, NextEvent, Input
<1>23. ASSUME NEW c \in Clients, BeginStage(c) PROVE TypeOK' /\ Equipped'
  BY <1>23 DEF BeginStage, Row
<1>24. ASSUME NEW c \in Clients, Stage(c) PROVE TypeOK' /\ Equipped'
  BY <1>24 DEF Stage
<1>25. CASE Clear
  BY <1>25 DEF Clear
<1>26. CASE Commit
  <2>1. inbox' \in [Prompts -> Input] /\ rows' \subseteq Row
    BY <1>26 DEF Commit, Input, NoInput
  <2>2. drain' \in Drain /\ Equipped'
    <3>1. CASE drain' = drain
      BY <3>1
    <3>2. CASE drain' # drain
      <4>1. ~At("idle") /\ drain' = [drain EXCEPT !.disturbed = TRUE]
        BY <1>26, <3>2 DEF Commit
      <4>2. drain' \in Drain
        BY <4>1 DEF Drain
      <4>3. drain'.at = drain.at /\ drain'.read = drain.read /\ drain'.value = drain.value /\ drain'.base = drain.base
            /\ drain'.known = drain.known
        BY <4>1 DEF Drain
      <4> QED
        BY <4>1, <4>2, <4>3
    <3> QED
      BY <3>1, <3>2
  <2> QED
    BY <1>26, <2>1, <2>2 DEF Commit
<1>27. CASE Move
  BY <1>27 DEF Move
<1> QED
  BY <1>1, <1>2, <1>3, <1>4, <1>5, <1>6, <1>7, <1>8, <1>9, <1>10, <1>11, <1>12, <1>13, <1>14,
     <1>15, <1>16, <1>17, <1>18, <1>19, <1>20, <1>21, <1>22, <1>23, <1>24, <1>25, <1>26, <1>27
     DEF Next, Turn

-----------------------------------------------------------------------------
(* The projection.                                                         *)

Projection == Numbered /\ PromptsAreMessages /\ NewestAssistantOnly

\* The steps that change rows, inbox or the number.
LEMMA Projected ==
    Next => \/ UNCHANGED <<seq, rows, inbox>>
            \/ \E p \in drain.picked : Promote(p)
            \/ Advance \/ Summarize \/ StartStep \/ EndStep
            \/ \E p \in Prompts : Admit(p)
            \/ Commit
BY DEF Next, Turn, Begin, Observe, Number, Insert, Select, Promoted, FindEpoch, FindCompaction,
       FoundNone, KeepBaseline, Rebuild, Reconcile, Replace, LatestCompaction, LoadRows, Abandon,
       BeginStage, Stage, Clear, Move, stored

\* A row that takes the next number, and no place in inbox or among the
\* assistant rows, disturbs nothing.
LEMMA AppendKeepsProjection ==
    ASSUME TypeOK, Projection, NEW m \in Row, m.seq = seq + 1, m.type \in {"system", "compaction"},
           seq' = seq + 1, rows' = rows \cup {m}, inbox' = inbox, ~m.open
    PROVE  Projection'
<1> USE DEF TypeOK, Projection, Row, Input
<1>1. Numbered'
  BY DEF Numbered
<1>2. PromptsAreMessages'
  BY DEF PromptsAreMessages, OfType
<1>3. NewestAssistantOnly'
  BY DEF NewestAssistantOnly, IsNewest, OfType
<1> QED
  BY <1>1, <1>2, <1>3

LEMMA ProjectionStep == TypeOK /\ Equipped /\ Projection /\ Next => Projection'
<1> SUFFICES ASSUME TypeOK, Equipped, Projection, Next PROVE Projection'
  OBVIOUS
<1> USE DEF TypeOK, Projection
<1>1. CASE UNCHANGED <<seq, rows, inbox>>
  BY <1>1 DEF Numbered, PromptsAreMessages, NewestAssistantOnly, IsNewest, OfType
<1>2. ASSUME NEW p \in drain.picked, Promote(p) PROVE Projection'
  <2>1. CASE UNCHANGED <<seq, rows, inbox>>
    BY <1>1, <2>1
  <2>2. CASE ~UNCHANGED <<seq, rows, inbox>>
    <3> DEFINE m == Message("user", p.id)
    <3>1. p.id \in Prompts
      BY DEF Drain
    <3>2. m \in Row /\ m.seq = seq + 1 /\ m.type = "user" /\ m.id = p.id /\ ~m.open
      BY <3>1, MessageType DEF Ids, Message
    <3>3. seq' = seq + 1 /\ rows' = rows \cup {m}
      BY <1>2, <2>2 DEF Promote, NextEvent
    <3>4. /\ inbox[p.id].promoted = 0
          /\ inbox'[p.id].promoted = seq + 1 /\ inbox'[p.id].admitted <= seq + 1
          /\ \A q \in Prompts \ {p.id} : inbox'[q] = inbox[q]
      BY <1>2, <2>2, <3>1 DEF Promote, NoInput, Input, Numbered
    <3> HIDE DEF m
    <3>5. Numbered'
      BY <3>1, <3>2, <3>3, <3>4 DEF Numbered, Row, Input
    <3>6. PromptsAreMessages'
      <4>1. \A r \in OfType("user") : r.id \in Prompts \ {p.id}
        BY <3>4 DEF PromptsAreMessages, Numbered, OfType, Row
      <4>2. OfType("user")' = OfType("user") \cup {m}
        BY <3>2, <3>3 DEF OfType
      <4>3. \A q \in Prompts : inbox'[q].promoted # 0 =>
                \E r \in OfType("user")' : r.id = q /\ r.seq = inbox'[q].promoted
        BY <3>1, <3>2, <3>4, <4>2 DEF PromptsAreMessages
      <4>4. \A r \in OfType("user")' : inbox'[r.id].promoted = r.seq
        BY <3>2, <3>4, <4>1, <4>2 DEF PromptsAreMessages
      <4> QED
        BY <4>3, <4>4 DEF PromptsAreMessages
    <3>7. NewestAssistantOnly'
      BY <3>2, <3>3 DEF NewestAssistantOnly, IsNewest, OfType
    <3> QED
      BY <3>5, <3>6, <3>7
  <2> QED
    BY <2>1, <2>2
<1>3. CASE Advance
  <2>1. CASE UNCHANGED <<seq, rows, inbox>>
    BY <1>1, <2>1
  <2>2. CASE ~UNCHANGED <<seq, rows, inbox>>
    <3>1. PICK m \in {[Message("system", seq + 1) EXCEPT
                           !.was = drain.known.snapshot, !.now = drain.value]} :
              seq' = seq + 1 /\ rows' = rows \cup {m} /\ inbox' = inbox
      BY <1>3, <2>2 DEF Advance, NextEvent
    <3>2. m.seq = seq + 1 /\ m.type = "system" /\ ~m.open
      BY DEF Message
    <3>3. m \in Row
      BY <3>1, TypeStep
    <3> QED
      BY <3>1, <3>2, <3>3, AppendKeepsProjection
  <2> QED
    BY <2>1, <2>2
<1>4. CASE Summarize
  <2>1. PICK m \in {[Message("compaction", seq + 1) EXCEPT !.covers = Covered(drain.loaded)]} :
            seq' = seq + 1 /\ rows' = rows \cup {m} /\ inbox' = inbox
    BY <1>4 DEF Summarize, NextEvent
  <2>2. m.seq = seq + 1 /\ m.type = "compaction" /\ ~m.open
    BY DEF Message
  <2>3. m \in Row
    BY <2>1, TypeStep
  <2> QED
    BY <2>1, <2>2, <2>3, AppendKeepsProjection
<1>5. CASE StartStep
  <2> DEFINE m == Message("assistant", seq + 1)
             closed == {IF IsNewest(r, "assistant") THEN Close(r) ELSE r : r \in rows}
  <2>1. m \in Row /\ m.seq = seq + 1 /\ m.type = "assistant"
    BY MessageType DEF Ids, Message
  <2>2. seq' = seq + 1 /\ rows' = closed \cup {m} /\ inbox' = inbox
    BY <1>5 DEF StartStep, NextEvent
  <2>3. \A r \in closed : \E q \in rows :
            /\ r = IF IsNewest(q, "assistant") THEN Close(q) ELSE q
            /\ r.seq = q.seq /\ r.type = q.type /\ r.id = q.id
    BY DEF Close, Row
  <2>4. \A r \in closed : r.type = "assistant" => ~r.open
    BY <2>3 DEF NewestAssistantOnly, OfType, Close, Row
  <2>5. \A q \in rows : q.type # "assistant" => q \in closed
    BY DEF IsNewest
  <2> HIDE DEF m, closed
  <2>6. Numbered'
    <3>1. \A r \in rows' : r.seq >= 1 /\ r.seq <= seq'
      BY <2>1, <2>2, <2>3 DEF Numbered, Row
    <3>2. \A r, q \in closed : r.seq = q.seq => r = q
      BY <2>3 DEF Numbered
    <3>3. \A r \in closed : r.seq <= seq /\ r.seq \in Nat
      BY <2>3 DEF Numbered, Row
    <3>4. \A r, q \in rows' : r.seq = q.seq => r = q
      BY <2>1, <2>2, <3>2, <3>3
    <3>5. \A p \in Prompts : inbox[p].admitted \in Nat /\ inbox[p].promoted \in Nat
      BY DEF Input
    <3>6. \A r \in rows' : r.type = "user" => r.id \in Prompts
      BY <2>1, <2>2, <2>3 DEF Numbered
    <3> QED
      BY <2>2, <3>1, <3>4, <3>5, <3>6 DEF Numbered
  <2>7. PromptsAreMessages'
    <3>1. OfType("user")' = OfType("user")
      BY <2>1, <2>2, <2>3, <2>5 DEF OfType, IsNewest
    <3> QED
      BY <2>2, <3>1 DEF PromptsAreMessages
  <2>8. NewestAssistantOnly'
    BY <2>1, <2>2, <2>3, <2>4 DEF NewestAssistantOnly, IsNewest, OfType, Numbered, Row
  <2> QED
    BY <2>6, <2>7, <2>8
<1>6. CASE EndStep
  <2> DEFINE closed(r) == IF r.type = "assistant" /\ r.seq = drain.assistant THEN Close(r) ELSE r
  <2>1. seq' = seq /\ rows' = {closed(r) : r \in rows} /\ inbox' = inbox
    BY <1>6 DEF EndStep
  <2>2. \A r \in rows : /\ closed(r).seq = r.seq /\ closed(r).type = r.type
                        /\ closed(r).open => r.open
                        /\ r.type # "assistant" => closed(r) = r
    BY DEF Close, Row
  <2> HIDE DEF closed
  <2>3. Numbered'
    BY <2>1, <2>2 DEF Numbered
  <2>4. OfType("user")' = OfType("user")
    BY <2>1, <2>2 DEF OfType
  <2>5. PromptsAreMessages'
    BY <2>1, <2>4 DEF PromptsAreMessages
  <2>6. NewestAssistantOnly'
    BY <2>1, <2>2 DEF NewestAssistantOnly, IsNewest, OfType
  <2> QED
    BY <2>3, <2>5, <2>6
<1>7. ASSUME NEW p \in Prompts, Admit(p) PROVE Projection'
  <2>1. /\ seq' = seq + 1 /\ rows' = rows
        /\ inbox'[p] = [admitted |-> seq + 1, promoted |-> 0] /\ inbox[p].promoted = 0
        /\ \A q \in Prompts \ {p} : inbox'[q] = inbox[q]
    BY <1>7 DEF Admit, NextEvent, NoInput
  <2>2. Numbered'
    BY <2>1 DEF Numbered, Row, Input
  <2>3. PromptsAreMessages'
    <3>1. \A r \in OfType("user") : r.id \in Prompts \ {p}
      BY <1>7 DEF Admit, OfType, Numbered
    <3> QED
      BY <2>1, <3>1 DEF PromptsAreMessages, OfType
  <2>4. NewestAssistantOnly'
    BY <2>1 DEF NewestAssistantOnly, IsNewest, OfType
  <2> QED
    BY <2>2, <2>3, <2>4
<1>8. CASE Commit
  <2>1. CASE UNCHANGED <<seq, rows, inbox>>
    BY <1>1, <2>1
  <2>2. CASE ~UNCHANGED <<seq, rows, inbox>>
    <3>1. PICK b \in rows :
              /\ seq' = seq /\ rows' = {r \in rows : r.seq <= b.seq}
              /\ inbox' = [p \in Prompts |-> IF After(inbox[p], b.seq) THEN NoInput ELSE inbox[p]]
      BY <1>8, <2>2 DEF Commit
    <3>2. b.seq \in Nat /\ \A r \in rows : r.seq \in Nat
      BY DEF Row
    <3>3. \A p \in Prompts :
              /\ inbox[p].admitted \in Nat /\ inbox[p].promoted \in Nat
              /\ \/ inbox'[p] = NoInput
                 \/ inbox'[p] = inbox[p] /\ inbox[p].promoted <= b.seq
              /\ inbox[p].promoted # 0 /\ inbox[p].promoted <= b.seq => inbox'[p] = inbox[p]
      BY <3>1, <3>2 DEF After, Input, Numbered
    <3>4. Numbered'
      BY <3>1, <3>2, <3>3 DEF Numbered, NoInput
    <3>5. PromptsAreMessages'
      <4>1. \A p \in Prompts : inbox'[p].promoted # 0 =>
                \E r \in OfType("user")' : r.id = p /\ r.seq = inbox'[p].promoted
        BY <3>1, <3>3 DEF PromptsAreMessages, OfType, NoInput
      <4>2. \A r \in OfType("user") : r.id \in Prompts /\ r.seq # 0
        BY DEF Numbered, OfType
      <4>3. \A r \in OfType("user")' : inbox'[r.id].promoted = r.seq
        BY <3>1, <3>3, <4>2 DEF PromptsAreMessages, OfType
      <4> QED
        BY <4>1, <4>3 DEF PromptsAreMessages
    <3>6. NewestAssistantOnly'
      BY <3>1 DEF NewestAssistantOnly, IsNewest, OfType
    <3> QED
      BY <3>4, <3>5, <3>6
  <2> QED
    BY <2>1, <2>2
<1> QED
  BY <1>1, <1>2, <1>3, <1>4, <1>5, <1>6, <1>7, <1>8, Projected

-----------------------------------------------------------------------------
(* The system context.                                                     *)

LEMMA TellsNothing == \A v : Tells(v, {}, v)
BY DEF Tells

\* A further update goes on from the last one.
LEMMA TellsMore ==
    ASSUME NEW S, NEW b, NEW v, NEW m, Tells(b, S, v), m.was = v, m.seq \in Nat,
           \A r \in S : r.seq \in Nat /\ r.seq < m.seq
    PROVE  Tells(b, S \cup {m}, m.now)
<1> DEFINE T == S \cup {m}
<1>1. \A r \in T : r.seq <= m.seq
  OBVIOUS
<1>2. \A r \in S :
          \/ r.was = b /\ \A q \in T : r.seq <= q.seq
          \/ \E q \in T : /\ q.seq < r.seq /\ q.now = r.was
                          /\ \A t \in T : t.seq <= q.seq \/ r.seq <= t.seq
  <2> SUFFICES ASSUME NEW r \in S
               PROVE  \/ r.was = b /\ \A q \in T : r.seq <= q.seq
                      \/ \E q \in T : /\ q.seq < r.seq /\ q.now = r.was
                                      /\ \A t \in T : t.seq <= q.seq \/ r.seq <= t.seq
    OBVIOUS
  <2>1. CASE r.was = b /\ \A q \in S : r.seq <= q.seq
    BY <2>1
  <2>2. CASE \E q \in S : /\ q.seq < r.seq /\ q.now = r.was
                          /\ \A t \in S : t.seq <= q.seq \/ r.seq <= t.seq
    BY <2>2
  <2> QED
    BY <2>1, <2>2 DEF Tells
<1>3. \/ m.was = b /\ \A q \in T : m.seq <= q.seq
      \/ \E q \in T : /\ q.seq < m.seq /\ q.now = m.was
                      /\ \A t \in T : t.seq <= q.seq \/ m.seq <= t.seq
  <2>1. CASE S = {} /\ v = b
    BY <2>1
  <2>2. CASE \E r \in S : r.now = v /\ \A q \in S : q.seq <= r.seq
    BY <2>2
  <2> QED
    BY <2>1, <2>2 DEF Tells
<1> QED
  BY <1>1, <1>2, <1>3 DEF Tells

Context == EpochTellsTheTruth /\ SettledEpoch /\ Informed /\ RequestTellsTheContext

\* A baseline without updates behind it tells its value, and is settled.
LEMMA FreshBaseline ==
    ASSUME NEW e \in Epoch, rows \subseteq Row, e.baseline = e.snapshot, NoUpdatesSince(e.seq)
    PROVE  Told(e) /\ Settled(e)
<1>1. Updates(e.seq) = {}
  BY DEF Updates, NoUpdatesSince, OfType, Row, Epoch
<1>2. Told(e)
  BY <1>1, TellsNothing DEF Told
<1>3. Settled(e)
  BY DEF Settled, NoUpdatesSince, OfType, Row, Epoch
<1> QED
  BY <1>2, <1>3

\* What a step leaves in these fields was there before, or is the number of
\* an event that has happened.
LEMMA BoundedStep == TypeOK /\ Equipped /\ Bounded /\ Next => Bounded'
<1> SUFFICES ASSUME TypeOK, Equipped, Bounded, Next PROVE Bounded'
  OBVIOUS
<1> USE NoneAssumption
<1> DEFINE Old(e) == e \in {None, epoch, drain.known, drain.base}
           Fine == /\ seq' \in {seq, seq + 1}
                   /\ drain'.compaction \in {0, drain.compaction}
                   /\ Old(epoch') /\ Old(drain'.known) /\ Old(drain'.base)
<1>0. ASSUME Fine PROVE Bounded'
  BY <1>0 DEF Bounded, TypeOK, Drain, Epoch
<1>1. CASE Begin
  <2>1. Fine
    BY <1>1 DEF Begin, stored, Equipped, IdleDrain, TypeOK, Drain
  <2> QED
    BY <1>0, <2>1
<1>2. CASE Insert
  <2>1. Fine
    BY <1>2 DEF Insert, Go, TypeOK, Drain
  <2> QED
    BY <1>0, <2>1
<1>3. CASE Promoted
  <2>1. Fine
    BY <1>3 DEF Promoted, stored, Go, TypeOK, Drain
  <2> QED
    BY <1>0, <2>1
<1>4. CASE FindEpoch
  <2>1. Fine
    BY <1>4 DEF FindEpoch, stored, TypeOK, Drain
  <2> QED
    BY <1>0, <2>1
<1>5. CASE FoundNone
  <2>1. Fine
    BY <1>5 DEF FoundNone, stored, Read, TypeOK, Drain
  <2> QED
    BY <1>0, <2>1
<1>6. CASE KeepBaseline
  <2>1. Fine
    BY <1>6 DEF KeepBaseline, stored, Read, TypeOK, Drain
  <2> QED
    BY <1>0, <2>1
<1>7. CASE Summarize
  <2>1. Fine
    BY <1>7 DEF Summarize, NextEvent, Stop, IdleDrain, TypeOK, Drain
  <2> QED
    BY <1>0, <2>1
<1>8. CASE StartStep
  <2>1. Fine
    BY <1>8 DEF StartStep, NextEvent, IdleDrain, TypeOK, Drain
  <2> QED
    BY <1>0, <2>1
<1>9. CASE EndStep
  <2>1. Fine
    BY <1>9 DEF EndStep, Stop, IdleDrain, TypeOK, Drain
  <2> QED
    BY <1>0, <2>1
<1>10. CASE Abandon
  <2>1. Fine
    BY <1>10 DEF Abandon, stored, Stop, IdleDrain, TypeOK, Drain
  <2> QED
    BY <1>0, <2>1
<1>11. CASE Commit
  <2>1. Fine
    BY <1>11 DEF Commit, At, TypeOK, Drain
  <2> QED
    BY <1>0, <2>1
<1>12. CASE Observe
  <2>1. CASE Stop
    <3>1. Fine
      BY <1>12, <2>1 DEF Observe, stored, Stop, IdleDrain
    <3> QED
      BY <1>0, <3>1
  <2>2. CASE ~Stop
    <3>1. PICK v \in Values : drain' = [drain EXCEPT !.at = "number", !.value = v]
      BY <1>12, <2>2 DEF Observe
    <3>2. Fine
      BY <1>12, <3>1 DEF Observe, stored, TypeOK, Drain
    <3> QED
      BY <1>0, <3>2
  <2> QED
    BY <2>1, <2>2
<1>13. CASE Number
  <2>1. /\ seq' = seq /\ epoch' = epoch /\ drain'.compaction = drain.compaction
        /\ drain'.known = None /\ drain'.base = Baseline(drain.value, seq)
    BY <1>13 DEF Number, stored, TypeOK, Drain
  <2>2. drain'.base.seq = seq
    BY <2>1 DEF Baseline
  <2> QED
    BY <2>1, <2>2 DEF Bounded, TypeOK
<1>14. CASE Select
  <2>1. Fine
    BY <1>14 DEF Select, stored, TypeOK, Drain
  <2> QED
    BY <1>0, <2>1
<1>15. ASSUME NEW p \in drain.picked, Promote(p) PROVE Bounded'
  <2>1. Fine
    BY <1>15 DEF Promote, NextEvent, Stop, IdleDrain, TypeOK, Drain
  <2> QED
    BY <1>0, <2>1
<1>16. CASE FindCompaction
  <2>1. seq' = seq /\ epoch' = epoch
    BY <1>16 DEF FindCompaction, stored
  <2>2. drain'.known = drain.known /\ drain'.base = drain.base /\ drain'.compaction <= seq
    BY <1>16 DEF FindCompaction, TypeOK, Drain
  <2> QED
    BY <2>1, <2>2 DEF Bounded
<1>17. CASE LatestCompaction
  <2>1. seq' = seq /\ epoch' = epoch
    BY <1>17 DEF LatestCompaction, stored
  <2>2. drain'.known = drain.known /\ drain'.base = drain.base /\ drain'.compaction <= seq
    BY <1>17 DEF LatestCompaction, TypeOK, Drain
  <2> QED
    BY <2>1, <2>2 DEF Bounded
<1>18. CASE Rebuild
  <2>1. PICK v \in Values : drain' = [Read EXCEPT !.at = "replace", !.known = None,
                                                  !.base = Baseline(v, drain.compaction)]
    BY <1>18 DEF Rebuild
  <2>2. /\ seq' = seq /\ epoch' = epoch /\ drain'.compaction = 0
        /\ drain'.known = None /\ drain'.base = Baseline(v, drain.compaction)
    BY <1>18, <2>1 DEF Rebuild, Read, stored, TypeOK, Drain
  <2>3. drain'.base.seq = drain.compaction
    BY <2>2 DEF Baseline
  <2> QED
    BY <2>2, <2>3 DEF Bounded, TypeOK
<1>19. CASE Reconcile
  <2>1. Fine
    BY <1>19 DEF Reconcile, stored, Read, TypeOK, Drain
  <2> QED
    BY <1>0, <2>1
<1>20. CASE Advance
  <2>1. CASE epoch = None
    <3>1. Fine
      BY <1>20, <2>1 DEF Advance, Stop, IdleDrain
    <3> QED
      BY <1>0, <3>1
  <2>2. CASE epoch # None
    <3>1. drain' = [drain EXCEPT !.at = "compaction", !.known = None, !.value = None,
                                 !.base = [drain.known EXCEPT !.snapshot = drain.value]]
          /\ epoch' = [epoch EXCEPT !.snapshot = drain.value] /\ seq' = seq + 1
      BY <1>20, <2>2 DEF Advance, NextEvent
    <3>2. drain.known \in Epoch /\ epoch \in Epoch
      BY <1>20, <2>2 DEF Advance, Equipped, TypeOK
    <3>3. epoch'.seq = epoch.seq /\ [drain.known EXCEPT !.snapshot = drain.value].seq = drain.known.seq
      BY <3>1, <3>2 DEF Epoch
    <3>4. /\ drain'.compaction = drain.compaction /\ drain'.known = None
          /\ drain'.base = [drain.known EXCEPT !.snapshot = drain.value]
      BY <3>1 DEF TypeOK, Drain
    <3>5. epoch.seq <= seq /\ drain.known.seq <= seq /\ drain.compaction <= seq
      BY <3>2 DEF Bounded
    <3>6. epoch.seq \in Nat /\ drain.known.seq \in Nat /\ drain.compaction \in Nat /\ seq \in Nat
      BY <3>2 DEF TypeOK, Epoch, Drain
    <3> QED
      BY <3>1, <3>3, <3>4, <3>5, <3>6 DEF Bounded
  <2> QED
    BY <2>1, <2>2
<1>21. CASE Replace
  <2>1. CASE epoch = None
    <3>1. Fine
      BY <1>21, <2>1 DEF Replace, Stop, IdleDrain
    <3> QED
      BY <1>0, <3>1
  <2>2. CASE epoch # None
    <3>1. Fine
      BY <1>21, <2>2 DEF Replace, Go, TypeOK, Drain
    <3> QED
      BY <1>0, <3>1
  <2> QED
    BY <2>1, <2>2
<1>22. CASE LoadRows
  <2>1. Fine
    BY <1>22 DEF LoadRows, stored, TypeOK, Drain
  <2> QED
    BY <1>0, <2>1
<1>23. CASE \/ \E p \in Prompts : Admit(p)
            \/ \E c \in Clients : BeginStage(c) \/ Stage(c)
            \/ Clear \/ Move
  <2>1. drain' = drain /\ epoch' \in {epoch, None} /\ seq' \in {seq, seq + 1}
    BY <1>23 DEF Admit, NextEvent, BeginStage, Stage, Clear, Move, stored
  <2>2. Fine
    BY <2>1
  <2> QED
    BY <1>0, <2>2
<1> QED
  BY <1>1, <1>2, <1>3, <1>4, <1>5, <1>6, <1>7, <1>8, <1>9, <1>10, <1>11, <1>12, <1>13, <1>14,
     <1>15, <1>16, <1>17, <1>18, <1>19, <1>20, <1>21, <1>22, <1>23
     DEF Next, Turn

LEMMA EpochStays ==
    ASSUME EpochTellsTheTruth, SettledEpoch, epoch' \in {epoch, None},
           OfType("system")' = OfType("system"), OfType("compaction")' = OfType("compaction")
    PROVE  EpochTellsTheTruth' /\ SettledEpoch'
BY DEF EpochTellsTheTruth, SettledEpoch, Settled

LEMMA Uninformed ==
    ASSUME drain'.at \in {"idle", "observe", "number", "step"}
    PROVE  Informed' /\ RequestTellsTheContext'
BY DEF Informed, RequestTellsTheContext, At

\* The drain stays where it is, and no row that matters to it comes or goes.
LEMMA DrainStays ==
    ASSUME Informed, RequestTellsTheContext, drain' = drain, rows' = rows, epoch' \in {epoch, None},
           seq \in Nat, seq' \in Nat, seq <= seq'
    PROVE  Informed' /\ RequestTellsTheContext'
<1> USE DEF At, OfType, Told, Updates, Settled, Current, IsLatestCompaction, NoUpdatesSince, Visible
<1>1. RequestTellsTheContext'
  BY DEF RequestTellsTheContext
<1>2. Informed'
  BY DEF Informed
<1> QED
  BY <1>1, <1>2

LEMMA ContextStep ==
    ASSUME TypeOK, TypeOK', Equipped, Equipped', Bounded, Numbered, Numbered', Context, Next
    PROVE  Context'
<1> USE DEF Context
<1> USE NoneAssumption
<1> DEFINE Same == rows' = rows /\ epoch' = epoch /\ seq' = seq
<1>0. ASSUME Same PROVE EpochTellsTheTruth' /\ SettledEpoch'
  BY <1>0, EpochStays DEF OfType
<1>1. CASE Begin
  <2>1. Same /\ drain = IdleDrain
    BY <1>1 DEF Begin, stored, Equipped
  <2>2. drain'.at \in {"observe", "promote"} /\ drain'.base = None
    BY <1>1, <2>1 DEF Begin, IdleDrain
  <2> QED
    BY <1>0, <2>1, <2>2 DEF Informed, RequestTellsTheContext, At
<1>2. CASE Observe
  <2>1. Same /\ drain'.at \in {"idle", "number"}
    <3>1. CASE Stop
      BY <1>2, <3>1 DEF Observe, stored, Stop, IdleDrain
    <3>2. CASE ~Stop
      BY <1>2, <3>2 DEF Observe, stored, TypeOK, Drain
    <3> QED
      BY <3>1, <3>2
  <2> QED
    BY <1>0, <2>1, Uninformed
<1>3. CASE Number
  <2>1. Same /\ drain'.at \in {"insert", "replace"} /\ drain'.base = Baseline(drain.value, seq)
    BY <1>3 DEF Number, stored, TypeOK, Drain
  <2>2. drain'.base.baseline = drain'.base.snapshot /\ drain'.base.seq = seq
    BY <2>1 DEF Baseline
  <2>3. NoUpdatesSince(drain.base.seq)'
    BY <2>1, <2>2 DEF NoUpdatesSince, OfType, Numbered
  <2> QED
    BY <1>0, <2>1, <2>2, <2>3 DEF Informed, RequestTellsTheContext, At
<1>4. CASE Insert
  <2>1. rows' = rows /\ epoch' = drain.base /\ drain.base \in Epoch
    BY <1>4 DEF Insert, Equipped
  <2>2. drain'.at \in {"promote", "compaction"} /\ drain'.base = drain.base
    BY <1>4 DEF Insert, Go, TypeOK, Drain
  <2>3. Told(drain.base) /\ Settled(drain.base)
    BY <1>4, <2>1, FreshBaseline DEF Insert, Informed, TypeOK
  <2>4. EpochTellsTheTruth' /\ SettledEpoch'
    BY <2>1, <2>3 DEF EpochTellsTheTruth, SettledEpoch, Told, Updates, Settled, OfType
  <2>5. Told(drain.base)'
    BY <2>1, <2>2, <2>3 DEF Told, Updates, OfType
  <2> QED
    BY <2>2, <2>4, <2>5 DEF Informed, RequestTellsTheContext, At
<1>5. CASE Select
  <2>1. Same
    BY <1>5 DEF Select, stored
  <2>2. /\ drain.at = "promote" /\ drain'.at = "promote"
        /\ drain'.base = drain.base /\ drain'.disturbed = drain.disturbed
    BY <1>5 DEF Select, At, TypeOK, Drain
  <2>3. Told(drain.base) => Told(drain.base)'
    BY <2>1, <2>2 DEF Told, Updates, OfType
  <2> QED
    BY <1>0, <2>1, <2>2, <2>3 DEF Informed, RequestTellsTheContext, At
<1>6. ASSUME NEW p \in drain.picked, Promote(p) PROVE Context'
  <2>1. CASE drain'.at = "idle"
    <3>1. drain'.at # "promote"
      BY <2>1
    <3>2. Same
      BY <1>6, <3>1 DEF Promote, At, TypeOK, Drain
    <3> QED
      BY <1>0, <2>1, <3>2, Uninformed
  <2>2. CASE drain'.at # "idle"
    <3>1. rows' = rows \cup {Message("user", p.id)} /\ epoch' = epoch
      BY <1>6, <2>2 DEF Promote, Stop, IdleDrain
    <3>2. OfType("system")' = OfType("system") /\ OfType("compaction")' = OfType("compaction")
      BY <3>1 DEF OfType, Message
    <3>3. /\ drain.at = "promote" /\ drain'.at = "promote"
          /\ drain'.base = drain.base /\ drain'.disturbed = drain.disturbed
      BY <1>6, <2>2 DEF Promote, Stop, IdleDrain, At, TypeOK, Drain
    <3>4. Told(drain.base) => Told(drain.base)'
      BY <3>2, <3>3 DEF Told, Updates
    <3> QED
      BY <3>1, <3>2, <3>3, <3>4, EpochStays DEF Informed, RequestTellsTheContext, At
  <2> QED
    BY <2>1, <2>2
<1>7. CASE Promoted
  <2>1. Same
    BY <1>7 DEF Promoted, stored
  <2>2. /\ drain.at = "promote" /\ drain.read = {}
        /\ drain'.at = IF drain.base = None THEN "prepare" ELSE "compaction"
        /\ drain'.base = drain.base /\ drain'.disturbed = drain.disturbed /\ drain'.read = {}
    BY <1>7 DEF Promoted, Go, At, TypeOK, Drain, Equipped
  <2>3. Told(drain.base) => Told(drain.base)'
    BY <2>1, <2>2 DEF Told, Updates, OfType
  <2> QED
    BY <1>0, <2>1, <2>2, <2>3 DEF Informed, RequestTellsTheContext, At
<1>8. CASE FindEpoch
  <2>1. Same
    BY <1>8 DEF FindEpoch, stored
  <2>2. /\ drain.at = "prepare" /\ drain'.at = "prepare" /\ drain'.known = epoch
        /\ drain'.disturbed = drain.disturbed /\ drain'.compaction = drain.compaction
        /\ "compaction" \in drain'.read => "compaction" \in drain.read
    BY <1>8 DEF FindEpoch, At, TypeOK, Drain
  <2>3. drain'.known # None => (Told(drain.known) /\ Settled(drain.known))'
    BY <1>0, <2>1, <2>2 DEF EpochTellsTheTruth, SettledEpoch, Told, Updates, Settled, OfType
  <2>4. (Current /\ "compaction" \in drain.read)' => IsLatestCompaction(drain.compaction)'
    BY <2>1, <2>2 DEF Informed, At, Current, IsLatestCompaction, OfType
  <2> QED
    BY <1>0, <2>1, <2>2, <2>3, <2>4 DEF Informed, RequestTellsTheContext, At
<1>9. CASE FindCompaction
  <2>1. Same
    BY <1>9 DEF FindCompaction, stored
  <2>2. /\ drain.at = "prepare" /\ drain'.at = "prepare" /\ drain'.known = drain.known
        /\ drain'.disturbed = drain.disturbed /\ IsLatestCompaction(drain'.compaction)
        /\ "epoch" \in drain'.read => "epoch" \in drain.read
    BY <1>9 DEF FindCompaction, At, TypeOK, Drain
  <2>3. IsLatestCompaction(drain.compaction)'
    BY <2>1, <2>2 DEF IsLatestCompaction, OfType
  <2>4. Told(drain.known) /\ Settled(drain.known) => (Told(drain.known) /\ Settled(drain.known))'
    BY <2>1, <2>2 DEF Told, Updates, Settled, OfType
  <2>5. Current' => Current
    BY <2>1, <2>2 DEF Current
  <2> QED
    BY <1>0, <2>1, <2>2, <2>3, <2>4, <2>5 DEF Informed, RequestTellsTheContext, At
<1>10. CASE FoundNone
  <2>1. Same /\ drain'.at = "observe"
    BY <1>10 DEF FoundNone, stored, Read, TypeOK, Drain
  <2> QED
    BY <1>0, <2>1, Uninformed
<1>11. CASE KeepBaseline
  <2>1. Same
    BY <1>11 DEF KeepBaseline, stored
  <2>2. /\ drain.at = "prepare" /\ "epoch" \in drain.read /\ drain.known # None
        /\ drain'.at = "compaction" /\ drain'.base = drain.known
        /\ drain'.disturbed = drain.disturbed
    BY <1>11 DEF KeepBaseline, Found, Read, At, TypeOK, Drain
  <2>3. Told(drain.known) => Told(drain.base)'
    BY <2>1, <2>2 DEF Told, Updates, OfType
  <2> QED
    BY <1>0, <2>1, <2>2, <2>3 DEF Informed, RequestTellsTheContext, At, Current
<1>12. CASE Rebuild
  <2>1. Same
    BY <1>12 DEF Rebuild, stored
  <2>2. /\ drain.at = "prepare" /\ drain.read = {"epoch", "compaction"} /\ drain.known \in Epoch
        /\ drain.compaction > drain.known.seq /\ drain.compaction \in Nat
    BY <1>12 DEF Rebuild, Compacted, Found, At, TypeOK, Drain
  <2>3. PICK v \in Values : drain' = [Read EXCEPT !.at = "replace", !.known = None,
                                                  !.base = Baseline(v, drain.compaction)]
    BY <1>12 DEF Rebuild
  <2>4. /\ drain'.at = "replace" /\ drain'.disturbed = drain.disturbed
        /\ drain'.base = Baseline(v, drain.compaction)
    BY <2>3 DEF Read, TypeOK, Drain
  <2>5. Current => NoUpdatesSince(drain.compaction)
    <3> SUFFICES ASSUME Current PROVE NoUpdatesSince(drain.compaction)
      OBVIOUS
    <3>1. Settled(drain.known) /\ IsLatestCompaction(drain.compaction)
      BY <2>2 DEF Informed, At
    <3>2. \E c \in OfType("compaction") : c.seq = drain.compaction
      BY <2>2, <3>1 DEF IsLatestCompaction, Epoch
    <3> QED
      BY <2>2, <3>1, <3>2 DEF Settled, NoUpdatesSince, OfType, TypeOK, Row
  <2>6. drain'.base.baseline = drain'.base.snapshot /\ drain'.base.seq = drain.compaction
    BY <2>4 DEF Baseline
  <2>7. Current' => NoUpdatesSince(drain.base.seq)'
    BY <2>1, <2>4, <2>5, <2>6 DEF Current, NoUpdatesSince, OfType
  <2> QED
    BY <1>0, <2>1, <2>4, <2>6, <2>7 DEF Informed, RequestTellsTheContext, At
<1>13. CASE Reconcile
  <2>1. Same
    BY <1>13 DEF Reconcile, stored
  <2>2. /\ drain.at = "prepare" /\ drain.read = {"epoch", "compaction"} /\ drain.known \in Epoch
        /\ ~(drain.compaction > drain.known.seq) /\ drain.compaction \in Nat
    BY <1>13 DEF Reconcile, Compacted, Found, At, TypeOK, Drain
  <2>3. /\ drain'.at \in {"advance", "number"} /\ drain'.disturbed = drain.disturbed
        /\ drain'.known = drain.known
    BY <1>13 DEF Reconcile, Read, TypeOK, Drain
  <2>4. Current => /\ Told(drain.known)
                   /\ \A c \in OfType("compaction") : c.seq <= drain.known.seq
    <3> SUFFICES ASSUME Current
                 PROVE  /\ Told(drain.known)
                        /\ \A c \in OfType("compaction") : c.seq <= drain.known.seq
      OBVIOUS
    <3>1. Told(drain.known) /\ IsLatestCompaction(drain.compaction)
      BY <2>2 DEF Informed, At
    <3>2. \A c \in OfType("compaction") : c.seq <= drain.compaction
      BY <3>1 DEF IsLatestCompaction
    <3> QED
      BY <2>2, <3>1, <3>2 DEF Epoch, OfType, TypeOK, Row
  <2>5. Current' => /\ Told(drain.known)'
                    /\ \A c \in OfType("compaction")' : c.seq <= drain'.known.seq
    BY <2>1, <2>3, <2>4 DEF Current, Told, Updates, OfType
  <2>6. epoch' # None => drain'.known = epoch'
    BY <2>1, <2>2, <2>3 DEF Informed, At
  <2> QED
    BY <1>0, <2>1, <2>3, <2>5, <2>6 DEF Informed, RequestTellsTheContext, At
<1>14. CASE Advance
  <2>1. CASE epoch = None
    <3>1. Same /\ drain'.at = "idle"
      BY <1>14, <2>1 DEF Advance, Stop, IdleDrain
    <3> QED
      BY <1>0, <3>1, Uninformed
  <2>2. CASE epoch # None
    <3>1. /\ epoch \in Epoch /\ drain.known = epoch /\ Told(epoch) /\ Settled(epoch)
          /\ \A c \in OfType("compaction") : c.seq <= epoch.seq
      BY <1>14, <2>2 DEF Advance, Informed, At, Current, TypeOK, SettledEpoch
    <3>2. PICK m \in {[Message("system", seq + 1) EXCEPT
                           !.was = drain.known.snapshot, !.now = drain.value]} :
              rows' = rows \cup {m}
      BY <1>14, <2>2 DEF Advance
    <3>3. /\ m.type = "system" /\ m.seq = seq + 1
          /\ m.was = epoch.snapshot /\ m.now = drain.value
      BY <3>1 DEF Message
    <3>4. epoch' = [epoch EXCEPT !.snapshot = drain.value]
      BY <1>14, <2>2 DEF Advance
    <3>5. /\ epoch'.baseline = epoch.baseline /\ epoch'.seq = epoch.seq
          /\ epoch'.snapshot = drain.value
      BY <3>1, <3>4 DEF Epoch
    <3>6. drain' = [drain EXCEPT !.at = "compaction", !.known = None, !.value = None,
                                 !.base = [drain.known EXCEPT !.snapshot = drain.value]]
      BY <1>14, <2>2 DEF Advance
    <3>7. drain'.at = "compaction" /\ drain'.base = epoch'
      BY <3>1, <3>4, <3>6 DEF TypeOK, Drain
    <3>8. seq \in Nat /\ epoch.seq \in Nat
      BY <3>1 DEF TypeOK, Epoch
    <3>9. Tells(epoch.baseline, Updates(epoch.seq), epoch.snapshot)
      BY <3>1 DEF Told
    <3>10. \A r \in Updates(epoch.seq) : r.seq \in Nat /\ r.seq < m.seq
      BY <3>3, <3>8 DEF Updates, OfType, Numbered, TypeOK, Row
    <3>11. Tells(epoch.baseline, Updates(epoch.seq) \cup {m}, drain.value)
      <4> DEFINE S == Updates(epoch.seq)
      <4>1. Tells(epoch.baseline, S, m.was) /\ m.seq \in Nat
            /\ \A r \in S : r.seq \in Nat /\ r.seq < m.seq
        BY <3>3, <3>8, <3>9, <3>10
      <4> HIDE DEF S
      <4>2. Tells(epoch.baseline, S \cup {m}, m.now)
        BY <4>1, TellsMore
      <4> QED
        BY <3>3, <4>2 DEF S
    <3>12. OfType("system")' = OfType("system") \cup {m}
           /\ OfType("compaction")' = OfType("compaction")
      BY <3>2, <3>3 DEF OfType
    <3>13. seq + 1 > epoch.seq
      BY <2>2, <3>8 DEF Bounded
    <3>14. Updates(epoch.seq)' = Updates(epoch.seq) \cup {m}
      BY <3>3, <3>5, <3>12, <3>13 DEF Updates
    <3>15. Told(epoch)'
      BY <3>5, <3>11, <3>14 DEF Told
    <3>16. EpochTellsTheTruth'
      BY <3>15 DEF Told, Updates, EpochTellsTheTruth
    <3>17. SettledEpoch'
      BY <3>1, <3>5, <3>8, <3>12 DEF SettledEpoch, Settled, OfType, TypeOK, Row
    <3>18. Told(drain.base)'
      BY <3>7, <3>15 DEF Told, Updates
    <3> QED
      BY <3>7, <3>16, <3>17, <3>18 DEF Informed, RequestTellsTheContext, At
  <2> QED
    BY <2>1, <2>2
<1>15. CASE Replace
  <2>1. CASE epoch = None
    <3>1. Same /\ drain'.at = "idle"
      BY <1>15, <2>1 DEF Replace, Stop, IdleDrain
    <3> QED
      BY <1>0, <3>1, Uninformed
  <2>2. CASE epoch # None
    <3>1. rows' = rows /\ epoch' = drain.base /\ drain.base \in Epoch
      BY <1>15, <2>2 DEF Replace, Equipped
    <3>2. drain'.at = "compaction" /\ drain'.base = drain.base
      BY <1>15, <2>2 DEF Replace, Go, TypeOK, Drain
    <3>3. Told(drain.base) /\ Settled(drain.base)
      BY <1>15, <2>2, <3>1, FreshBaseline DEF Replace, Informed, Current, TypeOK
    <3>4. EpochTellsTheTruth' /\ SettledEpoch'
      BY <3>1, <3>3 DEF EpochTellsTheTruth, SettledEpoch, Told, Updates, Settled, OfType
    <3>5. Told(drain.base)'
      BY <3>1, <3>2, <3>3 DEF Told, Updates, OfType
    <3> QED
      BY <3>2, <3>4, <3>5 DEF Informed, RequestTellsTheContext, At
  <2> QED
    BY <2>1, <2>2
<1>16. CASE LatestCompaction
  <2>1. Same
    BY <1>16 DEF LatestCompaction, stored
  <2>2. /\ drain.at = "compaction" /\ drain'.at = "rows" /\ drain'.base = drain.base
        /\ drain'.disturbed = drain.disturbed /\ IsLatestCompaction(drain'.compaction)
    BY <1>16 DEF LatestCompaction, At, TypeOK, Drain
  <2>3. IsLatestCompaction(drain.compaction)'
    BY <2>1, <2>2 DEF IsLatestCompaction, OfType
  <2>4. Told(drain.base) => Told(drain.base)'
    BY <2>1, <2>2 DEF Told, Updates, OfType
  <2> QED
    BY <1>0, <2>1, <2>2, <2>3, <2>4 DEF Informed, RequestTellsTheContext, At
<1>17. CASE LoadRows
  <2> DEFINE loaded == {r \in rows : Visible(r, drain.compaction, drain.base.seq)}
  <2>1. Same
    BY <1>17 DEF LoadRows, stored
  <2>2. /\ drain.at = "rows" /\ drain'.at = "request" /\ drain'.base = drain.base
        /\ drain'.disturbed = drain.disturbed /\ drain'.loaded = loaded
    BY <1>17 DEF LoadRows, At, TypeOK, Drain
  <2>3. {r \in loaded : r.type = "system"} = Updates(drain.base.seq)
    BY DEF Visible, Updates, OfType
  <2>4. RequestTellsTheContext'
    BY <2>2, <2>3 DEF Informed, RequestTellsTheContext, At, Told
  <2>5. drain.compaction \in Nat /\ (IsLatestCompaction(drain.compaction) => drain.compaction <= seq)
    BY DEF IsLatestCompaction, OfType, Numbered, TypeOK, Drain
  <2>6. loaded = {r \in rows' : Visible(r, drain.compaction, drain'.base.seq)}
    BY <2>1, <2>2
  <2>7. IsLatestCompaction(drain.compaction) =>
            \E n \in 0 .. seq' : /\ IsLatestCompaction(n)'
                                 /\ drain'.loaded = {r \in rows' : Visible(r, n, drain'.base.seq)}
    <3> SUFFICES ASSUME IsLatestCompaction(drain.compaction)
                 PROVE  \E n \in 0 .. seq' :
                            /\ IsLatestCompaction(n)'
                            /\ drain'.loaded = {r \in rows' : Visible(r, n, drain'.base.seq)}
      OBVIOUS
    <3>1. PICK n \in 0 .. seq' : n = drain.compaction
      BY <2>1, <2>5 DEF TypeOK
    <3>2. IsLatestCompaction(n)'
      BY <2>1, <3>1 DEF IsLatestCompaction, OfType
    <3> QED
      BY <2>2, <2>6, <3>1, <3>2
  <2>8. Informed'
    BY <2>2, <2>7 DEF Informed, At
  <2> QED
    BY <1>0, <2>1, <2>4, <2>8
<1>18. CASE Summarize
  <2>1. PICK m \in {[Message("compaction", seq + 1) EXCEPT !.covers = Covered(drain.loaded)]} :
            rows' = rows \cup {m} /\ epoch' = epoch
    BY <1>18 DEF Summarize
  <2>2. m.type = "compaction" /\ m.seq = seq + 1
    BY DEF Message
  <2>3. OfType("system")' = OfType("system") /\ OfType("compaction")' = OfType("compaction") \cup {m}
    BY <2>1, <2>2 DEF OfType
  <2>4. EpochTellsTheTruth'
    BY <2>1, <2>3 DEF EpochTellsTheTruth
  <2>5. SettledEpoch'
    <3>1. \A r \in OfType("system") : r.seq < m.seq
      BY <2>2 DEF OfType, Numbered, TypeOK, Row
    <3> QED
      BY <2>1, <2>3, <3>1 DEF SettledEpoch, Settled
  <2>6. drain'.at = "idle"
    BY <1>18 DEF Summarize, Stop, IdleDrain
  <2> QED
    BY <2>4, <2>5, <2>6, Uninformed
<1>19. CASE StartStep
  <2>1. OfType("system")' = OfType("system") /\ OfType("compaction")' = OfType("compaction")
    <3>1. rows' = {IF IsNewest(r, "assistant") THEN Close(r) ELSE r : r \in rows}
                      \cup {Message("assistant", seq + 1)}
      BY <1>19 DEF StartStep
    <3> QED
      BY <3>1 DEF OfType, IsNewest, Message, Close, TypeOK, Row
  <2>2. epoch' = epoch /\ drain'.at = "step"
    BY <1>19 DEF StartStep, IdleDrain
  <2> QED
    BY <2>1, <2>2, EpochStays, Uninformed
<1>20. CASE EndStep
  <2>1. OfType("system")' = OfType("system") /\ OfType("compaction")' = OfType("compaction")
    <3>1. rows' = {IF r.type = "assistant" /\ r.seq = drain.assistant THEN Close(r) ELSE r : r \in rows}
      BY <1>20 DEF EndStep
    <3> QED
      BY <3>1 DEF OfType, Close, TypeOK, Row
  <2>2. epoch' = epoch /\ drain'.at = "idle"
    BY <1>20 DEF EndStep, Stop, IdleDrain
  <2> QED
    BY <2>1, <2>2, EpochStays, Uninformed
<1>21. CASE Abandon
  <2>1. Same /\ drain'.at = "idle"
    BY <1>21 DEF Abandon, Stop, IdleDrain, stored
  <2> QED
    BY <1>0, <2>1, Uninformed
<1>22. CASE \/ \E p \in Prompts : Admit(p)
            \/ \E c \in Clients : BeginStage(c) \/ Stage(c)
            \/ Clear \/ Move
  <2>1. drain' = drain /\ rows' = rows /\ epoch' \in {epoch, None} /\ seq' \in {seq, seq + 1}
    BY <1>22 DEF Admit, NextEvent, BeginStage, Stage, Clear, Move, stored
  <2>2. seq \in Nat /\ seq' \in Nat /\ seq <= seq'
    BY <2>1 DEF TypeOK
  <2> QED
    BY <2>1, <2>2, DrainStays, EpochStays DEF OfType
<1>23. CASE Commit
  <2>1. CASE drain' = drain /\ rows' = rows /\ epoch' = epoch
    <3>1. seq' = seq /\ seq \in Nat
      BY <1>23 DEF Commit, TypeOK
    <3> QED
      BY <1>0, <2>1, <3>1, DrainStays
  <2>2. CASE ~(drain' = drain /\ rows' = rows /\ epoch' = epoch)
    <3>1. rows' \subseteq rows /\ epoch' = None
      BY <1>23, <2>2 DEF Commit
    <3>2. EpochTellsTheTruth' /\ SettledEpoch'
      BY <3>1 DEF EpochTellsTheTruth, SettledEpoch
    <3>3. CASE At("idle")
      <4>1. drain'.at = "idle"
        BY <1>23, <2>2, <3>3 DEF Commit, At
      <4> QED
        BY <3>2, <4>1, Uninformed
    <3>4. CASE ~At("idle")
      <4>1. drain' = [drain EXCEPT !.disturbed = TRUE]
        BY <1>23, <2>2, <3>4 DEF Commit
      <4>2. drain'.disturbed /\ drain'.at = drain.at /\ drain'.base = drain.base
        BY <4>1 DEF TypeOK, Drain
      <4>3. NoUpdatesSince(drain.base.seq) => NoUpdatesSince(drain.base.seq)'
        BY <3>1, <4>2 DEF NoUpdatesSince, OfType
      <4>4. ~Current'
        BY <3>1, <4>2 DEF Current
      <4> QED
        BY <3>1, <3>2, <4>2, <4>3, <4>4 DEF Informed, RequestTellsTheContext, At
    <3> QED
      BY <3>3, <3>4
  <2> QED
    BY <2>1, <2>2
<1> QED
  BY <1>1, <1>2, <1>3, <1>4, <1>5, <1>6, <1>7, <1>8, <1>9, <1>10, <1>11, <1>12, <1>13, <1>14,
     <1>15, <1>16, <1>17, <1>18, <1>19, <1>20, <1>21, <1>22, <1>23
     DEF Next, Turn

-----------------------------------------------------------------------------
(* Compactions.                                                            *)

\* Without a new compaction, only the newest row comes in.
LEMMA NothingHidden ==
    ASSUME TypeOK, Numbered, OfType("compaction")' \subseteq OfType("compaction"),
           \A r \in rows' : \/ r.seq = seq + 1
                            \/ \E q \in rows : q.seq = r.seq /\ q.type = r.type
    PROVE  Forgotten' \subseteq Forgotten
<1> SUFFICES ASSUME NEW r \in rows', r.type # "system", NEW c \in OfType("compaction")',
                    c.seq > r.seq, r.seq \notin c.covers
             PROVE  r.seq \in Forgotten
  BY DEF Forgotten
<1>1. c \in OfType("compaction") /\ c.seq \in Nat /\ c.seq <= seq
  BY DEF OfType, TypeOK, Row, Numbered
<1>2. r.seq # seq + 1
  BY <1>1 DEF TypeOK
<1>3. PICK q \in rows : q.seq = r.seq /\ q.type = r.type
  BY <1>2
<1> QED
  BY <1>1, <1>3 DEF Forgotten

\* What is loaded since the latest compaction includes that compaction, and so
\* the rows that it stands for.
LEMMA SummaryTakesOver ==
    ASSUME TypeOK, Numbered, Informed, Summarize, ~drain.disturbed
    PROVE  Forgotten' \subseteq Forgotten
<1>1. PICK m \in {[Message("compaction", seq + 1) EXCEPT !.covers = Covered(drain.loaded)]} :
          rows' = rows \cup {m}
  BY DEF Summarize
<1>2. m.type = "compaction" /\ m.seq = seq + 1 /\ m.covers = Covered(drain.loaded)
  BY DEF Message
<1>3. PICK n \in 0 .. seq : /\ IsLatestCompaction(n)
                            /\ drain.loaded = {r \in rows : Visible(r, n, drain.base.seq)}
  BY DEF Summarize, Informed
<1>4. seq \in Nat /\ n \in Nat /\ \A r \in rows : r.seq \in Nat /\ r.seq <= seq
  BY DEF TypeOK, Row, Numbered
<1> SUFFICES ASSUME NEW r \in rows', r.type # "system", NEW c \in OfType("compaction")',
                    c.seq > r.seq, r.seq \notin c.covers
             PROVE  r.seq \in Forgotten
  BY DEF Forgotten
<1>5. r \in rows
  BY <1>1, <1>2, <1>4 DEF OfType
<1>6. CASE c \in rows
  BY <1>5, <1>6 DEF Forgotten, OfType
<1>7. CASE c = m
  <2>1. r \notin drain.loaded
    BY <1>2, <1>7 DEF Covered
  <2>2. r.seq < n
    BY <1>3, <1>4, <1>5, <2>1 DEF Visible
  <2>3. PICK q \in OfType("compaction") : q.seq = n
    BY <1>3, <1>4, <1>5, <2>2 DEF IsLatestCompaction
  <2>4. q \in drain.loaded
    BY <1>3, <1>4, <2>3 DEF Visible, OfType
  <2>5. r.seq \notin q.covers
    BY <1>2, <1>7, <2>4 DEF Covered
  <2> QED
    BY <1>4, <1>5, <2>2, <2>3, <2>5 DEF Forgotten
<1> QED
  BY <1>1, <1>6, <1>7 DEF OfType

LEMMA ForgottenStep ==
    ASSUME TypeOK, Numbered, Informed, Next, ~drain.disturbed
    PROVE  Forgotten' \subseteq Forgotten
<1>1. CASE UNCHANGED <<seq, rows, inbox>>
  BY <1>1 DEF Forgotten, OfType
<1>2. ASSUME NEW p \in drain.picked, Promote(p) PROVE Forgotten' \subseteq Forgotten
  <2>1. rows' \subseteq rows \cup {Message("user", p.id)}
    BY <1>2 DEF Promote
  <2> QED
    BY <2>1, NothingHidden DEF OfType, Message
<1>3. CASE Advance
  <2>1. PICK m \in {[Message("system", seq + 1) EXCEPT
                         !.was = drain.known.snapshot, !.now = drain.value]} :
            rows' \subseteq rows \cup {m}
    BY <1>3 DEF Advance
  <2>2. m.type = "system" /\ m.seq = seq + 1
    BY DEF Message
  <2> QED
    BY <2>1, <2>2, NothingHidden DEF OfType
<1>4. CASE StartStep
  <2>1. rows' = {IF IsNewest(r, "assistant") THEN Close(r) ELSE r : r \in rows}
                    \cup {Message("assistant", seq + 1)}
    BY <1>4 DEF StartStep
  <2>2. \A r \in rows : Close(r).seq = r.seq /\ Close(r).type = r.type
    BY DEF Close, TypeOK, Row
  <2>3. OfType("compaction")' \subseteq OfType("compaction")
    BY <2>1, <2>2 DEF OfType, IsNewest, Message
  <2>4. \A r \in rows' : \/ r.seq = seq + 1
                         \/ \E q \in rows : q.seq = r.seq /\ q.type = r.type
    BY <2>1, <2>2 DEF Message
  <2> QED
    BY <2>3, <2>4, NothingHidden
<1>5. CASE EndStep
  <2>1. rows' = {IF r.type = "assistant" /\ r.seq = drain.assistant THEN Close(r) ELSE r : r \in rows}
    BY <1>5 DEF EndStep
  <2>2. \A r \in rows : Close(r).seq = r.seq /\ Close(r).type = r.type
    BY DEF Close, TypeOK, Row
  <2>3. OfType("compaction")' \subseteq OfType("compaction")
    BY <2>1, <2>2 DEF OfType
  <2>4. \A r \in rows' : \E q \in rows : q.seq = r.seq /\ q.type = r.type
    BY <2>1, <2>2
  <2> QED
    BY <2>3, <2>4, NothingHidden
<1>6. ASSUME NEW p \in Prompts, Admit(p) PROVE Forgotten' \subseteq Forgotten
  BY <1>6 DEF Admit, Forgotten, OfType
<1>7. CASE Commit
  BY <1>7, NothingHidden DEF Commit, OfType
<1> QED
  BY <1>1, <1>2, <1>3, <1>4, <1>5, <1>6, <1>7, Projected, SummaryTakesOver

-----------------------------------------------------------------------------
(* The theorems.                                                           *)

LEMMA Initially == Init => IInv
<1> SUFFICES ASSUME Init PROVE IInv
  OBVIOUS
<1> USE NoneAssumption
<1>1. TypeOK
  BY IdleType DEF Init, TypeOK, Input, NoInput
<1>2. Equipped /\ Informed /\ RequestTellsTheContext
  BY DEF Init, Equipped, Informed, RequestTellsTheContext, At, IdleDrain
<1>3. Bounded
  BY DEF Init, Bounded, IdleDrain
<1>4. Numbered /\ PromptsAreMessages /\ NewestAssistantOnly
  BY DEF Init, Numbered, PromptsAreMessages, NewestAssistantOnly, OfType, NoInput
<1>5. EpochTellsTheTruth /\ SettledEpoch
  BY DEF Init, EpochTellsTheTruth, SettledEpoch
<1> QED
  BY <1>1, <1>2, <1>3, <1>4, <1>5 DEF IInv

LEMMA Stuttering == IInv /\ UNCHANGED vars => IInv'
BY DEF IInv, vars, stored, TypeOK, Equipped, Bounded, Numbered, Informed, PromptsAreMessages,
       NewestAssistantOnly, EpochTellsTheTruth, SettledEpoch, RequestTellsTheContext, At, IsNewest,
       OfType, Told, Updates, Settled, Current, IsLatestCompaction, NoUpdatesSince, Visible

\* Any state of the session keeps the inductive invariant.
THEOREM Inductive == Spec => []IInv
<1>1. IInv /\ [Next]_vars => IInv'
  BY TypeStep, BoundedStep, ProjectionStep, ContextStep, Stuttering DEF IInv, Projection, Context
<1> QED
  BY <1>1, Initially, PTL DEF Spec

\* The rows and fields of the session have their types, also after reverts.
THEOREM TypeCorrect == Spec => []TypeOK
BY Inductive, PTL DEF IInv

\* The baseline of the epoch and the updates behind it say what the epoch takes
\* the model to know (context-epoch.ts), whatever is reverted, moved or compacted.
THEOREM EpochIsTrue == Spec => []EpochTellsTheTruth
BY Inductive, PTL DEF IInv

\* A turn that no revert disturbs sends the context it prepared (history.ts).
THEOREM RequestIsTrue == Spec => []RequestTellsTheContext
BY Inductive, PTL DEF IInv

\* Promoted inputs and user messages are the same prompts (projector.ts).
THEOREM InboxIsHistory == Spec => []PromptsAreMessages
BY Inductive, PTL DEF IInv

\* A step that never ended is superseded by the next one (message-updater.ts).
THEOREM OldStepsAreComplete == Spec => []NewestAssistantOnly
BY Inductive, PTL DEF IInv

\* A turn that no revert disturbs compacts without a gap (compaction.ts).
THEOREM SummariesAreWhole == Spec => NothingIsForgotten
<1>1. IInv /\ [Next]_vars => [~drain.disturbed => Forgotten' \subseteq Forgotten]_vars
  BY ForgottenStep DEF IInv
<1> QED
  BY <1>1, Inductive, PTL DEF Spec, NothingIsForgotten

=============================================================================
