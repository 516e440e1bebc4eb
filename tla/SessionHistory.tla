--------------------------- MODULE SessionHistory ---------------------------
(***************************************************************************)
(* The history of one session as a model is told it                        *)
(* (tui/packages/core/src/session: projector.ts, history.ts,               *)
(* context-epoch.ts, compaction.ts, revert.ts, beside the drain of         *)
(* runner/llm.ts).  The message rows are a projection of the durable       *)
(* events.  A request consists of the baseline of the context epoch, of    *)
(* the rows since the latest compaction, and of the system rows that       *)
(* update the baseline.  A turn reads epoch, compaction and rows one by    *)
(* one, while clients revert the session to an earlier message or move it. *)
(*                                                                         *)
(* Only events whose numbers are compared are counted; the others lie      *)
(* between them.  The system context is one source with one value; an      *)
(* update tells the model from which value to which.                       *)
(***************************************************************************)
EXTENDS Naturals

CONSTANTS
    Prompts,   \* message IDs of prompts
    Values,    \* what the system context may say
    Clients,   \* clients that stage reverts
    MaxSeq,    \* bound on the events
    None

ASSUME BoundAssumption == MaxSeq \in Nat
ASSUME IdAssumption == Prompts \cap Nat = {}

VARIABLES
    seq,     \* latest sequence number of the session
    rows,    \* the session_message rows
    inbox,   \* per prompt, its session_input row
    epoch,   \* the session_context_epoch row
    revert,  \* the boundary staged in the session row
    drain,   \* the turn attempt of the session's drain
    calls    \* per client, the boundary it is about to stage

stored == <<seq, rows, inbox, epoch, revert>>
vars == <<stored, drain, calls>>

(* A row has the number of the event that made it, which serves as its     *)
(* message ID unless it is a prompt.  was and now are the two values of an *)
(* update, open is an assistant row without a completion time, and covers  *)
(* are the rows that a compaction stands for.                              *)
Ids == Prompts \cup Nat
Row == [seq : Nat, type : {"user", "assistant", "system", "compaction"}, id : Ids,
        was : Values \cup {None}, now : Values \cup {None},
        open : BOOLEAN, covers : SUBSET Nat]

Input == [admitted : Nat, promoted : Nat]
NoInput == [admitted |-> 0, promoted |-> 0]

Epoch == [baseline : Values, snapshot : Values, seq : Nat]

ASSUME NoneAssumption == None \notin Values /\ None \notin Prompts /\ None \notin Nat /\ None \notin Epoch

(* The drain: where it is; whether it still has to initialize the epoch;   *)
(* the epoch and the compaction it read, and which of the two it has read; *)
(* the value it observed; the baseline of the request and what the model   *)
(* is to know beyond it; the prompts it selected; the rows it loaded; its  *)
(* assistant row; and whether a revert was committed meanwhile.            *)
Drain == [at : {"idle", "observe", "number", "insert", "promote", "prepare", "advance",
                "replace", "compaction", "rows", "request", "step"},
          first : BOOLEAN, read : SUBSET {"epoch", "compaction"},
          known : Epoch \cup {None}, compaction : Nat, value : Values \cup {None},
          base : Epoch \cup {None}, picked : SUBSET [id : Prompts, admitted : Nat],
          loaded : SUBSET Row, assistant : Nat, disturbed : BOOLEAN]

IdleDrain == [at |-> "idle", first |-> FALSE, read |-> {}, known |-> None,
              compaction |-> 0, value |-> None, base |-> None, picked |-> {},
              loaded |-> {}, assistant |-> 0, disturbed |-> FALSE]

TypeOK ==
    /\ seq \in Nat
    /\ rows \subseteq Row
    /\ inbox \in [Prompts -> Input]
    /\ epoch \in Epoch \cup {None}
    /\ revert \in Ids \cup {None}
    /\ drain \in Drain
    /\ calls \in [Clients -> Ids \cup {None}]

Init ==
    /\ seq = 0
    /\ rows = {}
    /\ inbox = [p \in Prompts |-> NoInput]
    /\ epoch = None
    /\ revert = None
    /\ drain = IdleDrain
    /\ calls = [c \in Clients |-> None]

-----------------------------------------------------------------------------
(* Rows and events.                                                        *)

OfType(t) == {r \in rows : r.type = t}

Message(type, id) ==
    [seq |-> seq + 1, type |-> type, id |-> id, was |-> None, now |-> None,
     open |-> type = "assistant", covers |-> {}]

\* An event takes the next number.
NextEvent == seq < MaxSeq /\ seq' = seq + 1

\* latestCompaction(); 0 stands for undefined.
IsLatestCompaction(n) ==
    IF OfType("compaction") = {} THEN n = 0
    ELSE \E r \in OfType("compaction") :
             n = r.seq /\ \A q \in OfType("compaction") : q.seq <= n

\* Mutant: nothing before the compaction is visible.
VisibleSince(r, n, base) == r.seq >= n /\ (r.type = "system" => r.seq > base)

\* messageRows(): the rows since the compaction, and of the system rows those
\* that are newer than the baseline, wherever they are.
Visible(r, n, base) ==
    /\ r.seq >= n \/ (r.type = "system" /\ r.seq > base)
    /\ r.type = "system" => r.seq > base

At(place) == drain.at = place
Go(place) == drain' = [drain EXCEPT !.at = place]
Stop == drain' = IdleDrain

-----------------------------------------------------------------------------
(* The turn: the epoch is initialized if there is none, ...                *)

\* A turn begins, or begins again; it asks first whether there is an epoch.
Begin ==
    /\ At("idle")
    /\ drain' = [drain EXCEPT !.at = IF epoch = None THEN "observe" ELSE "promote",
                              !.first = TRUE]
    /\ UNCHANGED <<stored, calls>>

\* The sources are observed.  If one is unavailable the turn fails.
Observe ==
    /\ At("observe")
    /\ \/ \E v \in Values : drain' = [drain EXCEPT !.at = "number", !.value = v]
       \/ Stop
    /\ UNCHANGED <<stored, calls>>

\* The baseline stands where the log ends now.
Baseline(v, n) == [baseline |-> v, snapshot |-> v, seq |-> n]

Number ==
    /\ At("number")
    /\ drain' = [drain EXCEPT !.at = IF drain.known = None THEN "insert" ELSE "replace",
                              !.known = None, !.value = None, !.base = Baseline(drain.value, seq)]
    /\ UNCHANGED <<stored, calls>>

\* Only the drain inserts, and there is one drain.
Insert ==
    /\ At("insert") /\ epoch = None
    /\ epoch' = drain.base
    /\ Go(IF drain.first THEN "promote" ELSE "compaction")
    /\ UNCHANGED <<seq, rows, inbox, revert, calls>>

(* ... prompts are promoted, ...                                           *)

\* The prompts to promote are selected and ordered by delivery, cutoff and
\* admission, and after a compaction there are none: which ones, and in which
\* order, is a choice here.
Select ==
    /\ At("promote") /\ drain.first
    /\ \E S \in SUBSET {p \in Prompts : inbox[p].admitted # 0 /\ inbox[p].promoted = 0} :
           drain' = [drain EXCEPT
               !.first = FALSE,
               !.picked = {[id |-> p, admitted |-> inbox[p].admitted] : p \in S}]
    /\ UNCHANGED <<stored, calls>>

\* A selected prompt may have been reverted since: then the projection inserts
\* its row again.  If it was reverted and submitted again the projection dies.
Promote(p) ==
    /\ At("promote") /\ p \in drain.picked
    /\ \/ /\ inbox[p.id] \in {[admitted |-> p.admitted, promoted |-> 0], NoInput}
          /\ NextEvent
          /\ rows' = rows \cup {Message("user", p.id)}
          /\ inbox' = [inbox EXCEPT
                 ![p.id] = [admitted |-> IF @ = NoInput THEN seq + 1 ELSE p.admitted,
                            promoted |-> seq + 1]]
          /\ drain' = [drain EXCEPT !.picked = @ \ {p}]
       \/ /\ inbox[p.id] \notin {[admitted |-> p.admitted, promoted |-> 0], NoInput}
          /\ Stop
          /\ UNCHANGED <<seq, rows, inbox>>
    /\ UNCHANGED <<epoch, revert, calls>>

Promoted ==
    /\ At("promote") /\ ~drain.first /\ drain.picked = {}
    /\ Go(IF drain.base = None THEN "prepare" ELSE "compaction")
    /\ UNCHANGED <<stored, calls>>

(* ... otherwise the epoch is prepared: it is reconciled with what the     *)
(* system context says now, or replaced after a compaction, ...            *)

\* The two reads go on side by side.
FindEpoch ==
    /\ At("prepare") /\ "epoch" \notin drain.read
    /\ drain' = [drain EXCEPT !.read = @ \cup {"epoch"}, !.known = epoch]
    /\ UNCHANGED <<stored, calls>>

FindCompaction ==
    /\ At("prepare") /\ "compaction" \notin drain.read
    /\ \E n \in 0 .. seq :
           /\ IsLatestCompaction(n)
           /\ drain' = [drain EXCEPT !.read = @ \cup {"compaction"}, !.compaction = n]
    /\ UNCHANGED <<stored, calls>>

Found == At("prepare") /\ drain.read = {"epoch", "compaction"}

\* What was read is decided upon and dropped.
Read == [drain EXCEPT !.read = {}, !.compaction = 0]

FoundNone ==
    /\ Found /\ drain.known = None
    /\ drain' = [Read EXCEPT !.at = "observe"]
    /\ UNCHANGED <<stored, calls>>

Compacted == drain.compaction > drain.known.seq

\* What is known stays as it is: the context is unchanged, or unavailable.
KeepBaseline ==
    /\ Found /\ drain.known # None
    /\ drain' = [Read EXCEPT !.at = "compaction", !.base = drain.known, !.known = None]
    /\ UNCHANGED <<stored, calls>>

\* After a compaction the baseline is rebuilt at the place of the compaction.
Rebuild ==
    /\ Found /\ drain.known # None /\ Compacted
    /\ \E v \in Values :
           drain' = [Read EXCEPT !.at = "replace", !.known = None,
                                 !.base = Baseline(v, drain.compaction)]
    /\ UNCHANGED <<stored, calls>>

\* Whether a change can be told as an update is a matter of the source.
Reconcile ==
    /\ Found /\ drain.known # None /\ ~Compacted
    /\ \E v \in Values \ {drain.known.snapshot}, place \in {"advance", "number"} :
           drain' = [Read EXCEPT !.at = place, !.value = v]
    /\ UNCHANGED <<stored, calls>>

\* The update and the snapshot commit together; without an epoch the hook dies.
Advance ==
    /\ At("advance")
    /\ \/ /\ epoch # None
          /\ NextEvent
          /\ rows' = rows \cup {[Message("system", seq + 1) EXCEPT
                                     !.was = drain.known.snapshot, !.now = drain.value]}
          /\ epoch' = [epoch EXCEPT !.snapshot = drain.value]
          /\ drain' = [drain EXCEPT !.at = "compaction", !.known = None, !.value = None,
                                    !.base = [drain.known EXCEPT !.snapshot = drain.value]]
       \/ /\ epoch = None
          /\ Stop
          /\ UNCHANGED <<seq, rows, epoch>>
    /\ UNCHANGED <<inbox, revert, calls>>

Replace ==
    /\ At("replace")
    /\ \/ epoch # None /\ epoch' = drain.base /\ Go("compaction")
       \/ epoch = None /\ Stop /\ UNCHANGED epoch
    /\ UNCHANGED <<seq, rows, inbox, revert, calls>>

(* ... and the history is loaded, sent, and perhaps compacted.             *)

LatestCompaction ==
    /\ At("compaction")
    /\ \E n \in 0 .. seq :
           IsLatestCompaction(n) /\ drain' = [drain EXCEPT !.at = "rows", !.compaction = n]
    /\ UNCHANGED <<stored, calls>>

LoadRows ==
    /\ At("rows")
    /\ drain' = [drain EXCEPT
           !.at = "request", !.compaction = 0,
           !.loaded = {r \in rows : Visible(r, drain.compaction, drain.base.seq)}]
    /\ UNCHANGED <<stored, calls>>

\* Mutant: the summary before is not taken over.
CoversLoaded(S) == {r.seq : r \in S}

Covered(S) == {r.seq : r \in S} \cup UNION {r.covers : r \in S}

\* The request is too long, or the provider says so before it answers: a summary
\* of what was loaded takes its place, and the turn starts over.
Summarize ==
    /\ At("request")
    /\ \E r \in drain.loaded : r.type # "compaction"
    /\ NextEvent
    /\ rows' = rows \cup {[Message("compaction", seq + 1) EXCEPT !.covers = Covered(drain.loaded)]}
    /\ Stop
    /\ UNCHANGED <<inbox, epoch, revert, calls>>

IsNewest(r, type) == r.type = type /\ \A q \in OfType(type) : q.seq <= r.seq

Close(r) == [r EXCEPT !.open = FALSE]

\* Mutant: the step that starts leaves older ones as they are.
StartOver ==
    /\ At("request")
    /\ NextEvent
    /\ rows' = rows \cup {Message("assistant", seq + 1)}
    /\ drain' = [IdleDrain EXCEPT !.at = "step", !.assistant = seq + 1]
    /\ UNCHANGED <<inbox, epoch, revert, calls>>

\* A new step completes the newest assistant row if that was left incomplete.
StartStep ==
    /\ At("request")
    /\ NextEvent
    /\ rows' = {IF IsNewest(r, "assistant") THEN Close(r) ELSE r : r \in rows}
                   \cup {Message("assistant", seq + 1)}
    /\ drain' = [IdleDrain EXCEPT !.at = "step", !.assistant = seq + 1]
    /\ UNCHANGED <<inbox, epoch, revert, calls>>

\* The step ends or fails; its row may have been reverted.
EndStep ==
    /\ At("step")
    /\ rows' = {IF r.type = "assistant" /\ r.seq = drain.assistant THEN Close(r) ELSE r : r \in rows}
    /\ Stop
    /\ UNCHANGED <<seq, inbox, epoch, revert, calls>>

\* A failure, an interruption or the end of the process, anywhere.
Abandon == ~At("idle") /\ Stop /\ UNCHANGED <<stored, calls>>

Turn ==
    \/ Begin \/ Observe \/ Number \/ Insert
    \/ Select \/ (\E p \in drain.picked : Promote(p)) \/ Promoted
    \/ FindEpoch \/ FindCompaction \/ FoundNone
    \/ KeepBaseline \/ Rebuild \/ Reconcile \/ Advance \/ Replace
    \/ LatestCompaction \/ LoadRows \/ Summarize
    \/ StartStep \/ EndStep \/ Abandon

-----------------------------------------------------------------------------
(* The clients.                                                            *)

\* A prompt is admitted, unless its ID is in the inbox or in the history.
Admit(p) ==
    /\ inbox[p] = NoInput /\ \A r \in rows : r.id # p
    /\ NextEvent
    /\ inbox' = [inbox EXCEPT ![p] = [admitted |-> seq + 1, promoted |-> 0]]
    /\ UNCHANGED <<rows, epoch, revert, drain, calls>>

\* stage() looks its boundary up and publishes when it has restored the files.
BeginStage(c) ==
    /\ calls[c] = None
    /\ \E r \in rows : calls' = [calls EXCEPT ![c] = r.id]
    /\ UNCHANGED <<stored, drain>>

Stage(c) ==
    /\ calls[c] # None
    /\ revert' = calls[c]
    /\ calls' = [calls EXCEPT ![c] = None]
    /\ UNCHANGED <<seq, rows, inbox, epoch, drain>>

\* What a clear took from the session does not matter to the history.
Clear ==
    /\ revert # None
    /\ revert' = None
    /\ UNCHANGED <<seq, rows, inbox, epoch, drain, calls>>

\* Mutant: inputs are told by their admission only.
AdmittedAfter(input, n) == input.admitted > n

After(input, n) == input.admitted > n \/ input.promoted > n

\* Mutant: the epoch stays.
CommitKeepsEpoch ==
    /\ revert # None
    /\ \/ \E b \in rows :
              /\ b.id = revert
              /\ rows' = {r \in rows : r.seq <= b.seq}
              /\ inbox' = [p \in Prompts |-> IF After(inbox[p], b.seq) THEN NoInput ELSE inbox[p]]
              /\ revert' = None
              /\ UNCHANGED epoch
              /\ drain' = IF At("idle") THEN drain ELSE [drain EXCEPT !.disturbed = TRUE]
       \/ /\ \A r \in rows : r.id # revert
          /\ UNCHANGED <<rows, inbox, revert, epoch, drain>>
    /\ UNCHANGED <<seq, calls>>

\* What is newer than the boundary is deleted and the epoch with it.  Without
\* the boundary the projection dies and the event is not committed.  A commit
\* that is overtaken does to the history what a stage that is overtaken and its
\* commit do.
Commit ==
    /\ revert # None
    /\ \/ \E b \in rows :
              /\ b.id = revert
              /\ rows' = {r \in rows : r.seq <= b.seq}
              /\ inbox' = [p \in Prompts |-> IF After(inbox[p], b.seq) THEN NoInput ELSE inbox[p]]
              /\ revert' = None
              /\ epoch' = None
              /\ drain' = IF At("idle") THEN drain ELSE [drain EXCEPT !.disturbed = TRUE]
       \/ /\ \A r \in rows : r.id # revert
          /\ UNCHANGED <<rows, inbox, revert, epoch, drain>>
    /\ UNCHANGED <<seq, calls>>

\* A move to another directory; the drain notices at its next turn.
Move ==
    /\ epoch' = None
    /\ UNCHANGED <<seq, rows, inbox, revert, drain, calls>>

Next == \/ Turn
        \/ \E p \in Prompts : Admit(p)
        \/ \E c \in Clients : BeginStage(c) \/ Stage(c)
        \/ Clear \/ Commit \/ Move

Spec == Init /\ [][Next]_vars

-----------------------------------------------------------------------------
(* Properties.                                                             *)

\* A baseline and the updates S after it tell the model v: the first update
\* starts from the baseline, each other one from what the one before it said,
\* and the last one says v.
Tells(baseline, S, v) ==
    /\ \A r \in S :
           \/ r.was = baseline /\ \A q \in S : r.seq <= q.seq
           \/ \E q \in S : /\ q.seq < r.seq /\ q.now = r.was
                           /\ \A t \in S : t.seq <= q.seq \/ r.seq <= t.seq
    /\ \/ S = {} /\ v = baseline
       \/ \E r \in S : r.now = v /\ \A q \in S : q.seq <= r.seq

\* What the epoch takes the model to know is what its baseline and the updates
\* in the history behind it say, through reverts, moves and compactions.
EpochTellsTheTruth ==
    epoch # None => Tells(epoch.baseline,
                          {r \in OfType("system") : r.seq > epoch.seq}, epoch.snapshot)

\* A request tells the model the context that its turn prepared, also while a
\* compaction waits for its baseline, unless a revert committed meanwhile.
RequestTellsTheContext ==
    At("request") /\ ~drain.disturbed =>
        Tells(drain.base.baseline, {r \in drain.loaded : r.type = "system"}, drain.base.snapshot)

\* The rows of the conversation that a compaction hides and does not stand for.
Forgotten ==
    {r.seq : r \in {m \in rows : m.type # "system" /\ \E c \in OfType("compaction") :
                                   c.seq > m.seq /\ m.seq \notin c.covers}}

\* What a request leaves out because of a compaction went into its summary or
\* into one before: nothing is forgotten, unless a revert committed while the
\* turn that compacted was running.
NothingIsForgotten == [][~drain.disturbed => Forgotten' \subseteq Forgotten]_vars

\* Inbox and history agree: a prompt is promoted exactly if it is a message, under
\* the number of its promotion, whatever a revert deleted.
PromptsAreMessages ==
    /\ \A p \in Prompts : inbox[p].promoted # 0 =>
           \E r \in OfType("user") : r.id = p /\ r.seq = inbox[p].promoted
    /\ \A r \in OfType("user") : inbox[r.id].promoted = r.seq

\* A step that never ended is superseded: no assistant row is incomplete but the
\* newest, also after crashes and when reverts have deleted newer ones.
NewestAssistantOnly ==
    \A r \in OfType("assistant") : r.open => IsNewest(r, "assistant")

=============================================================================
