--------------------------- MODULE WorkspaceSync ---------------------------
(***************************************************************************)
(* Replication of one session between the control plane and the remote     *)
(* workspaces (tui/packages/opencode/src/control-plane/workspace.ts and    *)
(* the /sync handlers of the server).  Every process has a database with   *)
(* its own copy of the session's log (EventLog).  The control plane runs a *)
(* sync loop per remote workspace: it opens the event stream, catches up   *)
(* from the remote's history, then replays what the stream brings, until   *)
(* the connection drops.  sessionWarp moves the session: catch up from the *)
(* old workspace, claim, send the log to the new one, let it steal the     *)
(* session, and record the new home.                                       *)
(*                                                                         *)
(* Events are numbered by a global counter, which serves as their ID.      *)
(***************************************************************************)
EXTENDS Integers, SequencesExt

CONSTANTS Control,    \* the control plane
          Remotes,    \* remote workspaces, each a process with a database
          Locals,     \* workspaces of the control plane's own process
          Project,    \* the project, owner of a session in no workspace
          None,
          Births,     \* where the session may be created
          MaxEvents,  \* bound on the events ever published
          MaxWarps    \* bound on the calls of sessionWarp

ASSUME BoundsAssumption == MaxEvents \in Nat \ {0} /\ MaxWarps \in Nat

\* Processes and homes have distinct names, and so have a session's owners.
ASSUME NamesAssumption ==
    /\ Control \notin Remotes
    /\ Remotes \cap Locals = {}
    /\ None \notin Remotes \cup Locals \cup {Project}
    /\ "same" \notin Remotes \cup Locals \cup {None}
    /\ Births \subseteq Remotes \cup Locals \cup {None}

VARIABLES store,   \* per process: the log and the owner of the session
          next,    \* the next event ID
          loop,    \* per remote: the sync loop of the control plane
          sse,     \* per remote: events in flight on the event stream
          warp,    \* the call of sessionWarp in progress
          warps,   \* calls of sessionWarp begun
          fence    \* history: the last claim, and the length of the log then

vars == <<store, next, loop, sse, warp, warps, fence>>

L == INSTANCE EventLog

Nodes == Remotes \cup {Control}
Homes == Remotes \cup Locals \cup {None}
Owners == Remotes \cup Locals \cup {Project, None}

\* home is the workspace a session.updated event names, "same" in all others.
Event == [id : 1 .. MaxEvents, at : Nodes, home : Homes \cup {"same"}]

Rows(log, after) == [i \in 1 .. Len(log) - after |->
                        [seq |-> i + after, event |-> log[i + after]]]
Row == [seq : Nat \ {0}, event : Event]

IdleLoop == [pc |-> "off", rows |-> <<>>]
IdleWarp == [pc |-> "idle", from |-> None, to |-> None, rows |-> <<>>, sent |-> 0]

-----------------------------------------------------------------------------
(* The projection: the workspace of the session, as of the last event that *)
(* names one.                                                              *)

Naming(log) == {i \in DOMAIN log : log[i].home # "same"}

HomeIn(log) == LET named == Naming(log)
               IN  IF named = {} THEN None ELSE log[Max(named)].home

Home == HomeIn(store[Control].log)

\* The process has run the session: a run it began may still write.
Ran(n) == \E i \in Naming(store[n].log) :
             store[n].log[i].home \in (IF n = Control THEN Locals \cup {None} ELSE {n})

TypeOK ==
    /\ store \in [Nodes -> [log : Seq(Event), owner : Owners]]
    /\ next \in 1 .. (MaxEvents + 1)
    /\ loop \in [Remotes -> [pc : {"off", "connect", "history", "replay", "live", "dead"},
                             rows : Seq(Row)]]
    /\ sse \in [Remotes -> Seq(Row)]
    /\ warp \in [pc : {"idle", "source", "catchUp", "claim", "patch", "target",
                       "send", "steal", "set"},
                 from : Homes, to : Homes, rows : Seq(Row), sent : Nat]
    /\ warps \in 0 .. MaxWarps
    /\ fence \in [owner : Owners, at : Nat]

\* The session was created in one process, in a workspace or in none.
Init == \E b \in Births :
    /\ store = [n \in Nodes |->
                  IF n = (IF b \in Remotes THEN b ELSE Control)
                  THEN [log |-> <<[id |-> 1, at |-> n, home |-> b]>>, owner |-> None]
                  ELSE L!EmptyStore]
    /\ next = 2
    /\ loop = [r \in Remotes |-> IdleLoop]
    /\ sse = [r \in Remotes |-> <<>>]
    /\ warp = IdleWarp
    /\ warps = 0
    /\ fence = [owner |-> None, at |-> 0]

-----------------------------------------------------------------------------
(* Publishing.  A remote's own events go out on its event stream, replayed *)
(* ones do not.                                                            *)

\* Mutant: the stream is opened when the history is replayed.
PublishLive(n, home) ==
    LET e == [id |-> next, at |-> n, home |-> home]
    IN  /\ next <= MaxEvents
        /\ next' = next + 1
        /\ store' = [store EXCEPT ![n] = L!Publish(@, e)]
        /\ sse' = [r \in Remotes |->
                     IF r = n /\ loop[r].pc = "live"
                     THEN Append(sse[r], [seq |-> L!Latest(store[r]) + 1, event |-> e])
                     ELSE sse[r]]

Publish(n, home) ==
    LET e == [id |-> next, at |-> n, home |-> home]
    IN  /\ next <= MaxEvents
        /\ next' = next + 1
        /\ store' = [store EXCEPT ![n] = L!Publish(@, e)]
        /\ sse' = [r \in Remotes |->
                     IF r = n /\ loop[r].pc \in {"history", "replay", "live"}
                     THEN Append(sse[r], [seq |-> L!Latest(store[r]) + 1, event |-> e])
                     ELSE sse[r]]

Work(n) ==
    /\ Ran(n)
    /\ Publish(n, "same")
    /\ UNCHANGED <<loop, warp, warps, fence>>

-----------------------------------------------------------------------------
(* The sync loop of a remote workspace.                                    *)

\* The control plane replays a row that came from r.
Dies(row, r) == L!Dies(store[Control], row.event, row.seq, r, FALSE)
Take(row, r) == store' = [store EXCEPT ![Control] =
                            L!Replayed(@, row.event, row.seq, r, FALSE)]

StartSync(r) ==
    /\ loop[r].pc \in {"off", "dead"}
    /\ loop' = [loop EXCEPT ![r].pc = "connect"]
    /\ UNCHANGED <<store, next, sse, warp, warps, fence>>

\* The event stream is open; what it brings waits until history is replayed.
Connect(r) ==
    /\ loop[r].pc = "connect"
    /\ loop' = [loop EXCEPT ![r].pc = "history"]
    /\ UNCHANGED <<store, next, sse, warp, warps, fence>>

\* The control plane names the last event it has of the sessions it places in
\* r; of any other session r sends everything.
History(r) == Rows(store[r].log, IF Home = r THEN L!Latest(store[Control]) ELSE 0)

FetchHistory(r) ==
    /\ loop[r].pc = "history"
    /\ loop' = [loop EXCEPT ![r] = [pc |-> "replay", rows |-> History(r)]]
    /\ UNCHANGED <<store, next, sse, warp, warps, fence>>

\* A divergent row is a defect, which ends the loop for good.
ReplayHistory(r) ==
    /\ loop[r].pc = "replay"
    /\ loop[r].rows # <<>>
    /\ LET row == Head(loop[r].rows)
       IN  /\ Take(row, r)
           /\ loop' = [loop EXCEPT ![r] = IF Dies(row, r)
                                          THEN [pc |-> "dead", rows |-> <<>>]
                                          ELSE [loop[r] EXCEPT !.rows = Tail(@)]]
           /\ sse' = IF Dies(row, r) THEN [sse EXCEPT ![r] = <<>>] ELSE sse
    /\ UNCHANGED <<next, warp, warps, fence>>

GoLive(r) ==
    /\ loop[r].pc = "replay"
    /\ loop[r].rows = <<>>
    /\ loop' = [loop EXCEPT ![r].pc = "live"]
    /\ UNCHANGED <<store, next, sse, warp, warps, fence>>

\* A replay that dies is logged and passed over.
Receive(r) ==
    /\ loop[r].pc = "live"
    /\ sse[r] # <<>>
    /\ Take(Head(sse[r]), r)
    /\ sse' = [sse EXCEPT ![r] = Tail(@)]
    /\ UNCHANGED <<next, loop, warp, warps, fence>>

\* The stream ends, or the history cannot be fetched; the loop connects anew.
Disconnect(r) ==
    /\ loop[r].pc \in {"history", "live"}
    /\ loop' = [loop EXCEPT ![r] = [pc |-> "connect", rows |-> <<>>]]
    /\ sse' = [sse EXCEPT ![r] = <<>>]
    /\ UNCHANGED <<store, next, warp, warps, fence>>

-----------------------------------------------------------------------------
(* sessionWarp.                                                            *)

At(pc) == warp.pc = pc
Goto(pc) == warp' = [warp EXCEPT !.pc = pc]

\* A session that the control plane does not know cannot be moved.
BeginWarp(to) ==
    /\ At("idle")
    /\ store[Control].log # <<>>
    /\ warps < MaxWarps
    /\ warps' = warps + 1
    /\ warp' = [pc |-> IF Home \in Remotes THEN "source"
                       ELSE IF Home \in Locals THEN "claim"
                       ELSE "target",
                from |-> Home, to |-> to, rows |-> <<>>, sent |-> 0]
    /\ UNCHANGED <<store, next, loop, sse, fence>>

\* A final catch-up with the old workspace.  If it cannot be reached the warp
\* goes on without it.
CatchUp ==
    /\ At("source")
    /\ warp' \in {[warp EXCEPT !.pc = "claim"],
                  [warp EXCEPT !.pc = "catchUp", !.rows = History(warp.from)]}
    /\ UNCHANGED <<store, next, loop, sse, warps, fence>>

NextRow == warp.rows[warp.sent + 1]

\* A divergent row is a defect and ends the warp.
ReplaySource ==
    /\ At("catchUp")
    /\ warp.sent < Len(warp.rows)
    /\ Take(NextRow, warp.from)
    /\ warp' = IF Dies(NextRow, warp.from) THEN IdleWarp
               ELSE [warp EXCEPT !.sent = @ + 1]
    /\ UNCHANGED <<next, loop, sse, warps, fence>>

CaughtUp ==
    /\ At("catchUp")
    /\ warp.sent = Len(warp.rows)
    /\ warp' = [warp EXCEPT !.pc = "claim", !.rows = <<>>, !.sent = 0]
    /\ UNCHANGED <<store, next, loop, sse, warps, fence>>

\* "claim" this session, so that the old workspace is fenced off.
ClaimSession ==
    /\ At("claim")
    /\ LET owner == IF warp.to = None THEN Project ELSE warp.to
       IN  /\ store' = [store EXCEPT ![Control] = L!Claim(@, owner)]
           /\ fence' = [owner |-> owner, at |-> L!Latest(store[Control])]
    /\ Goto("patch")
    /\ UNCHANGED <<next, loop, sse, warps>>

\* The file changes are copied, or not asked for.  A failure to apply them
\* ends the warp where the new place is local; a remote's answer is ignored.
CopyChanges ==
    /\ At("patch")
    /\ \/ Goto("target")
       \/ warp.to \notin Remotes /\ warp' = IdleWarp
    /\ UNCHANGED <<store, next, loop, sse, warps, fence>>

\* The whole log is read for a remote.
ReadLog ==
    /\ At("target")
    /\ warp.to \in Remotes
    /\ warp' = [warp EXCEPT !.pc = "send", !.rows = Rows(store[Control].log, 0)]
    /\ UNCHANGED <<store, next, loop, sse, warps, fence>>

\* The rows go out in requests of ten; the target replays each in a transaction
\* of its own, under its own ownership and strictly.  A row that dies fails the
\* request and with it the warp; the rows before it stay.
SendRow ==
    /\ At("send")
    /\ warp.sent < Len(warp.rows)
    /\ LET target == store[warp.to]
       IN  /\ store' = [store EXCEPT ![warp.to] =
                          L!Replayed(target, NextRow.event, NextRow.seq, warp.to, TRUE)]
           /\ warp' = IF L!Dies(target, NextRow.event, NextRow.seq, warp.to, TRUE)
                      THEN IdleWarp
                      ELSE [warp EXCEPT !.sent = @ + 1]
    /\ UNCHANGED <<next, loop, sse, warps, fence>>

SentAll ==
    /\ At("send")
    /\ warp.sent = Len(warp.rows)
    /\ Goto("steal")
    /\ UNCHANGED <<store, next, loop, sse, warps, fence>>

\* The target records itself as the new home.
Steal ==
    /\ At("steal")
    /\ Publish(warp.to, warp.to)
    /\ Goto("set")
    /\ UNCHANGED <<loop, warps, fence>>

\* So does the control plane, at once for a local target.
SetWorkspace ==
    /\ At("set") \/ (At("target") /\ warp.to \notin Remotes)
    /\ Publish(Control, warp.to)
    /\ warp' = IdleWarp
    /\ UNCHANGED <<loop, warps, fence>>

\* A request or its answer is lost: the warp fails where it is.
LoseRequest ==
    /\ warp.to \in Remotes
    /\ warp.pc \in {"send", "steal", "set"}
    /\ warp' = IdleWarp
    /\ UNCHANGED <<store, next, loop, sse, warps, fence>>

\* The process of the control plane starts anew.
Restart ==
    /\ loop' = [r \in Remotes |-> IdleLoop]
    /\ sse' = [r \in Remotes |-> <<>>]
    /\ warp' = IdleWarp
    /\ UNCHANGED <<store, next, warps, fence>>

-----------------------------------------------------------------------------
Sync(r) == Connect(r) \/ FetchHistory(r) \/ ReplayHistory(r) \/ GoLive(r) \/ Receive(r)

WarpStep == \/ CatchUp \/ ReplaySource \/ CaughtUp \/ ClaimSession \/ CopyChanges
            \/ ReadLog \/ SendRow \/ SentAll \/ Steal \/ SetWorkspace

Next == \/ \E n \in Nodes : Work(n)
        \/ \E r \in Remotes : StartSync(r) \/ Sync(r) \/ Disconnect(r)
        \/ \E to \in Homes : BeginWarp(to)
        \/ WarpStep \/ LoseRequest \/ Restart

Spec == Init /\ [][Next]_vars

\* A step of a sync loop that becomes possible again and again is taken, however
\* often the connection is lost in between.
FairSpec == Spec /\ \A r \in Remotes :
                     /\ SF_vars(StartSync(r)) /\ SF_vars(Connect(r))
                     /\ SF_vars(FetchHistory(r)) /\ SF_vars(ReplayHistory(r))
                     /\ SF_vars(GoLive(r)) /\ SF_vars(Receive(r))

-----------------------------------------------------------------------------
(* Properties.                                                             *)

\* Wherever an event is stored, it has the number its publisher gave it, and
\* no process stores an event twice.
SameNumberEverywhere ==
    \A m, n \in Nodes :
        \A i \in DOMAIN store[m].log, j \in DOMAIN store[n].log :
            store[m].log[i].id = store[n].log[j].id =>
                i = j /\ store[m].log[i] = store[n].log[j]

\* After a claim nothing the old workspace publishes enters the log of the
\* control plane: it comes from the claimant or from the control plane.
ClaimFences ==
    fence.owner # None =>
        \A i \in DOMAIN store[Control].log :
            i > fence.at => store[Control].log[i].at \in {Control, fence.owner}

\* The workspace that is asked to steal a session holds the whole log that was
\* read for it, event by event, even if it has held the session before.
StealsTheWholeLog ==
    At("steal") => /\ Len(warp.rows) <= Len(store[warp.to].log)
                   /\ \A i \in DOMAIN warp.rows :
                         store[warp.to].log[i] = warp.rows[i].event

\* Without moves the control plane never holds anything but a beginning of the
\* log of the workspace that writes it.
MirrorsTheWriter ==
    \A r \in Remotes : warps = 0 /\ Ran(r) =>
        IsPrefix(store[Control].log, store[r].log)

\* Without moves every event of a workspace reaches the control plane, however
\* often the connection is lost.
EveryEventArrives ==
    \A r \in Remotes, n \in 1 .. MaxEvents :
        Len(store[r].log) >= n /\ warps = 0 ~> Len(store[Control].log) >= n

\* Comment on copying changes: if that fails the session is not warped.  The
\* session stays with its workspace, whose events are still taken.
FailedCopyLeavesTheSession ==
    [][CopyChanges /\ warp'.pc = "idle" /\ warp.from \in Remotes
          => ~L!Fenced(store'[Control], warp.from)]_vars

=============================================================================
