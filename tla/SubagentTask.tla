---------------------------- MODULE SubagentTask ----------------------------
(***************************************************************************)
(* The task tool (tui/packages/opencode/src/tool/task.ts) on top of the    *)
(* registry of background jobs.  A call of the tool in the parent session  *)
(* prompts a child session: it extends the child's job if one runs and     *)
(* starts one otherwise; in the foreground it waits for the job, or until  *)
(* the user sends the job to the background, from where the result is      *)
(* injected into the parent session later.  An abort of the parent session *)
(* (session/run-state.ts) first cancels the background jobs it can see and *)
(* then interrupts the calls, which cancel their jobs themselves.          *)
(*                                                                         *)
(* A call that starts a job serves as the job's token.  A call that finds  *)
(* one running adds a run to it and returns; nothing of it remains.  No    *)
(* call suspends between its look at the registry and its waiting.         *)
(***************************************************************************)
EXTENDS BackgroundJob

CONSTANT MaxRuns  \* bound on the runs of a job

ASSUME MaxRunsAssumption == MaxRuns \in Nat \ {0}

VARIABLES
    calls,    \* the calls of the task tool that start a job
    notes,    \* per call, the fiber that injects its result
    abort     \* the abort of the parent session

vars == <<jobs, active, runs, calls, notes, abort>>

Calls == Tokens

(* A call waits for its job, or has been interrupted and cancels the       *)
(* child's job, twice, before it returns.                                  *)
CallPlaces == {"idle", "waiting", "cancelling", "again", "returned"}
Results == {"none", "background", "output", "failed", "aborted"}

\* The notification is published first ("meta") and then waits for a job.
NotePlaces == {"none", "meta", "waiting", "injected", "silent"}

AbortPlaces == {"idle", "jobs", "runner", "over"}

CallsOK ==
    /\ calls \in [Calls -> [at : CallPlaces, id : Ids \cup {None},
                            result : Results]]
    /\ notes \in [Calls -> [at : NotePlaces, on : Tokens \cup {None}]]
    /\ abort \in [at : AbortPlaces, left : SUBSET Ids, awaits : SUBSET Tokens]

Init ==
    /\ RegistryInit
    /\ calls = [c \in Calls |-> [at |-> "idle", id |-> None, result |-> "none"]]
    /\ notes = [c \in Calls |-> [at |-> "none", on |-> None]]
    /\ abort = [at |-> "idle", left |-> {}, awaits |-> {}]

-----------------------------------------------------------------------------
Return(c, result) ==
    calls' = [calls EXCEPT ![c].at = "returned", ![c].result = result]

\* The session makes calls until its runner is stopped.
Works == abort.at \in {"idle", "jobs"}

\* A call for a child whose job runs: it is extended, whatever the call's mode.
ExtendTask(id) ==
    /\ Works
    /\ Extend(id)
    /\ Len(runs[jobs[id]]) < MaxRuns
    /\ UNCHANGED <<calls, notes, abort>>

\* The call's own notification, which waits for the job now in the map.
Notify(c, id, table) == notes' = [notes EXCEPT ![c] = [at |-> "waiting", on |-> table[id]]]

StartForeground(c, id) ==
    /\ Works
    /\ Start(id, c, FALSE, TRUE)
    /\ calls' = [calls EXCEPT ![c] = [at |-> "waiting", id |-> id, result |-> "none"]]
    /\ UNCHANGED <<notes, abort>>

StartBackground(c, id) ==
    /\ Works
    /\ Start(id, c, TRUE, TRUE)
    /\ Notify(c, id, jobs')
    /\ calls' = [calls EXCEPT ![c] = [at |-> "returned", id |-> id, result |-> "background"]]
    /\ UNCHANGED abort

\* Mutant: whether the job was promoted is not looked at once it has ended.
OutcomeByStatus(c) == CASE active[c].status = "completed" -> "output"
                        [] active[c].status = "running"   -> "background"
                        [] OTHER                          -> "failed"

\* What the race between wait and waitForPromotion gives the call.
Outcome(c) == IF active[c].background THEN "background"
              ELSE IF active[c].status = "completed" THEN "output" ELSE "failed"

\* Mutant: waitForPromotion alone.
ResolveOnPromotion(c) ==
    /\ calls[c].at = "waiting"
    /\ active[c].background
    /\ Return(c, Outcome(c))
    /\ UNCHANGED <<registry, notes, abort>>

Resolve(c) ==
    /\ calls[c].at = "waiting"
    /\ Ended(c) \/ active[c].background
    /\ Return(c, Outcome(c))
    /\ UNCHANGED <<registry, notes, abort>>

-----------------------------------------------------------------------------
(* An interrupted call cancels the child session, and with it the job that *)
(* is in the map by then, and then that job once more.  Each cancellation  *)
(* waits until the scope is closed.                                        *)
CancelNow(id) == Cancel(id) \/ (~Running(jobs[id]) /\ UNCHANGED registry)

\* Mutant: the call is interrupted like any other fiber.
InterruptOnly(c) ==
    /\ abort.at = "runner"
    /\ calls[c].at = "waiting"
    /\ Return(c, "aborted")
    /\ UNCHANGED <<registry, notes, abort>>

InterruptCall(c) ==
    /\ abort.at = "runner"
    /\ calls[c].at = "waiting"
    /\ CancelNow(calls[c].id)
    /\ calls' = [calls EXCEPT ![c].at = "cancelling"]
    /\ UNCHANGED <<notes, abort>>

CancelAgain(c) ==
    /\ calls[c].at = "cancelling"
    /\ ScopeClosed(jobs[calls[c].id])
    /\ CancelNow(calls[c].id)
    /\ calls' = [calls EXCEPT ![c].at = "again"]
    /\ UNCHANGED <<notes, abort>>

ReturnAborted(c) ==
    /\ calls[c].at = "again"
    /\ ScopeClosed(jobs[calls[c].id])
    /\ Return(c, "aborted")
    /\ UNCHANGED <<registry, notes, abort>>

-----------------------------------------------------------------------------
(* The user sends a job to the background: the hook publishes the metadata *)
(* of the call that started the job and only then looks the job up.        *)
PromoteTask(id) ==
    /\ Promote(id)
    /\ notes' = IF active[jobs[id]].hook
                THEN [notes EXCEPT ![jobs[id]].at = "meta"]
                ELSE notes
    /\ UNCHANGED <<calls, abort>>

NotifyPromoted(c) ==
    /\ notes[c].at = "meta"
    /\ Notify(c, calls[c].id, jobs)
    /\ UNCHANGED <<registry, calls, abort>>

\* A cancelled job is not reported.
Inject(c) ==
    /\ notes[c].at = "waiting"
    /\ Ended(notes[c].on)
    /\ notes' = [notes EXCEPT ![c].at =
                   IF active[notes[c].on].status = "cancelled" THEN "silent" ELSE "injected"]
    /\ UNCHANGED <<registry, calls, abort>>

-----------------------------------------------------------------------------
(* The child session is aborted by itself, or removed.                     *)
AbortChild(id) ==
    /\ Cancel(id)
    /\ UNCHANGED <<calls, notes, abort>>

(* The abort of the parent session: the running jobs are listed once, then *)
(* cancelled side by side, then the runner's fiber is interrupted.         *)
BeginAbort ==
    /\ abort.at = "idle"
    /\ abort' = [at |-> "jobs", left |-> {id \in Ids : Running(jobs[id])}, awaits |-> {}]
    /\ UNCHANGED <<registry, calls, notes>>

AbortJob(id) ==
    /\ abort.at = "jobs"
    /\ id \in abort.left
    /\ CancelNow(id)
    /\ abort' = [abort EXCEPT !.left = @ \ {id},
                              !.awaits = IF Running(jobs[id]) THEN @ \cup {jobs[id]} ELSE @]
    /\ UNCHANGED <<calls, notes>>

StopRunner ==
    /\ abort.at = "jobs"
    /\ abort.left = {}
    /\ \A t \in abort.awaits : ScopeClosed(t)
    /\ abort' = [at |-> "runner", left |-> {}, awaits |-> {}]
    /\ UNCHANGED <<registry, calls, notes>>

AbortReturns ==
    /\ abort.at = "runner"
    /\ \A c \in Calls : calls[c].at \in {"idle", "returned"}
    /\ abort' = [abort EXCEPT !.at = "over"]
    /\ UNCHANGED <<registry, calls, notes>>

-----------------------------------------------------------------------------
(* The runs: prompts of the child session.  The first run of a job, when   *)
(* interrupted, cancels the child session and so the job that is in the    *)
(* map by the time it is interrupted.                                      *)
Prompted(t, s) ==
    /\ Begin(t, s) \/ Exit(t, s) \/ Settle(t, s) \/ SettleLate(t, s)
    /\ UNCHANGED <<calls, notes, abort>>

Unwind(t, s) ==
    /\ \/ Unwound(t, s) /\ (s = 1 => ~Running(jobs[active[t].id]))
       \/ /\ s = 1 /\ s \in DOMAIN runs[t] /\ runs[t][s] = "unwinding"
          /\ Cancel(active[t].id)
    /\ UNCHANGED <<calls, notes, abort>>

CallStep(c) == \/ Resolve(c) \/ InterruptCall(c) \/ CancelAgain(c)
               \/ ReturnAborted(c) \/ NotifyPromoted(c) \/ Inject(c)

TaskStep(t, s) == Prompted(t, s) \/ Unwind(t, s)

\* Work that can go on does: the event loop does not rest while a fiber is
\* ready, and the prompt of a child session ends.
Progress == \/ \E c \in Calls : CallStep(c)
            \/ \E id \in Ids : AbortJob(id)
            \/ StopRunner \/ AbortReturns
            \/ \E t \in Tokens : \E s \in DOMAIN runs[t] : TaskStep(t, s)

Next == \/ \E c \in Calls, id \in Ids : StartForeground(c, id) \/ StartBackground(c, id)
        \/ \E id \in Ids : ExtendTask(id) \/ PromoteTask(id) \/ AbortChild(id)
        \/ BeginAbort
        \/ Progress

Spec == Init /\ [][Next]_vars

FairSpec == Spec /\ WF_vars(Progress)

-----------------------------------------------------------------------------
(* Properties.                                                             *)

\* The result of a job that was not cancelled reaches the parent session once:
\* as the result of the call that waited for it, or as an injected message if
\* it went to the background, however promotion and end of the job fall.  (It
\* holds where every notification found the job it was made for: one that is
\* slow to publish its metadata may find a successor.)
Deliveries(t) == {c \in Calls : \/ c = t /\ calls[c].result \in {"output", "failed"}
                                \/ notes[c].at = "injected" /\ notes[c].on = t}
Settled(t) == calls[t].at = "returned" /\ notes[t].at \notin {"meta", "waiting"}

ResultsArriveOnce ==
    (\A c \in Calls : notes[c].on \in {None, c}) =>
        \A t \in Tokens :
            active[t].status \in {"completed", "error"} /\ Settled(t)
                /\ calls[t].result # "aborted"
            => Cardinality(Deliveries(t)) = 1
               /\ (calls[t].result \in {"output", "failed"} => notes[t].at = "none")

\* When the abort of a session returns, no job it left running is in the
\* foreground: calls that started jobs after the list was read have cancelled
\* them, although jobs are cancelled by id and ids are used again.
AbortLeavesNoForegroundJob ==
    [][AbortReturns => \A t \in Tokens : Running(t) => active[t].background]_vars

\* Every call of the tool returns: a foreground call whose job ends, is sent to
\* the background or is aborted from anywhere does not wait for ever.
CallsReturn == \A c \in Calls : calls[c].at # "idle" ~> calls[c].at = "returned"

=============================================================================
