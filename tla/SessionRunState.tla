--------------------------- MODULE SessionRunState ---------------------------
(***************************************************************************)
(* Who may work on one session of the server in packages/opencode.         *)
(*                                                                         *)
(* session/run-state.ts keeps one Runner per busy session in a map;        *)
(* effect/runner.ts is the Runner: a state Idle, Running, Shell or         *)
(* ShellThenRun inside a SynchronizedRef, fibers for the work, and         *)
(* callers that wait for it.  An abort sets the state to Idle at once and  *)
(* only then interrupts the fiber, so a runner that says Idle may still    *)
(* have a fiber cleaning up; and onIdle deletes the map entry of the       *)
(* SESSION, whichever runner it belongs to by then.                        *)
(*                                                                         *)
(* Sessions do not share runners, so the model has one session: `runners`  *)
(* is its entry in the map.  Fibers are cooperative: an action is what a   *)
(* fiber does between two suspensions.  Published status events suspend;   *)
(* a fiber may also have to wait for the permit of the SynchronizedRef,    *)
(* which startShell keeps while it publishes "busy".                       *)
(***************************************************************************)
EXTENDS Naturals, SequencesExt

CONSTANTS
    Callers,    \* requests that prompt the session or run a shell command
    Cancellers, \* requests that abort the session
    Leavers,    \* the callers that may be interrupted while they wait
    Runners,    \* Runner objects that can be in use at once
    Runs,       \* run handles that can be in use at once
    Shells,     \* shell handles that can be in use at once
    None

ASSUME LeaversAssumption == Leavers \subseteq Callers

(* Fibers, requests, runners and the absence of one are told apart.        *)
ASSUME NamesAssumption ==
    /\ Callers \cap Cancellers = {}
    /\ Runs \cap Shells = {}
    /\ (Callers \cup Cancellers) \cap (Runs \cup Shells) = {}
    /\ None \notin Runners \cup Runs \cup Shells

VARIABLES
    runners,  \* the session's entry in the map `runners`, or None
    st,       \* the state of each runner
    line,     \* who holds a runner's permit (the head) and who waits for it
    phase,    \* how far the fiber of each work is
    home,     \* the runner that a work was made by
    done,     \* the runs whose `done` deferred is completed
    status,   \* the session's status
    pc        \* what each request is waiting for

vars == <<runners, st, line, phase, home, done, status, pc>>

Works == Runs \cup Shells
Requests == Callers \cup Cancellers

(* Idle, Running, Shell and ShellThenRun: which handles the state holds.   *)
State == [shell : Shells \cup {None}, run : Runs \cup {None}]
Idle == [shell |-> None, run |-> None]
IsRunning(r, w) == st[r] = [shell |-> None, run |-> w]

(* "queued" has no fiber yet; a "forked" fiber is with the scheduler and   *)
(* has taken no step.  A shell is "starting" until its ready latch opens   *)
(* and "closing" if it was interrupted before that.  "exited" is the body  *)
(* over and the finalizer waiting for the permit; "idling" is the          *)
(* finalizer publishing the idle status.  A fiber that is interrupted      *)
(* before its first step is "lost": it ends without its finalizer, and a   *)
(* shell without opening its latch.                                        *)
Phases == {"queued", "forked", "starting", "closing", "running", "unwinding",
           "exited", "idling", "ended", "lost"}
Stages == {"out", "ensure", "shell", "busy", "await", "watch",
           "jobs", "stop", "ready", "kill", "settled", "idle"}
Stage == [at : Stages, runner : Runners \cup {None},
          work : Works \cup {None}, run : Runs \cup {None}]

Out == [at |-> "out", runner |-> None, work |-> None, run |-> None]
AtRunner(at, r) == [Out EXCEPT !.at = at, !.runner = r]
Waiting(at, w) == [Out EXCEPT !.at = at, !.work = w]

Init ==
    /\ runners = None
    /\ st = [r \in Runners |-> Idle]
    /\ line = [r \in Runners |-> <<>>]
    /\ phase = [w \in Works |-> "ended"]
    /\ home = [w \in Works |-> None]
    /\ done = Runs
    /\ status = "idle"
    /\ pc = [p \in Requests |-> Out]

-----------------------------------------------------------------------------
(* Handles and runners that nothing refers to may be made anew.            *)
UnusedWork(w) ==
    /\ phase[w] = "ended"
    /\ \A p \in Requests : w \notin {pc[p].work, pc[p].run}
UnusedRunner(r) ==
    /\ runners # r
    /\ \A p \in Requests : pc[p].runner # r
    /\ \A w \in Works : home[w] = r => phase[w] = "ended"

(* The bound on what is under way: every call finds a handle in the end.   *)
Spare(pool, stages) ==
    Cardinality({w \in pool : UnusedWork(w)}) >
        Cardinality({c \in Callers : pc[c].at \in stages})

(* The session's runner, made and entered in the map when there is none.   *)
Runner(r) ==
    /\ IF runners = None THEN UnusedRunner(r) ELSE r = runners
    /\ runners' = r

(* The phase of a fiber that has been interrupted: its setup and its       *)
(* finalizer are uninterruptible, but before its first step it has entered *)
(* neither.                                                                *)
Interrupted(ph) == CASE ph = "running"  -> "unwinding"
                     [] ph = "starting" -> "closing"
                     [] ph = "forked"   -> "lost"
                     [] OTHER           -> ph
Interrupt(w) == phase' = [phase EXCEPT ![w] = Interrupted(@)]

Fork(w, r, ph) ==
    /\ UnusedWork(w)
    /\ phase' = [phase EXCEPT ![w] = ph]
    /\ home' = [home EXCEPT ![w] = r]

(* Everything a runner does is done under the permit of its                *)
(* SynchronizedRef, which is handed on in order.  Whoever finds it free    *)
(* goes on without being suspended.                                        *)
Free(r) == line[r] = <<>>
Join(p, r) == ~Free(r) /\ line' = [line EXCEPT ![r] = Append(@, p)]
Turn(p, r) == ~Free(r) /\ Head(line[r]) = p
Release(r) == line' = [line EXCEPT ![r] = Tail(@)]

Wait(p, at, r) ==
    /\ Join(p, r)
    /\ pc' = [pc EXCEPT ![p] = AtRunner(at, r)]

-----------------------------------------------------------------------------
(* ensureRunning: join the run that is there, queue one behind a shell, or *)
(* start one.                                                              *)
JoinRun(c, r) ==
    /\ st[r].run # None
    /\ pc' = [pc EXCEPT ![c] = Waiting("await", st[r].run)]
    /\ UNCHANGED <<st, phase, home, done>>

MakeRun(c, r) ==
    /\ st[r].run = None
    /\ \E w \in Runs :
        /\ Fork(w, r, IF st[r].shell = None THEN "forked" ELSE "queued")
        /\ done' = done \ {w}
        /\ st' = [st EXCEPT ![r].run = w]
        /\ pc' = [pc EXCEPT ![c] = Waiting("await", w)]

EnsureRunning(c, r) == JoinRun(c, r) \/ MakeRun(c, r)

Loop(c) ==
    /\ pc[c] = Out
    /\ Spare(Runs, {"ensure"})
    /\ \E r \in Runners :
        /\ Runner(r)
        /\ \/ Free(r) /\ EnsureRunning(c, r) /\ UNCHANGED line
           \/ Wait(c, "ensure", r) /\ UNCHANGED <<st, phase, home, done>>
    /\ UNCHANGED status

LoopGoesOn(c) ==
    LET r == pc[c].runner IN
    /\ pc[c].at = "ensure"
    /\ Turn(c, r)
    /\ EnsureRunning(c, r)
    /\ Release(r)
    /\ UNCHANGED <<runners, status>>

(* startShell: Busy unless the runner is idle; otherwise the permit is     *)
(* kept while the busy status is published.                                *)
StartShell(c, r) ==
    pc' = [pc EXCEPT ![c] = IF st[r] = Idle THEN AtRunner("busy", r) ELSE Out]

Shell(c) ==
    /\ pc[c] = Out
    /\ Spare(Shells, {"shell", "busy"})
    /\ \E r \in Runners :
        /\ Runner(r)
        /\ \/ /\ Free(r)
              /\ StartShell(c, r)
              /\ line' = [line EXCEPT ![r] = IF st[r] = Idle THEN <<c>> ELSE <<>>]
           \/ Wait(c, "shell", r)
    /\ UNCHANGED <<st, phase, home, done, status>>

ShellGoesOn(c) ==
    LET r == pc[c].runner IN
    /\ pc[c].at = "shell"
    /\ Turn(c, r)
    /\ StartShell(c, r)
    /\ IF st[r] = Idle THEN UNCHANGED line ELSE Release(r)
    /\ UNCHANGED <<runners, st, phase, home, done, status>>

(* onBusy has been published: the shell is forked, the permit released.    *)
ForkShell(c) ==
    /\ pc[c].at = "busy"
    /\ \E s \in Shells :
        /\ Fork(s, pc[c].runner, "forked")
        /\ st' = [st EXCEPT ![pc[c].runner].shell = s]
        /\ pc' = [pc EXCEPT ![c] = Waiting("watch", s)]
    /\ Release(pc[c].runner)
    /\ status' = "busy"
    /\ UNCHANGED <<runners, done>>

(* The caller has its result, or the result of onInterrupt.                *)
Return(c) ==
    /\ \/ pc[c].at = "await" /\ pc[c].work \in done
       \/ pc[c].at = "watch" /\ phase[pc[c].work] = "ended"
    /\ pc' = [pc EXCEPT ![c] = Out]
    /\ UNCHANGED <<runners, st, line, phase, home, done, status>>

(* The caller's own fiber is interrupted.  A run goes on without it; the   *)
(* shell is its child and is interrupted with it, perhaps before its first *)
(* step: forkChild leaves that to the scheduler.                           *)
Leave(c) ==
    /\ c \in Leavers
    /\ pc[c] # Out
    /\ pc' = [pc EXCEPT ![c] = Out]
    /\ line' = [r \in Runners |-> RemoveFirst(line[r], c)]
    /\ IF pc[c].at = "watch" THEN Interrupt(pc[c].work) ELSE UNCHANGED phase
    /\ UNCHANGED <<runners, st, home, done, status>>

-----------------------------------------------------------------------------
(* The first step of a fiber: forkIn and forkChild do not start it at once. *)
Begin(w) ==
    /\ phase[w] = "forked"
    /\ phase' = [phase EXCEPT ![w] = IF w \in Shells THEN "starting" ELSE "running"]
    /\ UNCHANGED <<runners, st, line, home, done, status, pc>>

(* The bodies.  The loop publishes "busy" on every step; its processor     *)
(* publishes "idle" when the provider fails or the run is aborted.         *)
LoopStep(w) ==
    /\ phase[w] = "running"
    /\ status' = "busy"
    /\ UNCHANGED <<runners, st, line, phase, home, done, pc>>

Halt(w) ==
    /\ phase[w] \in {"running", "unwinding"}
    /\ status' = "idle"
    /\ UNCHANGED <<runners, st, line, phase, home, done, pc>>

(* The map forgets the session and the idle status is on its way.          *)
BeginIdle(w, r) ==
    /\ st' = [st EXCEPT ![r] = Idle]
    /\ runners' = None
    /\ phase' = [phase EXCEPT ![w] = "idling"]
    /\ UNCHANGED <<home, done>>

End(w) == home' = [home EXCEPT ![w] = None]

(* Mutant of FinishRun: the id of the run is not compared.                 *)
FinishAnyRun(w, r) ==
    IF st[r].run # None /\ st[r].shell = None
    THEN BeginIdle(w, r)
    ELSE /\ phase' = [phase EXCEPT ![w] = "ended"]
         /\ End(w)
         /\ done' = done \cup {w}
         /\ UNCHANGED <<runners, st>>

(* finishRun: to Idle if the runner still holds this run; then `done`.     *)
FinishRun(w, r) ==
    IF IsRunning(r, w)
    THEN BeginIdle(w, r)
    ELSE /\ phase' = [phase EXCEPT ![w] = "ended"]
         /\ End(w)
         /\ done' = done \cup {w}
         /\ UNCHANGED <<runners, st>>

(* finishShell: to Idle, or start the run that is queued behind it.        *)
StartQueued(s, r) ==
    /\ st' = [st EXCEPT ![r].shell = None]
    /\ phase' = [phase EXCEPT ![s] = "ended", ![st[r].run] = "forked"]
    /\ End(s)
    /\ UNCHANGED <<runners, done>>

FinishShell(s, r) ==
    \/ /\ st[r] = [shell |-> s, run |-> None]
       /\ BeginIdle(s, r)
    \/ /\ st[r].shell = s /\ st[r].run # None
       /\ StartQueued(s, r)
    \/ /\ st[r].shell # s
       /\ phase' = [phase EXCEPT ![s] = "ended"]
       /\ End(s)
       /\ UNCHANGED <<runners, st, done>>

Finish(w, r) ==
    \/ w \in Runs /\ FinishRun(w, r)
    \/ w \in Shells /\ FinishShell(w, r)

(* The body of w is over, and its finalizer takes its turn.                *)
Exit(w) ==
    /\ \/ Free(home[w]) /\ Finish(w, home[w]) /\ UNCHANGED line
       \/ /\ Join(w, home[w])
          /\ phase' = [phase EXCEPT ![w] = "exited"]
          /\ UNCHANGED <<runners, st, home, done>>
    /\ UNCHANGED <<status, pc>>

FinishGoesOn(w) ==
    /\ phase[w] = "exited"
    /\ Turn(w, home[w])
    /\ Finish(w, home[w])
    /\ Release(home[w])
    /\ UNCHANGED <<status, pc>>

(* shellImpl opens the latch when its setup is over, also if it failed.    *)
Ready(s) ==
    /\ phase[s] \in {"starting", "closing"}
    /\ \/ /\ phase' = [phase EXCEPT ![s] = IF @ = "starting" THEN "running"
                                                           ELSE "unwinding"]
          /\ UNCHANGED <<runners, st, line, home, done, status, pc>>
       \/ Exit(s)

BodyEnds(w) == phase[w] = "running" /\ Exit(w)
Unwound(w) == phase[w] = "unwinding" /\ Exit(w)

(* The idle status has been published; a run now completes its `done`.     *)
FinishIdle(w) ==
    /\ phase[w] = "idling"
    /\ status' = "idle"
    /\ phase' = [phase EXCEPT ![w] = "ended"]
    /\ End(w)
    /\ done' = done \cup ({w} \cap Runs)
    /\ UNCHANGED <<runners, st, line, pc>>

-----------------------------------------------------------------------------
(* SessionRunState.cancel: first the session's background jobs, then the   *)
(* runner, or just the idle status if there is none.                       *)
Cancel(x) ==
    /\ pc[x] = Out
    /\ pc' = [pc EXCEPT ![x].at = "jobs"]
    /\ UNCHANGED <<runners, st, line, phase, home, done, status>>

(* The state is Idle from here on, whatever the fiber still has to do.     *)
Kill(x, r, at, work) ==
    /\ work # None
    /\ pc' = [pc EXCEPT ![x] = [at |-> at, runner |-> r,
                               work |-> work, run |-> st[r].run]]
(* Mutant of StopRunner: a runner with a shell is set to Idle only when    *)
(* the abort is over.                                                      *)
StopRunnerLate(x, r) ==
    /\ st' = [st EXCEPT ![r] = IF @.shell = None THEN Idle ELSE @]
    /\ \/ /\ st[r] = Idle
          /\ pc' = [pc EXCEPT ![x] = Out]
          /\ UNCHANGED phase
       \/ /\ st[r].shell = None
          /\ Kill(x, r, "kill", st[r].run)
          /\ Interrupt(st[r].run)
       \/ /\ Kill(x, r, "ready", st[r].shell)
          /\ UNCHANGED phase

StopRunner(x, r) ==
    /\ st' = [st EXCEPT ![r] = Idle]
    /\ \/ /\ st[r] = Idle
          /\ pc' = [pc EXCEPT ![x] = Out]
          /\ UNCHANGED phase
       \/ /\ st[r].shell = None
          /\ Kill(x, r, "kill", st[r].run)
          /\ Interrupt(st[r].run)
       \/ /\ Kill(x, r, "ready", st[r].shell)
          /\ UNCHANGED phase

CancelSession(x) ==
    /\ pc[x].at = "jobs"
    /\ \/ /\ runners = None
          /\ pc' = [pc EXCEPT ![x].at = "idle"]
          /\ UNCHANGED <<st, line, phase>>
       \/ /\ runners # None /\ Free(runners)
          /\ StopRunner(x, runners)
          /\ UNCHANGED line
       \/ /\ runners # None
          /\ Wait(x, "stop", runners)
          /\ UNCHANGED <<st, phase>>
    /\ UNCHANGED <<runners, home, done, status>>

CancelGoesOn(x) ==
    /\ pc[x].at = "stop"
    /\ Turn(x, pc[x].runner)
    /\ StopRunner(x, pc[x].runner)
    /\ Release(pc[x].runner)
    /\ UNCHANGED <<runners, home, done, status>>

(* Mutant of StopShell: a shell that has ended already is waited for.      *)
StopRunningShell(x) ==
    /\ pc[x].at = "ready"
    /\ phase[pc[x].work] = "running"
    /\ Interrupt(pc[x].work)
    /\ pc' = [pc EXCEPT ![x].at = "kill"]
    /\ UNCHANGED <<runners, st, line, home, done, status>>

(* stopShell waits for the latch before it interrupts; the latch of a lost *)
(* shell stays closed.                                                     *)
StopShell(x) ==
    /\ pc[x].at = "ready"
    /\ phase[pc[x].work] \notin {"forked", "starting", "closing", "lost"}
    /\ Interrupt(pc[x].work)
    /\ pc' = [pc EXCEPT ![x].at = "kill"]
    /\ UNCHANGED <<runners, st, line, home, done, status>>

(* Mutant of FailDone: the callers of a queued run are forgotten.          *)
ForgetQueued(x) == UNCHANGED <<done, phase, home>>

(* The fiber has ended; whoever still waits for the run is let go.         *)
FailDone(x) ==
    /\ done' = done \cup ({pc[x].run} \cap Runs)
    /\ phase' = [w \in Works |-> IF w = pc[x].run THEN "ended" ELSE phase[w]]
    /\ home' = [w \in Works |-> IF w = pc[x].run THEN None ELSE home[w]]

(* Mutant of IdleIfCurrent: nobody publishes the idle status.              *)
NeverIdle(x, r) ==
    /\ pc' = [pc EXCEPT ![x] = Out]
    /\ UNCHANGED runners

(* idleIfCurrent: onIdle if the runner has no work, which by now says      *)
(* nothing about the runner that the map holds.                            *)
IdleIfCurrent(x, r) ==
    IF st[r] = Idle
    THEN /\ runners' = None
         /\ pc' = [pc EXCEPT ![x] = [Out EXCEPT !.at = "idle"]]
    ELSE /\ pc' = [pc EXCEPT ![x] = Out]
         /\ UNCHANGED runners

Killed(x) ==
    LET r == pc[x].runner IN
    /\ pc[x].at = "kill"
    /\ phase[pc[x].work] \in {"ended", "lost"}
    /\ FailDone(x)
    /\ \/ Free(r) /\ IdleIfCurrent(x, r) /\ UNCHANGED line
       \/ Wait(x, "settled", r) /\ UNCHANGED runners
    /\ UNCHANGED <<st, status>>

IdleGoesOn(x) ==
    LET r == pc[x].runner IN
    /\ pc[x].at = "settled"
    /\ Turn(x, r)
    /\ IdleIfCurrent(x, r)
    /\ Release(r)
    /\ UNCHANGED <<st, phase, home, done, status>>

CancelReturns(x) ==
    /\ pc[x].at = "idle"
    /\ status' = "idle"
    /\ pc' = [pc EXCEPT ![x] = Out]
    /\ UNCHANGED <<runners, st, line, phase, home, done>>

-----------------------------------------------------------------------------
(* What a request, or the fiber of a work, does of its own accord.  A body *)
(* that nobody interrupts need not end.                                    *)
CallGoesOn(c) == LoopGoesOn(c) \/ ShellGoesOn(c) \/ ForkShell(c) \/ Return(c)
WorkGoesOn(w) == Begin(w) \/ FinishGoesOn(w) \/ FinishIdle(w) \/ Unwound(w) \/ Ready(w)
AbortGoesOn(x) ==
    \/ CancelSession(x) \/ CancelGoesOn(x) \/ StopShell(x) \/ Killed(x)
    \/ IdleGoesOn(x) \/ CancelReturns(x)

Next ==
    \/ \E c \in Callers : Loop(c) \/ Shell(c) \/ CallGoesOn(c) \/ Leave(c)
    \/ \E w \in Runs : LoopStep(w) \/ Halt(w)
    \/ \E w \in Works : BodyEnds(w) \/ WorkGoesOn(w)
    \/ \E x \in Cancellers : Cancel(x) \/ AbortGoesOn(x)

Spec == Init /\ [][Next]_vars

(* The scheduler resumes every fiber that can go on.                       *)
Fairness ==
    /\ \A c \in Callers : WF_vars(CallGoesOn(c))
    /\ \A w \in Works : WF_vars(WorkGoesOn(w))
    /\ \A x \in Cancellers : WF_vars(AbortGoesOn(x))

FairSpec == Spec /\ Fairness

-----------------------------------------------------------------------------
(* TYPE INVARIANT.                                                         *)
TypeOK ==
    /\ runners \in Runners \cup {None}
    /\ st \in [Runners -> State]
    /\ line \in [Runners -> Seq(Requests \cup Works)]
    /\ phase \in [Works -> Phases]
    /\ home \in [Works -> Runners \cup {None}]
    /\ done \subseteq Runs
    /\ status \in {"idle", "busy"}
    /\ pc \in [Requests -> Stage]

Taken(w) == \E x \in Cancellers : w \in {pc[x].work, pc[x].run}

(* Shells whose request went away before they began.  Nobody reports for   *)
(* them: their runner keeps them, and an abort that takes them waits for   *)
(* ever.  The properties name them where they matter, and nothing else is  *)
(* excepted.                                                               *)
Lost == {s \in Shells : phase[s] = "lost"}

(* SAFETY.  The state of a runner and its fibers agree (runner.ts): work   *)
(* that is under way and that no abort has taken is the one its runner     *)
(* holds, so each runner does one thing at a time; and a runner that says  *)
(* it is busy has a fiber that will still report to it, so it cannot stay  *)
(* busy for ever, unless it holds a lost shell.                            *)
RunnerKnowsItsWork ==
    /\ \A w \in Works :
        phase[w] \in {"forked", "starting", "running"} /\ ~Taken(w) =>
            st[home[w]] \in
                IF w \in Runs THEN {[shell |-> None, run |-> w]}
                ELSE [shell : {w}, run : Runs \cup {None}]
    /\ \A r \in Runners :
        /\ st[r].shell # None =>
             /\ phase[st[r].shell] \in {"forked", "starting", "closing", "running",
                                       "unwinding", "exited"} \/ st[r].shell \in Lost
             /\ home[st[r].shell] = r
        /\ st[r].run # None =>
             /\ home[st[r].run] = r
             /\ phase[st[r].run] \in IF st[r].shell = None
                                     THEN {"forked", "running", "exited"} ELSE {"queued"}

(* A run is queued behind a lost shell, or belongs to an abort that waits  *)
(* for one.                                                                *)
Abandoned(w) ==
    \/ phase[w] = "queued" /\ st[home[w]].run = w /\ st[home[w]].shell \in Lost
    \/ \E x \in Cancellers : pc[x].run = w /\ pc[x].work \in Lost

(* SAFETY.  Nobody waits in vain for a run (ensureRunning, cancel) but     *)
(* those whom a lost shell abandons: its fiber lives, or it is queued      *)
(* behind a shell that its runner still holds and that will report, or an  *)
(* abort that goes on has yet to fail it.                                  *)
NobodyIsLeftBehind ==
    \A c \in Callers : pc[c].at = "await" /\ ~Abandoned(pc[c].work) =>
        LET w == pc[c].work IN
        \/ w \in done
        \/ phase[w] \in {"forked", "running", "unwinding", "exited", "idling"}
        \/ phase[w] = "queued" /\ st[home[w]].run = w /\ st[home[w]].shell \notin Lost
        \/ \E x \in Cancellers : pc[x].run = w /\ pc[x].work \notin Lost

(* SAFETY.  Once every request has returned and every fiber has ended, the *)
(* session is shown as idle (onIdle, status.set), in whatever order the    *)
(* busy and idle statuses of overlapping runs were published, unless a     *)
(* runner still holds a lost shell.                                        *)
QuietMeansIdle ==
    /\ \A p \in Requests : pc[p] = Out
    /\ \A w \in Works : phase[w] \in {"ended", "lost"}
    /\ \A r \in Runners : st[r].shell \notin Lost
    => status = "idle"

(* ACTION PROPERTY.  A queued run starts only when its shell has ended,    *)
(* and never once an abort has withdrawn it.                               *)
WithdrawnRunsNeverStart ==
    [][\A w \in Runs : phase[w] = "queued" /\ phase'[w] \in {"forked", "running"} =>
        /\ ~Taken(w)
        /\ phase'[st[home[w]].shell] = "ended"]_vars

(* LIVENESS.  An abort returns (cancel) unless the shell it stops is lost: *)
(* it waits for latches, fibers and permits, and nothing else of these can *)
(* be missing.                                                             *)
AbortsReturn ==
    \A x \in Cancellers : pc[x].at # "out" ~> pc[x].at = "out" \/ pc[x].work \in Lost

-----------------------------------------------------------------------------
(* What assertNotBusy promises its callers in revert.ts and in the         *)
(* deleteMessage handler: it fails while a run is going on that nobody has *)
(* aborted.                                                                *)
AssertNotBusy == runners = None \/ st[runners] = Idle

BusyWhileLoopRuns ==
    \A w \in Runs : phase[w] = "running" => ~AssertNotBusy

=============================================================================
