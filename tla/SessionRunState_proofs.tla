----------------------- MODULE SessionRunState_proofs -----------------------
(***************************************************************************)
(* Proofs about SessionRunState for any number of callers, aborts, runners *)
(* and handles.  What a runner's state says of its work is inductive once  *)
(* it is said of aborts as well: work that an abort has taken is held by   *)
(* no runner.  Beside it stand the permit, which a caller that publishes   *)
(* the busy status keeps on an idle runner, and the debt of the busy       *)
(* status: as long as it is shown, there is somebody left to take it back. *)
(* A lost shell is work that its runner holds for ever; the last part says *)
(* that only the interruption of its own request loses a shell.            *)
(***************************************************************************)
EXTENDS SessionRunState, SequenceTheorems, WellFoundedInduction, TLAPS

\* Where requests can be.
CallerOK(c) ==
    /\ pc[c].run = None
    /\ \/ pc[c] = Out
       \/ pc[c].at \in {"ensure", "shell", "busy"} /\ pc[c].runner \in Runners
                                                   /\ pc[c].work = None
       \/ pc[c].at = "await" /\ pc[c].work \in Runs
       \/ pc[c].at = "watch" /\ pc[c].work \in Shells

AborterOK(x) ==
    \/ /\ pc[x].at \in {"out", "jobs", "idle", "stop", "settled"}
       /\ pc[x].work = None /\ pc[x].run = None
       /\ pc[x].at \in {"stop", "settled"} => pc[x].runner \in Runners
    \/ /\ pc[x].at \in {"ready", "kill"}
       /\ pc[x].runner \in Runners
       /\ pc[x].work \in IF pc[x].at = "ready" THEN Shells ELSE Works

RequestsOK == /\ \A c \in Callers : CallerOK(c)
              /\ \A x \in Cancellers : AborterOK(x)

\* Only shells start and close, only runs are queued, and a fiber has its runner.
WorkOK(w) ==
    /\ phase[w] \in {"starting", "closing"} => w \in Shells
    /\ phase[w] = "queued" => w \in Runs
    /\ phase[w] # "ended" => home[w] \in Runners

\* What a runner holds is under way, its own, and not taken by an abort.
RunnerOK(r) ==
    /\ st[r].shell # None => /\ phase[st[r].shell] \notin {"idling", "ended"}
                             /\ home[st[r].shell] = r
                             /\ ~Taken(st[r].shell)
    /\ st[r].run # None => /\ phase[st[r].run] \in IF st[r].shell = None
                                                   THEN {"forked", "running", "exited"} ELSE {"queued"}
                           /\ home[st[r].run] = r
                           /\ ~Taken(st[r].run)

\* Work that runs and is not taken is what its runner holds.
KnownOK(w) ==
    phase[w] \in {"forked", "starting", "running"} /\ ~Taken(w) =>
        IF w \in Runs THEN st[home[w]].run = w /\ st[home[w]].shell = None
                      ELSE st[home[w]].shell = w

\* A caller that publishes the busy status keeps the permit of an idle runner.
PermitOK ==
    \A c \in Callers : pc[c].at = "busy" =>
        /\ line[pc[c].runner] # <<>>
        /\ Head(line[pc[c].runner]) = c
        /\ st[pc[c].runner].shell = None /\ st[pc[c].runner].run = None

\* Somebody will still show the session as idle.
SomebodyWillIdle ==
    \/ \E r \in Runners : st[r].shell # None \/ st[r].run # None
    \/ \E w \in Works : phase[w] = "idling"
    \/ \E x \in Cancellers : pc[x].at \in {"ready", "kill", "settled", "idle"}

BusyOK == status = "busy" => SomebodyWillIdle

\* Who waits for a run waits for a fiber, for the shell before it, or for an abort.
WaitersOK ==
    \A c \in Callers : pc[c].at = "await" =>
        LET w == pc[c].work IN
        \/ w \in done
        \/ phase[w] \in {"forked", "running", "unwinding", "exited", "idling"}
        \/ phase[w] = "queued" /\ st[home[w]].run = w
        \/ \E x \in Cancellers : pc[x].run = w

RunnersOK == \A r \in Runners : RunnerOK(r)
WorksOK == \A w \in Works : WorkOK(w) /\ KnownOK(w)

IInv == /\ TypeOK /\ RequestsOK /\ RunnersOK /\ WorksOK
        /\ PermitOK /\ BusyOK /\ WaitersOK

-----------------------------------------------------------------------------
(* What a step does to the runners, the fibers and the requests.  Who has  *)
(* the permit is left to the next part.                                    *)
CoreType ==
    /\ st \in [Runners -> State]
    /\ phase \in [Works -> Phases]
    /\ home \in [Works -> Runners \cup {None}]
    /\ done \subseteq Runs
    /\ status \in {"idle", "busy"}
    /\ pc \in [Requests -> Stage]

Core == CoreType /\ RequestsOK /\ RunnersOK /\ WorksOK /\ BusyOK /\ WaitersOK

\* Requests and fibers whose place does not change.
SamePlaces(moved) == \A p \in Requests \ moved : pc'[p] = pc[p]
SameFibers(moved) == \A w \in Works \ moved : phase'[w] = phase[w] /\ home'[w] = home[w]
SameRunners(moved) == \A r \in Runners \ moved : st'[r] = st[r]

\* A queued run that starts does so behind a shell that has ended.
StartsFairly(w) ==
    phase[w] = "queued" /\ phase'[w] \in {"forked", "running"} =>
        /\ ~Taken(w)
        /\ phase'[st[home[w]].shell] = "ended"

\* A runner is in the state with these two handles.
LEMMA StateIs ==
    ASSUME CoreType, NEW r \in Runners
    PROVE  /\ st[r].shell \in Shells \cup {None}
           /\ st[r].run \in Runs \cup {None}
           /\ st[r] = Idle <=> st[r].shell = None /\ st[r].run = None
           /\ \A s, w : st[r] = [shell |-> s, run |-> w] <=> st[r].shell = s /\ st[r].run = w
<1>1. st[r] \in [shell : Shells \cup {None}, run : Runs \cup {None}]
  BY DEF CoreType, State
<1>2. QED
  BY <1>1 DEF Idle

LEMMA TakenBy ==
    ASSUME NEW v, SamePlaces(Callers)
    PROVE  Taken(v)' <=> Taken(v)
BY NamesAssumption DEF SamePlaces, Taken, Requests

LEMMA PlaceIs ==
    ASSUME NEW at, NEW r
    PROVE  /\ AtRunner(at, r).at = at /\ AtRunner(at, r).runner = r
           /\ AtRunner(at, r).work = None /\ AtRunner(at, r).run = None
           /\ at \in Stages /\ r \in Runners => AtRunner(at, r) \in Stage
BY DEF AtRunner, Out, Stage

\* Handles that are made anew are held by nobody.
LEMMA UnusedIsFree ==
    ASSUME Core, NEW w \in Works, UnusedWork(w)
    PROVE  /\ phase[w] = "ended"
           /\ \A p \in Requests : pc[p].work # w /\ pc[p].run # w
           /\ \A r \in Runners : st[r].shell # w /\ st[r].run # w
           /\ ~Taken(w)
<1>1. phase[w] = "ended" /\ \A p \in Requests : pc[p].work # w /\ pc[p].run # w
  BY DEF UnusedWork
<1>2. \A r \in Runners : st[r].shell # w /\ st[r].run # w
  BY <1>1, NamesAssumption DEF Core, RunnersOK, RunnerOK, Works
<1>3. QED
  BY <1>1, <1>2 DEF Taken, Requests

-----------------------------------------------------------------------------
(* Callers.                                                                *)
LEMMA JoinRunKeeps ==
    ASSUME Core, NEW c \in Callers, NEW r \in Runners, JoinRun(c, r), UNCHANGED status
    PROVE  Core' /\ SamePlaces({c}) /\ pc'[c].at = "await" /\ SameRunners({r})
<1> DEFINE w == st[r].run
<1>1. w \in Runs
  BY StateIs DEF JoinRun, Core
<1>2. /\ pc' = [pc EXCEPT ![c] = Waiting("await", w)]
      /\ UNCHANGED <<st, phase, home, done, status>>
  BY DEF JoinRun
<1>3. c \in Requests /\ pc \in [Requests -> Stage]
  BY DEF Requests, Core, CoreType
<1>4. Waiting("await", w) \in Stage /\ Waiting("await", w).at = "await"
        /\ Waiting("await", w).work = w /\ Waiting("await", w).run = None
  BY <1>1 DEF Waiting, Out, Stage, Stages, Works
<1>5. SamePlaces({c}) /\ pc'[c] = Waiting("await", w)
  BY <1>2, <1>3 DEF SamePlaces
<1>6. \A v : Taken(v)' <=> Taken(v)
  BY <1>5, TakenBy DEF SamePlaces
<1>7. CoreType'
  BY <1>2, <1>3, <1>4 DEF Core, CoreType
<1>8. RequestsOK'
  BY <1>1, <1>4, <1>5, NamesAssumption
  DEF Core, RequestsOK, CallerOK, AborterOK, SamePlaces, Requests
<1>9. RunnersOK' /\ WorksOK'
  BY <1>2, <1>6 DEF Core, RunnersOK, RunnerOK, WorksOK, WorkOK, KnownOK
<1>10. BusyOK'
  BY <1>2, <1>5, NamesAssumption DEF Core, BusyOK, SomebodyWillIdle, SamePlaces, Requests
<1>11. phase[w] \in {"forked", "running", "exited"} \/ (phase[w] = "queued" /\ st[home[w]].run = w)
  BY <1>1, NamesAssumption DEF Core, RunnersOK, RunnerOK
<1>12. WaitersOK'
  BY <1>2, <1>4, <1>5, <1>11, NamesAssumption DEF Core, WaitersOK, SamePlaces, Requests
<1>13. QED
  BY <1>2, <1>4, <1>5, <1>7, <1>8, <1>9, <1>10, <1>12 DEF Core, SameRunners

LEMMA MakeRunKeeps ==
    ASSUME Core, NEW c \in Callers, NEW r \in Runners, MakeRun(c, r), UNCHANGED status
    PROVE  /\ Core' /\ SamePlaces({c}) /\ pc'[c].at = "await" /\ SameRunners({r})
           /\ \A v \in Runs : StartsFairly(v)
<1>1. PICK w \in Runs :
          /\ Fork(w, r, IF st[r].shell = None THEN "forked" ELSE "queued")
          /\ done' = done \ {w}
          /\ st' = [st EXCEPT ![r].run = w]
          /\ pc' = [pc EXCEPT ![c] = Waiting("await", w)]
  BY DEF MakeRun
<1> DEFINE ph == IF st[r].shell = None THEN "forked" ELSE "queued"
<1>2. w \in Works /\ UnusedWork(w) /\ st[r].run = None
  BY <1>1 DEF Fork, Works, MakeRun
<1>3. c \in Requests /\ pc \in [Requests -> Stage] /\ phase \in [Works -> Phases]
        /\ home \in [Works -> Runners \cup {None}] /\ st \in [Runners -> State]
  BY DEF Requests, Core, CoreType
<1>4. Waiting("await", w) \in Stage /\ Waiting("await", w).at = "await"
        /\ Waiting("await", w).work = w /\ Waiting("await", w).run = None
  BY <1>2 DEF Waiting, Out, Stage, Stages, Works
<1>5. SamePlaces({c}) /\ pc'[c] = Waiting("await", w)
  BY <1>1, <1>3 DEF SamePlaces
<1>6. SameFibers({w}) /\ phase'[w] = ph /\ home'[w] = r
  BY <1>1, <1>2, <1>3 DEF Fork, SameFibers
<1>7. SameRunners({r}) /\ st'[r].run = w /\ st'[r].shell = st[r].shell
  BY <1>1, <1>3 DEF SameRunners, State
<1>8. /\ phase[w] = "ended" /\ ~Taken(w)
      /\ \A p \in Requests : pc[p].work # w /\ pc[p].run # w
      /\ \A q \in Runners : st[q].shell # w /\ st[q].run # w
  BY <1>2, UnusedIsFree
<1>9. \A v : Taken(v)' <=> Taken(v)
  BY <1>5, TakenBy DEF SamePlaces
<1>10. CoreType'
  <2>1. st' \in [Runners -> State]
    BY <1>1, <1>3 DEF State
  <2>2. phase' \in [Works -> Phases] /\ home' \in [Works -> Runners \cup {None}]
    BY <1>1, <1>2, <1>3 DEF Fork, Phases
  <2>3. pc' \in [Requests -> Stage]
    BY <1>1, <1>3, <1>4
  <2>4. QED
    BY <1>1, <2>1, <2>2, <2>3 DEF Core, CoreType
<1>11. RequestsOK'
  BY <1>4, <1>5, NamesAssumption
  DEF Core, RequestsOK, CallerOK, AborterOK, SamePlaces, Requests
<1>12. RunnersOK'
  <2>1. ASSUME NEW q \in Runners PROVE RunnerOK(q)'
    BY <1>2, <1>3, <1>6, <1>7, <1>8, <1>9, StateIs, NamesAssumption
    DEF Core, RunnersOK, RunnerOK, SameFibers, SameRunners, Works
  <2>2. QED
    BY <2>1 DEF RunnersOK
<1>13. WorksOK'
  <2>1. ASSUME NEW v \in Works PROVE WorkOK(v)'
    BY <1>1, <1>6 DEF Core, WorksOK, WorkOK, SameFibers
  <2>2. ASSUME NEW v \in Works PROVE KnownOK(v)'
    BY <1>2, <1>6, <1>7, <1>9, NamesAssumption
    DEF Core, WorksOK, WorkOK, KnownOK, SameFibers, SameRunners, Works
  <2>3. QED
    BY <2>1, <2>2 DEF WorksOK
<1>14. BusyOK'
  <2>1. SomebodyWillIdle'
    BY <1>7, <1>2, NamesAssumption DEF SomebodyWillIdle, Works
  <2>2. QED
    BY <2>1 DEF BusyOK
<1>15. WaitersOK'
  <2>1. ASSUME NEW d \in Callers, pc'[d].at = "await", d # c
        PROVE  LET v == pc[d].work IN
               \/ v \in done'
               \/ phase'[v] \in {"forked", "running", "unwinding", "exited", "idling"}
               \/ phase'[v] = "queued" /\ st'[home'[v]].run = v
               \/ \E x \in Cancellers : pc'[x].run = v
    <3> DEFINE v == pc[d].work
    <3>1. pc'[d] = pc[d] /\ d \in Requests
      BY <1>5, <2>1 DEF SamePlaces, Requests
    <3>2. v \in Runs /\ v # w /\ v \in Works
      BY <1>8, <2>1, <3>1 DEF Core, RequestsOK, CallerOK, Out, Works
    <3>3. phase'[v] = phase[v] /\ home'[v] = home[v]
      BY <1>6, <3>2 DEF SameFibers
    <3>4. phase[v] = "queued" => home[v] \in Runners
      BY <3>2 DEF Core, WorksOK, WorkOK
    <3>5. \A x \in Cancellers : pc'[x] = pc[x]
      BY <1>5, NamesAssumption DEF SamePlaces, Requests
    <3>6. phase[v] = "queued" /\ st[home[v]].run = v => st'[home[v]].run = v
      BY <1>2, <1>7, <3>2, <3>4, NamesAssumption DEF SameRunners, Works
    <3>7. QED
      BY <1>1, <2>1, <3>1, <3>2, <3>3, <3>5, <3>6 DEF Core, WaitersOK
  <2>2. phase'[w] = "forked" \/ (phase'[w] = "queued" /\ st'[home'[w]].run = w)
    BY <1>6, <1>7
  <2>3. ASSUME NEW d \in Callers PROVE pc'[d].work = IF d = c THEN w ELSE pc[d].work
    BY <1>4, <1>5 DEF SamePlaces, Requests
  <2>4. QED
    BY <2>1, <2>2, <2>3 DEF WaitersOK
<1>16. ASSUME NEW v \in Runs PROVE StartsFairly(v)
  BY <1>6, <1>8 DEF StartsFairly, SameFibers, Works
<1>17. QED
  BY <1>4, <1>5, <1>7, <1>1, <1>10, <1>11, <1>12, <1>13, <1>14, <1>15, <1>16 DEF Core

\* A caller that goes from place to place leaves the runners and the fibers alone.
LEMMA CallerMoves ==
    ASSUME Core, NEW c \in Callers, NEW place \in Stage, pc' = [pc EXCEPT ![c] = place],
           \/ place = Out
           \/ \E at \in {"ensure", "shell", "busy"}, r \in Runners : place = AtRunner(at, r),
           UNCHANGED <<st, phase, home, done, status>>
    PROVE  Core' /\ SamePlaces({c}) /\ pc'[c] = place
<1>1. c \in Requests /\ pc \in [Requests -> Stage]
  BY DEF Requests, Core, CoreType
<1>2. SamePlaces({c}) /\ pc'[c] = place
  BY <1>1 DEF SamePlaces
<1>3. /\ place.run = None /\ place.work = None
      /\ (place.at \in {"ensure", "shell", "busy"} /\ place.runner \in Runners) \/ place = Out
      /\ place.at # "await"
  BY PlaceIs DEF Out
<1>4. \A v : Taken(v)' <=> Taken(v)
  BY <1>2, TakenBy DEF SamePlaces
<1>5. CoreType'
  BY <1>1 DEF Core, CoreType
<1>6. RequestsOK'
  BY <1>2, <1>3, NamesAssumption
  DEF Core, RequestsOK, CallerOK, AborterOK, SamePlaces, Requests
<1>7. RunnersOK' /\ WorksOK'
  BY <1>4 DEF Core, RunnersOK, RunnerOK, WorksOK, WorkOK, KnownOK
<1>8. BusyOK'
  BY <1>2, NamesAssumption DEF Core, BusyOK, SomebodyWillIdle, SamePlaces, Requests
<1>9. WaitersOK'
  BY <1>2, <1>3, NamesAssumption DEF Core, WaitersOK, SamePlaces, Requests
<1>10. QED
  BY <1>2, <1>5, <1>6, <1>7, <1>8, <1>9 DEF Core

LEMMA ForkShellKeeps ==
    ASSUME Core, PermitOK, NEW c \in Callers, ForkShell(c)
    PROVE  /\ Core' /\ SamePlaces({c}) /\ pc'[c].at = "watch" /\ SameRunners({pc[c].runner})
           /\ \A v \in Runs : StartsFairly(v)
<1> DEFINE r == pc[c].runner
<1>1. PICK s \in Shells :
          /\ Fork(s, r, "forked")
          /\ st' = [st EXCEPT ![r].shell = s]
          /\ pc' = [pc EXCEPT ![c] = Waiting("watch", s)]
  BY DEF ForkShell
<1>2. s \in Works /\ UnusedWork(s) /\ status' = "busy" /\ done' = done
  BY <1>1 DEF Fork, Works, ForkShell
<1>3. c \in Requests /\ pc \in [Requests -> Stage] /\ phase \in [Works -> Phases]
        /\ home \in [Works -> Runners \cup {None}] /\ st \in [Runners -> State]
  BY DEF Requests, Core, CoreType
<1>4. r \in Runners /\ st[r].shell = None /\ st[r].run = None
  BY DEF Core, RequestsOK, CallerOK, Out, ForkShell, PermitOK
<1>5. Waiting("watch", s) \in Stage /\ Waiting("watch", s).at = "watch"
        /\ Waiting("watch", s).work = s /\ Waiting("watch", s).run = None
  BY <1>2 DEF Waiting, Out, Stage, Stages, Works
<1>6. SamePlaces({c}) /\ pc'[c] = Waiting("watch", s)
  BY <1>1, <1>3 DEF SamePlaces
<1>7. SameFibers({s}) /\ phase'[s] = "forked" /\ home'[s] = r
  BY <1>1, <1>2, <1>3 DEF Fork, SameFibers
<1>8. SameRunners({r}) /\ st'[r].shell = s /\ st'[r].run = None
  BY <1>1, <1>3, <1>4 DEF SameRunners, State
<1>9. /\ phase[s] = "ended" /\ ~Taken(s)
      /\ \A q \in Runners : st[q].shell # s /\ st[q].run # s
  BY <1>2, UnusedIsFree
<1>10. \A v : Taken(v)' <=> Taken(v)
  BY <1>6, TakenBy DEF SamePlaces
<1>11. CoreType'
  <2>1. st' \in [Runners -> State]
    BY <1>1, <1>3 DEF State
  <2>2. phase' \in [Works -> Phases] /\ home' \in [Works -> Runners \cup {None}]
    BY <1>1, <1>2, <1>3, <1>4 DEF Fork, Phases
  <2>3. pc' \in [Requests -> Stage]
    BY <1>1, <1>3, <1>5
  <2>4. QED
    BY <1>2, <2>1, <2>2, <2>3 DEF Core, CoreType
<1>12. RequestsOK'
  BY <1>5, <1>6, NamesAssumption
  DEF Core, RequestsOK, CallerOK, AborterOK, SamePlaces, Requests
<1>13. RunnersOK'
  <2>1. ASSUME NEW q \in Runners PROVE RunnerOK(q)'
    BY <1>2, <1>3, <1>7, <1>8, <1>9, <1>10, StateIs, NamesAssumption
    DEF Core, RunnersOK, RunnerOK, SameFibers, SameRunners, Works
  <2>2. QED
    BY <2>1 DEF RunnersOK
<1>14. WorksOK'
  <2>1. ASSUME NEW v \in Works PROVE WorkOK(v)'
    BY <1>1, <1>4, <1>7 DEF Core, WorksOK, WorkOK, SameFibers
  <2>2. ASSUME NEW v \in Works PROVE KnownOK(v)'
    BY <1>2, <1>4, <1>7, <1>8, <1>10, NamesAssumption
    DEF Core, WorksOK, WorkOK, KnownOK, SameFibers, SameRunners, Works
  <2>3. QED
    BY <2>1, <2>2 DEF WorksOK
<1>15. BusyOK'
  BY <1>4, <1>8, NamesAssumption DEF BusyOK, SomebodyWillIdle
<1>16. WaitersOK'
  <2>1. ASSUME NEW d \in Callers, pc'[d].at = "await"
        PROVE  LET v == pc'[d].work IN
               \/ v \in done'
               \/ phase'[v] \in {"forked", "running", "unwinding", "exited", "idling"}
               \/ phase'[v] = "queued" /\ st'[home'[v]].run = v
               \/ \E x \in Cancellers : pc'[x].run = v
    <3> DEFINE v == pc[d].work
    <3>1. pc'[d] = pc[d] /\ d \in Requests
      BY <1>5, <1>6, <2>1 DEF SamePlaces, Requests
    <3>2. v \in Runs /\ v # s /\ v \in Works
      BY <2>1, <3>1, NamesAssumption DEF Core, RequestsOK, CallerOK, Out, Works
    <3>3. phase'[v] = phase[v] /\ home'[v] = home[v]
      BY <1>7, <3>2 DEF SameFibers
    <3>4. phase[v] = "queued" => home[v] \in Runners
      BY <3>2 DEF Core, WorksOK, WorkOK
    <3>5. \A x \in Cancellers : pc'[x] = pc[x]
      BY <1>6, NamesAssumption DEF SamePlaces, Requests
    <3>6. phase[v] = "queued" /\ st[home[v]].run = v => st'[home[v]].run = v
      BY <1>4, <1>8, <3>2, <3>4, NamesAssumption DEF SameRunners, Works
    <3>7. QED
      BY <1>2, <2>1, <3>1, <3>3, <3>5, <3>6 DEF Core, WaitersOK
  <2>2. QED
    BY <2>1 DEF WaitersOK
<1>17. ASSUME NEW v \in Runs PROVE StartsFairly(v)
  BY <1>7, <1>9 DEF StartsFairly, SameFibers, Works
<1>18. QED
  BY <1>5, <1>6, <1>8, <1>11, <1>12, <1>13, <1>14, <1>15, <1>16, <1>17 DEF Core

\* An interruption ends no fiber that has begun.
LEMMA InterruptIs ==
    ASSUME Core, NEW w \in Works, Interrupt(w)
    PROVE  /\ phase' \in [Works -> Phases]
           /\ \A v \in Works \ {w} : phase'[v] = phase[v]
           /\ phase'[w] = Interrupted(phase[w])
           /\ phase[w] = "running" => phase'[w] = "unwinding"
           /\ phase[w] = "starting" => phase'[w] = "closing"
           /\ phase[w] = "forked" => phase'[w] = "lost"
           /\ phase[w] \notin {"forked", "running", "starting"} => phase'[w] = phase[w]
<1>1. phase \in [Works -> Phases]
  BY DEF Core, CoreType
<1>2. Interrupted(phase[w]) \in Phases
  BY <1>1 DEF Interrupted, Phases
<1>3. QED
  BY <1>1, <1>2 DEF Interrupt, Interrupted

LEMMA LeaveKeeps ==
    ASSUME Core, NEW c \in Callers, Leave(c)
    PROVE  /\ Core' /\ SamePlaces({c}) /\ pc'[c] = Out /\ st' = st
           /\ \A v \in Runs : StartsFairly(v)
<1>1. c \in Requests /\ pc \in [Requests -> Stage] /\ phase \in [Works -> Phases]
  BY DEF Requests, Core, CoreType
<1>2. SamePlaces({c}) /\ pc'[c] = Out /\ UNCHANGED <<runners, st, home, done, status>>
  BY <1>1 DEF SamePlaces, Leave
<1>3. \A v : Taken(v)' <=> Taken(v)
  BY <1>2, TakenBy DEF SamePlaces
<1>4. /\ phase' \in [Works -> Phases]
      /\ \A v \in Works : \/ phase'[v] = phase[v]
                               \/ /\ v \in Shells
                                  /\ phase[v] \in {"forked", "running", "starting"}
                                  /\ phase'[v] \in {"lost", "unwinding", "closing"}
  <2>1. CASE pc[c].at = "watch"
    <3>1. pc[c].work \in Shells /\ pc[c].work \in Works
      BY <2>1 DEF Core, RequestsOK, CallerOK, Out, Works
    <3>2. QED
      BY <1>1, <2>1, <3>1, InterruptIs DEF Leave
  <2>2. CASE pc[c].at # "watch"
    BY <1>1, <2>2 DEF Leave
  <2>3. QED
    BY <2>1, <2>2
<1>5. CoreType'
  BY <1>1, <1>2, <1>4, PlaceIs DEF Core, CoreType, Leave, Out, Stage, Stages
<1>6. RequestsOK'
  BY <1>2, NamesAssumption
  DEF Core, RequestsOK, CallerOK, AborterOK, SamePlaces, Requests, Out
<1>7. RunnersOK'
  <2>1. ASSUME NEW q \in Runners PROVE RunnerOK(q)'
    BY <1>2, <1>3, <1>4, StateIs, NamesAssumption DEF Core, RunnersOK, RunnerOK, Works
  <2>2. QED
    BY <2>1 DEF RunnersOK
<1>8. WorksOK'
  BY <1>2, <1>3, <1>4 DEF Core, WorksOK, WorkOK, KnownOK
<1>9. BusyOK'
  <2>1. \A v \in Works : phase[v] = "idling" => phase'[v] = "idling"
    BY <1>4
  <2>2. \A x \in Cancellers : pc'[x] = pc[x]
    BY <1>2, NamesAssumption DEF SamePlaces, Requests
  <2>3. QED
    BY <1>2, <2>1, <2>2 DEF Core, BusyOK, SomebodyWillIdle
<1>10. WaitersOK'
  <2>1. \A v \in Runs : v \in Works /\ phase'[v] = phase[v]
    BY <1>4, NamesAssumption DEF Works
  <2>2. \A d \in Callers : pc'[d].at = "await" => pc'[d] = pc[d] /\ pc[d].work \in Runs
    BY <1>2 DEF Core, RequestsOK, CallerOK, Out, SamePlaces, Requests
  <2>3. \A x \in Cancellers : pc'[x] = pc[x]
    BY <1>2, NamesAssumption DEF SamePlaces, Requests
  <2>4. QED
    BY <1>2, <2>1, <2>2, <2>3 DEF Core, WaitersOK
<1>11. ASSUME NEW v \in Runs PROVE StartsFairly(v)
  BY <1>4 DEF StartsFairly, Works
<1>12. QED
  BY <1>2, <1>5, <1>6, <1>7, <1>8, <1>9, <1>10, <1>11 DEF Core

\* The bodies show the session as busy only while somebody will show it as idle.
LEMMA StatusKeeps ==
    ASSUME Core, NEW w \in Runs, LoopStep(w) \/ Halt(w)
    PROVE  Core'
<1>1. UNCHANGED <<st, phase, home, done, pc>> /\ status' \in {"idle", "busy"}
  BY DEF LoopStep, Halt
<1>2. CoreType' /\ RequestsOK' /\ RunnersOK' /\ WorksOK' /\ WaitersOK'
  BY <1>1 DEF Core, CoreType, RequestsOK, CallerOK, AborterOK, RunnersOK, RunnerOK, Taken,
              WorksOK, WorkOK, KnownOK, WaitersOK
<1>3. ASSUME status' = "busy" PROVE BusyOK'
  <2>1. phase[w] = "running" /\ w \in Works
    BY <1>3 DEF LoopStep, Halt, Works
  <2>2. CASE Taken(w)
    <3>1. PICK x \in Cancellers : w \in {pc[x].work, pc[x].run}
      BY <2>2 DEF Taken
    <3>2. pc[x].at \in {"ready", "kill"}
      BY <3>1, NamesAssumption DEF Core, RequestsOK, AborterOK
    <3>3. QED
      BY <1>1, <3>2 DEF BusyOK, SomebodyWillIdle
  <2>3. CASE ~Taken(w)
    <3>1. home[w] \in Runners /\ st[home[w]].run = w
      BY <2>1, <2>3 DEF Core, WorksOK, WorkOK, KnownOK
    <3>2. QED
      BY <1>1, <3>1, NamesAssumption DEF BusyOK, SomebodyWillIdle
  <2>4. QED
    BY <2>2, <2>3
<1>4. ASSUME status' # "busy" PROVE BusyOK'
  BY <1>4 DEF BusyOK
<1>5. QED
  BY <1>2, <1>3, <1>4 DEF Core

-----------------------------------------------------------------------------
(* Fibers.                                                                 *)
LEMMA BeginIdleKeeps ==
    ASSUME Core, NEW w \in Works, NEW r \in Runners, BeginIdle(w, r), UNCHANGED <<status, pc>>,
           st[r].shell = w \/ (st[r].run = w /\ st[r].shell = None),
           st[r].shell = w => st[r].run = None,
           phase[w] # "queued"
    PROVE  Core' /\ SameRunners({r})
<1>1. phase \in [Works -> Phases] /\ st \in [Runners -> State]
  BY DEF Core, CoreType
<1>2. /\ \A v \in Works \ {w} : phase'[v] = phase[v]
      /\ phase'[w] = "idling" /\ home' = home /\ done' = done
      /\ SameRunners({r}) /\ st'[r] = Idle
  BY <1>1 DEF BeginIdle, SameRunners
<1>3. \A v : Taken(v)' <=> Taken(v)
  BY DEF Taken
<1>4. home[w] = r
  BY NamesAssumption DEF Core, RunnersOK, RunnerOK, Works
<1>5. CoreType'
  <2>1. st' \in [Runners -> State] /\ phase' \in [Works -> Phases]
    BY <1>1 DEF BeginIdle, Idle, State, Phases
  <2>2. QED
    BY <1>2, <2>1 DEF Core, CoreType
<1>6. RequestsOK'
  BY DEF Core, RequestsOK, CallerOK, AborterOK
<1>7. RunnersOK'
  <2>1. ASSUME NEW q \in Runners PROVE RunnerOK(q)'
    <3>1. CASE q = r
      BY <1>2, <3>1 DEF RunnerOK, Idle
    <3>2. CASE q # r
      <4>1. st'[q] = st[q] /\ st[q].shell # w /\ st[q].run # w
        BY <1>2, <1>4, <3>2, NamesAssumption
        DEF SameRunners, Core, RunnersOK, RunnerOK, Works
      <4>2. QED
        BY <1>1, <1>2, <1>3, <4>1, StateIs DEF Core, RunnersOK, RunnerOK, Works
    <3>3. QED
      BY <3>1, <3>2
  <2>2. QED
    BY <2>1 DEF RunnersOK
<1>8. WorksOK'
  <2>1. ASSUME NEW v \in Works PROVE WorkOK(v)'
    BY <1>2, <1>4 DEF Core, WorksOK, WorkOK
  <2>2. ASSUME NEW v \in Works PROVE KnownOK(v)'
    <3>1. CASE v = w
      BY <1>2, <3>1 DEF KnownOK
    <3>2. CASE v # w
      <4>1. home[v] = r => ~(phase[v] \in {"forked", "starting", "running"} /\ ~Taken(v))
        BY <3>2, NamesAssumption DEF Core, WorksOK, KnownOK, Works
      <4>2. phase[v] # "ended" => home[v] \in Runners
        BY DEF Core, WorksOK, WorkOK
      <4>3. QED
        BY <1>2, <1>3, <3>2, <4>1, <4>2 DEF Core, WorksOK, KnownOK, SameRunners
    <3>3. QED
      BY <3>1, <3>2
  <2>3. QED
    BY <2>1, <2>2 DEF WorksOK
<1>9. BusyOK'
  BY <1>2 DEF BusyOK, SomebodyWillIdle
<1>10. WaitersOK'
  <2>1. ASSUME NEW d \in Callers, pc'[d].at = "await"
        PROVE  LET v == pc'[d].work IN
               \/ v \in done'
               \/ phase'[v] \in {"forked", "running", "unwinding", "exited", "idling"}
               \/ phase'[v] = "queued" /\ st'[home'[v]].run = v
               \/ \E x \in Cancellers : pc'[x].run = v
    <3> DEFINE v == pc[d].work
    <3>1. v \in Runs /\ v \in Works
      BY <2>1 DEF Core, RequestsOK, CallerOK, Out, Works
    <3>2. phase[v] = "queued" /\ st[home[v]].run = v => v # w /\ home[v] # r /\ home[v] \in Runners
      BY <3>1, NamesAssumption DEF Core, RunnersOK, RunnerOK, WorksOK, WorkOK, Works
    <3>3. phase[v] = "queued" /\ st[home[v]].run = v => st'[home[v]].run = v
      BY <1>2, <3>2 DEF SameRunners
    <3>4. QED
      BY <1>2, <2>1, <3>1, <3>3 DEF Core, WaitersOK
  <2>2. QED
    BY <2>1 DEF WaitersOK
<1>11. QED
  BY <1>2, <1>5, <1>6, <1>7, <1>8, <1>9, <1>10 DEF Core

\* A fiber ends that its runner does not hold any more.
LEMMA EndKeeps ==
    ASSUME Core, NEW w \in Works, phase[w] # "queued", phase[w] # "idling" \/ status' = "idle",
           status' \in {status, "idle"},
           \A q \in Runners : st[q].shell # w /\ st[q].run # w,
           phase' = [phase EXCEPT ![w] = "ended"], End(w), done' = done \cup ({w} \cap Runs),
           UNCHANGED <<st, pc>>
    PROVE  Core'
<1>1. phase \in [Works -> Phases] /\ home \in [Works -> Runners \cup {None}]
  BY DEF Core, CoreType
<1>2. SameFibers({w}) /\ phase'[w] = "ended" /\ home'[w] = None
  BY <1>1 DEF SameFibers, End
<1>3. \A v : Taken(v)' <=> Taken(v)
  BY DEF Taken
<1>4. CoreType'
  <2>1. phase' \in [Works -> Phases] /\ home' \in [Works -> Runners \cup {None}]
    BY <1>1 DEF Phases, End
  <2>2. QED
    BY <2>1 DEF Core, CoreType
<1>5. RequestsOK'
  BY DEF Core, RequestsOK, CallerOK, AborterOK
<1>6. RunnersOK'
  <2>1. ASSUME NEW q \in Runners PROVE RunnerOK(q)'
    BY <1>2, <1>3, StateIs DEF Core, RunnersOK, RunnerOK, SameFibers, Works
  <2>2. QED
    BY <2>1 DEF RunnersOK
<1>7. WorksOK'
  BY <1>2, <1>3 DEF Core, WorksOK, WorkOK, KnownOK, SameFibers
<1>8. BusyOK'
  BY <1>2 DEF Core, BusyOK, SomebodyWillIdle, SameFibers
<1>9. WaitersOK'
  <2>1. \A d \in Callers : pc[d].at = "await" => pc[d].work \in Runs /\ pc[d].work \in Works
    BY DEF Core, RequestsOK, CallerOK, Out, Works
  <2>2. QED
    BY <1>2, <2>1 DEF Core, WaitersOK, SameFibers
<1>10. QED
  BY <1>4, <1>5, <1>6, <1>7, <1>8, <1>9 DEF Core

Finishing == {"running", "unwinding", "starting", "closing", "exited"}

LEMMA FinishRunKeeps ==
    ASSUME Core, NEW w \in Runs, phase[w] \in Finishing, FinishRun(w, home[w]),
           UNCHANGED <<status, pc>>
    PROVE  Core' /\ SameRunners({home[w]}) /\ phase'[w] \notin {"forked", "running"}
              /\ \A v \in Works \ {w} : phase'[v] = phase[v]
<1> DEFINE r == home[w]
<1>1. w \in Works /\ r \in Runners /\ phase \in [Works -> Phases]
  BY DEF Core, CoreType, WorksOK, WorkOK, Finishing, Works
<1>2. CASE IsRunning(r, w)
  <2>1. st[r].run = w /\ st[r].shell = None /\ BeginIdle(w, r)
    BY <1>1, <1>2, StateIs DEF FinishRun, IsRunning, Core
  <2>2. Core' /\ SameRunners({r})
    BY <1>1, <2>1, BeginIdleKeeps, NamesAssumption DEF Finishing, Works
  <2>3. QED
    BY <1>1, <2>1, <2>2 DEF BeginIdle
<1>3. CASE ~IsRunning(r, w)
  <2>1. /\ phase' = [phase EXCEPT ![w] = "ended"]
        /\ End(w)
        /\ done' = done \cup {w}
        /\ UNCHANGED <<runners, st>>
    BY <1>3 DEF FinishRun
  <2>2. ASSUME NEW q \in Runners PROVE st[q].shell # w /\ st[q].run # w
    <3>1. st[q].shell # w
      BY <1>1, StateIs, NamesAssumption DEF Core
    <3>2. ASSUME st[q].run = w PROVE FALSE
      <4>1. home[w] = q /\ (st[q].shell # None => phase[w] = "queued")
        BY <3>2, NamesAssumption DEF Core, RunnersOK, RunnerOK
      <4>2. st[q] = [shell |-> None, run |-> w]
        BY <3>2, <4>1, StateIs DEF Finishing, Core
      <4>3. QED
        BY <1>3, <4>1, <4>2 DEF IsRunning
    <3>3. QED
      BY <3>1, <3>2
  <2>3. Core'
    BY <1>1, <2>1, <2>2, EndKeeps DEF Finishing
  <2>4. QED
    BY <1>1, <2>1, <2>3 DEF SameRunners
<1>4. QED
  BY <1>2, <1>3

\* The run behind a shell starts: no abort has taken it, and the shell has ended.
LEMMA StartQueuedKeeps ==
    ASSUME Core, NEW s \in Shells, phase[s] \in Finishing, st[home[s]].shell = s,
           st[home[s]].run # None, StartQueued(s, home[s]), UNCHANGED <<status, pc>>
    PROVE  /\ Core' /\ SameRunners({home[s]})
           /\ st[home[s]].run \in Runs /\ home[st[home[s]].run] = home[s]
           /\ ~Taken(st[home[s]].run) /\ phase'[s] = "ended"
           /\ \A v \in Works \ {s, st[home[s]].run} : phase'[v] = phase[v]
<1> DEFINE r == home[s]
           w == st[r].run
<1>1. /\ s \in Works /\ r \in Runners /\ w \in Runs /\ w \in Works
      /\ phase \in [Works -> Phases] /\ home \in [Works -> Runners \cup {None}]
      /\ st \in [Runners -> State]
  <2>1. s \in Works /\ r \in Runners
    BY DEF Core, WorksOK, WorkOK, Finishing, Works
  <2>2. QED
    BY <2>1, StateIs DEF Core, CoreType, Works
<1>2. s # w /\ phase[w] = "queued" /\ home[w] = r /\ ~Taken(w) /\ ~Taken(s)
  BY <1>1, NamesAssumption DEF Core, RunnersOK, RunnerOK, Works
<1>3. /\ SameRunners({r}) /\ st'[r].shell = None /\ st'[r].run = w
      /\ SameFibers({s, w}) /\ phase'[s] = "ended" /\ phase'[w] = "forked"
      /\ home'[w] = r /\ done' = done
  <2>1. SameRunners({r}) /\ st'[r].shell = None /\ st'[r].run = w
    BY <1>1 DEF SameRunners, StartQueued, State
  <2>2. QED
    BY <1>1, <1>2, <2>1 DEF SameFibers, StartQueued, End
<1>4. \A v : Taken(v)' <=> Taken(v)
  BY DEF Taken
<1>5. CoreType'
  <2>1. st' \in [Runners -> State]
    BY <1>1 DEF StartQueued, State
  <2>2. phase' \in [Works -> Phases] /\ home' \in [Works -> Runners \cup {None}]
    BY <1>1 DEF StartQueued, Phases, End
  <2>3. QED
    BY <1>3, <2>1, <2>2 DEF Core, CoreType
<1>6. RequestsOK'
  BY DEF Core, RequestsOK, CallerOK, AborterOK
<1>7. RunnersOK'
  <2>1. ASSUME NEW q \in Runners PROVE RunnerOK(q)'
    <3>1. CASE q = r
      BY <1>1, <1>2, <1>3, <1>4, <3>1 DEF RunnerOK
    <3>2. CASE q # r
      <4>1. st'[q] = st[q] /\ \A v \in {s, w} : st[q].shell # v /\ st[q].run # v
        BY <1>1, <1>2, <1>3, <3>2, NamesAssumption
        DEF SameRunners, Core, RunnersOK, RunnerOK, Works
      <4>2. QED
        BY <1>3, <1>4, <4>1, StateIs DEF Core, RunnersOK, RunnerOK, SameFibers, Works
    <3>3. QED
      BY <3>1, <3>2
  <2>2. QED
    BY <2>1 DEF RunnersOK
<1>8. WorksOK'
  <2>1. ASSUME NEW v \in Works PROVE WorkOK(v)'
    BY <1>1, <1>3 DEF Core, WorksOK, WorkOK, SameFibers
  <2>2. ASSUME NEW v \in Works PROVE KnownOK(v)'
    <3>1. CASE v \in {s, w}
      BY <1>1, <1>3, <3>1 DEF KnownOK
    <3>2. CASE v \notin {s, w}
      <4>1. home[v] = r => ~(phase[v] \in {"forked", "starting", "running"} /\ ~Taken(v))
        BY <1>1, <3>2, NamesAssumption DEF Core, WorksOK, KnownOK, Works
      <4>2. phase[v] # "ended" => home[v] \in Runners
        BY DEF Core, WorksOK, WorkOK
      <4>3. QED
        BY <1>3, <1>4, <3>2, <4>1, <4>2 DEF Core, WorksOK, KnownOK, SameRunners, SameFibers
    <3>3. QED
      BY <3>1, <3>2
  <2>3. QED
    BY <2>1, <2>2 DEF WorksOK
<1>9. BusyOK'
  BY <1>1, <1>3, NamesAssumption DEF BusyOK, SomebodyWillIdle, Works
<1>10. WaitersOK'
  <2>1. ASSUME NEW d \in Callers, pc'[d].at = "await"
        PROVE  LET v == pc'[d].work IN
               \/ v \in done'
               \/ phase'[v] \in {"forked", "running", "unwinding", "exited", "idling"}
               \/ phase'[v] = "queued" /\ st'[home'[v]].run = v
               \/ \E x \in Cancellers : pc'[x].run = v
    <3> DEFINE v == pc[d].work
    <3>1. v \in Runs /\ v \in Works /\ v # s
      BY <2>1, NamesAssumption DEF Core, RequestsOK, CallerOK, Out, Works
    <3>2. phase[v] = "queued" => home[v] \in Runners
      BY <3>1 DEF Core, WorksOK, WorkOK
    <3>3. v # w /\ phase[v] = "queued" /\ st[home[v]].run = v => st'[home[v]].run = v
      BY <1>3, <3>2 DEF SameRunners
    <3>4. v # w => phase'[v] = phase[v] /\ home'[v] = home[v]
      BY <1>3, <3>1 DEF SameFibers
    <3>5. QED
      BY <1>3, <2>1, <3>1, <3>3, <3>4 DEF Core, WaitersOK
  <2>2. QED
    BY <2>1 DEF WaitersOK
<1>11. QED
  BY <1>1, <1>2, <1>3, <1>5, <1>6, <1>7, <1>8, <1>9, <1>10 DEF Core, SameFibers

LEMMA FinishShellKeeps ==
    ASSUME Core, NEW s \in Shells, phase[s] \in Finishing, FinishShell(s, home[s]),
           UNCHANGED <<status, pc>>
    PROVE  Core' /\ SameRunners({home[s]}) /\ \A w \in Runs : StartsFairly(w)
<1> DEFINE r == home[s]
<1>1. s \in Works /\ r \in Runners /\ phase \in [Works -> Phases]
  BY DEF Core, CoreType, WorksOK, WorkOK, Finishing, Works
<1>2. Runs \subseteq Works \ {s}
  BY NamesAssumption DEF Works
<1>3. CASE st[r] = [shell |-> s, run |-> None] /\ BeginIdle(s, r)
  <2>1. st[r].shell = s /\ st[r].run = None
    BY <1>1, <1>3, StateIs DEF Core
  <2>2. Core' /\ SameRunners({r})
    BY <1>1, <1>3, <2>1, BeginIdleKeeps DEF Finishing
  <2>3. QED
    BY <1>1, <1>2, <1>3, <2>2 DEF BeginIdle, StartsFairly
<1>4. CASE st[r].shell = s /\ st[r].run # None /\ StartQueued(s, r)
  <2>1. ASSUME NEW w \in Runs PROVE StartsFairly(w)
    <3>1. /\ home[st[r].run] = r /\ ~Taken(st[r].run) /\ phase'[s] = "ended"
          /\ \A v \in Works \ {s, st[r].run} : phase'[v] = phase[v]
      BY <1>4, StartQueuedKeeps
    <3>2. CASE w = st[r].run
      BY <1>4, <3>1, <3>2 DEF StartsFairly
    <3>3. CASE w # st[r].run
      BY <1>2, <3>1, <3>3 DEF StartsFairly
    <3>4. QED
      BY <3>2, <3>3
  <2>2. QED
    BY <1>4, <2>1, StartQueuedKeeps
<1>5. CASE /\ st[r].shell # s
           /\ phase' = [phase EXCEPT ![s] = "ended"]
           /\ End(s)
           /\ UNCHANGED <<runners, st, done>>
  <2>1. ASSUME NEW q \in Runners PROVE st[q].shell # s /\ st[q].run # s
    BY <1>1, <1>5, StateIs, NamesAssumption DEF Core, RunnersOK, RunnerOK, Works
  <2>2. done' = done \cup ({s} \cap Runs)
    BY <1>5, NamesAssumption
  <2>3. Core'
    BY <1>1, <1>5, <2>1, <2>2, EndKeeps DEF Finishing
  <2>4. QED
    BY <1>1, <1>2, <1>5, <2>3 DEF SameRunners, StartsFairly
<1>6. QED
  BY <1>3, <1>4, <1>5 DEF FinishShell

LEMMA FinishKeeps ==
    ASSUME Core, NEW w \in Works, phase[w] \in Finishing, Finish(w, home[w]),
           UNCHANGED <<status, pc>>
    PROVE  Core' /\ SameRunners({home[w]}) /\ \A v \in Runs : StartsFairly(v)
<1>1. CASE w \in Runs /\ FinishRun(w, home[w])
  BY <1>1, FinishRunKeeps DEF StartsFairly, Works
<1>2. CASE w \in Shells /\ FinishShell(w, home[w])
  BY <1>2, FinishShellKeeps
<1>3. QED
  BY <1>1, <1>2 DEF Finish

\* The phase of a fiber goes on while its runner holds it or not.
LEMMA PhaseKeeps ==
    ASSUME Core, NEW w \in Works, NEW ph, phase' = [phase EXCEPT ![w] = ph],
           \/ phase[w] \in Finishing \ {"exited"} /\ ph = "exited"
           \/ phase[w] = "starting" /\ ph = "running"
           \/ phase[w] = "forked" /\ ph = IF w \in Shells THEN "starting" ELSE "running"
           \/ /\ phase[w] \in {"running", "closing"} /\ ph = "unwinding"
              /\ \A q \in Runners : st[q].run # w,
           UNCHANGED <<st, home, done, status, pc>>
    PROVE  Core' /\ \A v \in Runs : ~(phase[v] = "queued" /\ phase'[v] \in {"forked", "running"})
<1>1. phase \in [Works -> Phases] /\ ph \in Phases
  BY DEF Core, CoreType, Phases
<1>2. phase'[w] = ph /\ \A v \in Works \ {w} : phase'[v] = phase[v]
  BY <1>1
<1>3. \A v : Taken(v)' <=> Taken(v)
  BY DEF Taken
<1>4. CoreType' /\ RequestsOK'
  BY <1>1 DEF Core, CoreType, RequestsOK, CallerOK, AborterOK
<1>5. RunnersOK'
  <2>1. ASSUME NEW q \in Runners PROVE RunnerOK(q)'
    <3>1. st[q].run = w => w \in Runs
      BY StateIs, NamesAssumption DEF Core, Works
    <3>2. st[q].run # None => phase[st[q].run] \notin {"starting", "closing"}
      BY DEF Core, RunnersOK, RunnerOK
    <3>3. phase[w] = "forked" => ph = IF w \in Runs THEN "running" ELSE "starting"
      BY NamesAssumption DEF Works, Finishing
    <3>4. QED
      BY <1>2, <1>3, <3>1, <3>2, <3>3, StateIs DEF Core, RunnersOK, RunnerOK, Works, Finishing
  <2>2. QED
    BY <2>1 DEF RunnersOK
<1>6. WorksOK'
  BY <1>2, <1>3, NamesAssumption DEF Core, WorksOK, WorkOK, KnownOK, Finishing, Works
<1>7. BusyOK'
  BY <1>2 DEF Core, BusyOK, SomebodyWillIdle, Finishing
<1>8. WaitersOK'
  <2>1. \A d \in Callers : pc[d].at = "await" =>
            pc[d].work \in Works /\ pc[d].work \in Runs /\ pc[d].work \notin Shells
    BY NamesAssumption DEF Core, RequestsOK, CallerOK, Out, Works
  <2>2. QED
    BY <1>2, <2>1 DEF Core, WaitersOK, WorksOK, WorkOK, Finishing
<1>9. QED
  BY <1>2, <1>4, <1>5, <1>6, <1>7, <1>8, NamesAssumption DEF Core, Works, Finishing

\* A body is over: the finalizer goes on or waits for the permit.
LEMMA ExitKeeps ==
    ASSUME Core, NEW w \in Works, phase[w] \in Finishing \ {"exited"}, Exit(w)
    PROVE  Core' /\ SameRunners({home[w]}) /\ \A v \in Runs : StartsFairly(v)
<1>1. CASE Finish(w, home[w])
  BY <1>1, FinishKeeps DEF Exit
<1>2. CASE phase' = [phase EXCEPT ![w] = "exited"] /\ UNCHANGED <<runners, st, home, done>>
  BY <1>2, PhaseKeeps DEF Exit, SameRunners, StartsFairly
<1>3. QED
  BY <1>1, <1>2 DEF Exit

LEMMA ReadyKeeps ==
    ASSUME Core, NEW s \in Works, Ready(s)
    PROVE  Core' /\ SameRunners({home[s]}) /\ \A v \in Runs : StartsFairly(v)
<1>1. phase[s] \in {"starting", "closing"} /\ s \in Shells
  BY DEF Ready, Core, WorksOK, WorkOK
<1>2. CASE Exit(s)
  BY <1>1, <1>2, ExitKeeps DEF Finishing
<1>3. CASE /\ phase' = [phase EXCEPT ![s] = IF @ = "starting" THEN "running" ELSE "unwinding"]
           /\ UNCHANGED <<runners, st, line, home, done, status, pc>>
  <2> DEFINE ph == IF phase[s] = "starting" THEN "running" ELSE "unwinding"
  <2>1. phase' = [phase EXCEPT ![s] = ph]
    BY <1>3 DEF Core, CoreType
  <2>2. \A q \in Runners : st[q].run # s
    BY <1>1, StateIs, NamesAssumption DEF Core
  <2>3. Core' /\ \A v \in Runs : ~(phase[v] = "queued" /\ phase'[v] \in {"forked", "running"})
    BY <1>1, <1>3, <2>1, <2>2, PhaseKeeps
  <2>4. QED
    BY <1>3, <2>3 DEF SameRunners, StartsFairly
<1>4. QED
  BY <1>2, <1>3 DEF Ready

\* The first step of a fiber: its runner holds it, or an abort has taken it.
LEMMA BeginKeeps ==
    ASSUME Core, NEW w \in Works, Begin(w)
    PROVE  Core' /\ SameRunners({home[w]}) /\ \A v \in Runs : StartsFairly(v)
<1> DEFINE ph == IF w \in Shells THEN "starting" ELSE "running"
<1>1. /\ phase[w] = "forked" /\ phase' = [phase EXCEPT ![w] = ph]
      /\ UNCHANGED <<st, home, done, status, pc>>
  BY DEF Begin
<1>2. Core' /\ \A v \in Runs : ~(phase[v] = "queued" /\ phase'[v] \in {"forked", "running"})
  BY <1>1, PhaseKeeps
<1>3. QED
  BY <1>1, <1>2 DEF SameRunners, StartsFairly

LEMMA FinishIdleKeeps ==
    ASSUME Core, NEW w \in Works, FinishIdle(w)
    PROVE  Core' /\ \A v \in Runs : StartsFairly(v)
<1>1. /\ phase[w] = "idling" /\ status' = "idle" /\ phase' = [phase EXCEPT ![w] = "ended"]
      /\ End(w) /\ done' = done \cup ({w} \cap Runs) /\ UNCHANGED <<runners, st, line, pc>>
  BY DEF FinishIdle
<1>2. \A q \in Runners : st[q].shell # w /\ st[q].run # w
  BY <1>1, NamesAssumption DEF Core, RunnersOK, RunnerOK, Works
<1>3. Core'
  BY <1>1, <1>2, EndKeeps
<1>4. phase \in [Works -> Phases]
  BY DEF Core, CoreType
<1>5. QED
  BY <1>1, <1>3, <1>4 DEF StartsFairly, Works

-----------------------------------------------------------------------------
(* Aborts.                                                                 *)

\* An abort goes from place to place without taking work or letting it go.
LEMMA AborterMoves ==
    ASSUME Core, NEW x \in Cancellers, NEW place \in Stage, SamePlaces({x}), pc'[x] = place,
           pc' \in [Requests -> Stage],
           place.work = pc[x].work, place.run = pc[x].run, AborterOK(x)',
           UNCHANGED <<st, phase, home, done>>,
           status' = "idle" \/ (status' = status /\ (SomebodyWillIdle => SomebodyWillIdle'))
    PROVE  Core'
<1>1. \A p \in Callers : pc'[p] = pc[p]
  BY NamesAssumption DEF SamePlaces, Requests
<1>2. \A y \in Cancellers : pc'[y].work = pc[y].work /\ pc'[y].run = pc[y].run
  BY DEF SamePlaces, Requests
<1>3. \A v : Taken(v)' <=> Taken(v)
  BY <1>2 DEF Taken
<1>4. CoreType'
  BY DEF Core, CoreType
<1>5. RequestsOK'
  BY <1>1 DEF Core, RequestsOK, CallerOK, AborterOK, SamePlaces, Requests
<1>6. RunnersOK' /\ WorksOK'
  BY <1>3 DEF Core, RunnersOK, RunnerOK, WorksOK, WorkOK, KnownOK
<1>7. BusyOK'
  BY DEF Core, BusyOK
<1>8. WaitersOK'
  BY <1>1, <1>2 DEF Core, WaitersOK
<1>9. QED
  BY <1>4, <1>5, <1>6, <1>7, <1>8 DEF Core

\* The runner is idle at once, and what it held is the abort's.
LEMMA StopRunnerKeeps ==
    ASSUME Core, NEW x \in Cancellers, pc[x].at \in {"jobs", "stop"}, NEW r \in Runners,
           StopRunner(x, r), UNCHANGED <<home, done, status>>
    PROVE  /\ Core' /\ SamePlaces({x}) /\ SameRunners({r})
           /\ \A v \in Runs : StartsFairly(v)
<1>1. /\ phase \in [Works -> Phases] /\ st \in [Runners -> State]
      /\ pc \in [Requests -> Stage] /\ x \in Requests
  BY DEF Core, CoreType, Requests
<1>2. pc[x].work = None /\ pc[x].run = None
  BY DEF Core, RequestsOK, AborterOK
<1>3. SameRunners({r}) /\ st'[r] = Idle
  BY <1>1 DEF StopRunner, SameRunners
<1>4. /\ st[r].shell \in Shells \cup {None} /\ st[r].run \in Runs \cup {None}
      /\ st[r] = Idle <=> st[r].shell = None /\ st[r].run = None
  BY StateIs DEF Core
<1>5. st' \in [Runners -> State]
  BY <1>1 DEF StopRunner, State, Idle
<1> DEFINE Takes(at, w) == /\ w # None
                           /\ pc'[x] = [at |-> at, runner |-> r, work |-> w, run |-> st[r].run]
<1>6. /\ SamePlaces({x})
      /\ \/ st[r] = Idle /\ pc'[x] = Out /\ phase' = phase
         \/ st[r].shell = None /\ Takes("kill", st[r].run) /\ Interrupt(st[r].run)
         \/ Takes("ready", st[r].shell) /\ phase' = phase
  <2>1. CASE st[r] = Idle /\ pc' = [pc EXCEPT ![x] = Out] /\ UNCHANGED phase
    BY <1>1, <2>1 DEF SamePlaces
  <2>2. CASE st[r].shell = None /\ Kill(x, r, "kill", st[r].run) /\ Interrupt(st[r].run)
    BY <1>1, <2>2 DEF SamePlaces, Kill
  <2>3. CASE Kill(x, r, "ready", st[r].shell) /\ UNCHANGED phase
    BY <1>1, <2>3 DEF SamePlaces, Kill
  <2>4. QED
    BY <2>1, <2>2, <2>3 DEF StopRunner
<1>7. pc' \in [Requests -> Stage]
  BY <1>1, <1>4 DEF StopRunner, Kill, Stage, Stages, Out, Works
<1>8. /\ phase' \in [Works -> Phases]
      /\ \A v \in Works :
             \/ phase'[v] = phase[v]
             \/ /\ v = st[r].run
                /\ \/ phase[v] = "running" /\ phase'[v] = "unwinding"
                   \/ phase[v] = "forked" /\ phase'[v] = "lost" /\ pc'[x].run = v
  <2>1. CASE phase' = phase
    BY <1>1, <2>1
  <2>2. CASE st[r].shell = None /\ Takes("kill", st[r].run) /\ Interrupt(st[r].run)
    <3>1. st[r].run \in Works /\ phase[st[r].run] \in {"forked", "running", "exited"}
      BY <1>4, <2>2, NamesAssumption DEF Core, RunnersOK, RunnerOK, Works
    <3>2. QED
      BY <2>2, <3>1, InterruptIs
  <2>3. QED
    BY <1>6, <2>1, <2>2
<1>9. \A v \in Works : Taken(v)' <=> Taken(v) \/ v = st[r].shell \/ v = st[r].run
  <2>1. \A v \in Works : v # None
    BY NamesAssumption DEF Works
  <2>2. \A y \in Cancellers \ {x} : pc'[y] = pc[y]
    BY <1>6 DEF SamePlaces, Requests
  <2>3. ASSUME NEW v \in Works
        PROVE  v \in {pc'[x].work, pc'[x].run} <=> v = st[r].shell \/ v = st[r].run
    BY <1>4, <1>6, <2>1 DEF Out
  <2>4. QED
    BY <1>2, <2>1, <2>2, <2>3 DEF Taken
<1>10. CoreType'
  BY <1>5, <1>7, <1>8 DEF Core, CoreType
<1>11. RequestsOK'
  <2>1. AborterOK(x)'
    BY <1>4, <1>6 DEF AborterOK, Out, Works
  <2>2. QED
    BY <1>6, <2>1, NamesAssumption
    DEF Core, RequestsOK, CallerOK, AborterOK, SamePlaces, Requests
<1>12. RunnersOK'
  <2>1. ASSUME NEW q \in Runners PROVE RunnerOK(q)'
    <3>1. CASE q = r
      BY <1>3, <3>1 DEF RunnerOK, Idle
    <3>2. CASE q # r
      <4>1. /\ st'[q] = st[q]
            /\ st[q].shell # None => st[q].shell # st[r].shell /\ st[q].shell # st[r].run
            /\ st[q].run # None => st[q].run # st[r].shell /\ st[q].run # st[r].run
        BY <1>3, <3>2 DEF SameRunners, Core, RunnersOK, RunnerOK
      <4>2. st[q].shell \in Works \cup {None} /\ st[q].run \in Works \cup {None}
        BY StateIs DEF Core, Works
      <4>3. QED
        BY <1>8, <1>9, <4>1, <4>2 DEF Core, RunnersOK, RunnerOK
    <3>3. QED
      BY <3>1, <3>2
  <2>2. QED
    BY <2>1 DEF RunnersOK
<1>13. WorksOK'
  <2>1. ASSUME NEW v \in Works PROVE WorkOK(v)'
    BY <1>8 DEF Core, WorksOK, WorkOK
  <2>2. ASSUME NEW v \in Works PROVE KnownOK(v)'
    <3>1. phase'[v] \in {"forked", "starting", "running"} /\ ~Taken(v)' => home[v] # r
      BY <1>8, <1>9 DEF Core, WorksOK, KnownOK
    <3>2. phase[v] # "ended" => home[v] \in Runners
      BY DEF Core, WorksOK, WorkOK
    <3>3. QED
      BY <1>3, <1>8, <1>9, <3>1, <3>2 DEF Core, WorksOK, KnownOK, SameRunners
  <2>3. QED
    BY <2>1, <2>2 DEF WorksOK
<1>14. BusyOK'
  <2>1. CASE st[r] = Idle /\ pc'[x] = Out /\ phase' = phase
    <3>1. \A q \in Runners : st'[q] = st[q]
      BY <1>3, <2>1 DEF SameRunners
    <3>2. \A y \in Cancellers \ {x} : pc'[y] = pc[y]
      BY <1>6 DEF SamePlaces, Requests
    <3>3. QED
      BY <2>1, <3>1, <3>2 DEF Core, BusyOK, SomebodyWillIdle
  <2>2. CASE pc'[x].at \in {"kill", "ready"}
    BY <2>2 DEF BusyOK, SomebodyWillIdle
  <2>3. QED
    BY <1>6, <2>1, <2>2
<1>15. WaitersOK'
  <2>1. ASSUME NEW d \in Callers, pc'[d].at = "await"
        PROVE  LET v == pc'[d].work IN
               \/ v \in done'
               \/ phase'[v] \in {"forked", "running", "unwinding", "exited", "idling"}
               \/ phase'[v] = "queued" /\ st'[home'[v]].run = v
               \/ \E y \in Cancellers : pc'[y].run = v
    <3> DEFINE v == pc[d].work
    <3>1. pc'[d] = pc[d]
      BY <1>6, NamesAssumption DEF SamePlaces, Requests
    <3>2. v \in Runs /\ v \in Works /\ v # None
      BY <2>1, <3>1, NamesAssumption DEF Core, RequestsOK, CallerOK, Out, Works
    <3>3. phase[v] = "queued" => home[v] \in Runners
      BY <3>2 DEF Core, WorksOK, WorkOK
    <3>4. phase[v] = "queued" /\ st[home[v]].run = v =>
              st'[home[v]].run = v \/ pc'[x].run = v
      BY <1>3, <1>4, <1>6, <3>2, <3>3 DEF SameRunners
    <3>5. \A y \in Cancellers : pc[y].run = v => pc'[y].run = v
      BY <1>2, <1>6, <3>2 DEF SamePlaces, Requests
    <3>6. QED
      BY <1>8, <2>1, <3>1, <3>2, <3>4, <3>5 DEF Core, WaitersOK
  <2>2. QED
    BY <2>1 DEF WaitersOK
<1>16. \A v \in Runs : StartsFairly(v)
  BY <1>8 DEF StartsFairly, Works
<1>17. QED
  BY <1>3, <1>6, <1>10, <1>11, <1>12, <1>13, <1>14, <1>15, <1>16 DEF Core

\* The latch is open: the shell is interrupted, which the abort has taken already.
LEMMA StopShellKeeps ==
    ASSUME Core, NEW x \in Cancellers, StopShell(x)
    PROVE  Core' /\ SamePlaces({x}) /\ UNCHANGED <<st, line>> /\ \A v \in Runs : StartsFairly(v)
<1> DEFINE s == pc[x].work
<1>1. /\ phase \in [Works -> Phases] /\ pc \in [Requests -> Stage] /\ x \in Requests
  BY DEF Core, CoreType, Requests
<1>2. pc[x].at = "ready" /\ s \in Shells /\ s \in Works /\ pc[x].runner \in Runners
  BY DEF StopShell, Core, RequestsOK, AborterOK, Works
<1>3. Interrupt(s) /\ pc' = [pc EXCEPT ![x].at = "kill"]
        /\ UNCHANGED <<runners, st, line, home, done, status>>
  BY DEF StopShell
<1>4. pc' \in [Requests -> Stage]
  BY <1>1, <1>3 DEF Stage, Stages
<1>5. /\ SamePlaces({x}) /\ pc'[x].at = "kill" /\ pc'[x].work = s
      /\ pc'[x].run = pc[x].run /\ pc'[x].runner = pc[x].runner
  BY <1>1, <1>3 DEF SamePlaces, Stage
<1>6. /\ phase' \in [Works -> Phases]
      /\ \A v \in Works \ {s} : phase'[v] = phase[v]
      /\ phase[s] = "running" => phase'[s] = "unwinding"
      /\ phase[s] # "running" => phase'[s] = phase[s]
  BY <1>2, <1>3, InterruptIs DEF StopShell
<1>7. Taken(s) /\ \A v : Taken(v)' <=> Taken(v)
  <2>1. \A y \in Cancellers : pc'[y].work = pc[y].work /\ pc'[y].run = pc[y].run
    BY <1>5 DEF SamePlaces, Requests
  <2>2. QED
    BY <2>1 DEF Taken
<1>8. \A q \in Runners : st[q].shell # s /\ st[q].run # s
  BY <1>2, <1>7, NamesAssumption DEF Core, RunnersOK, RunnerOK
<1>9. CoreType'
  BY <1>3, <1>4, <1>6 DEF Core, CoreType
<1>10. RequestsOK'
  <2>1. AborterOK(x)'
    BY <1>2, <1>5 DEF AborterOK
  <2>2. QED
    BY <1>5, <2>1, NamesAssumption
    DEF Core, RequestsOK, CallerOK, AborterOK, SamePlaces, Requests
<1>11. RunnersOK'
  <2>1. ASSUME NEW q \in Runners PROVE RunnerOK(q)'
    BY <1>3, <1>6, <1>7, <1>8, StateIs DEF Core, RunnersOK, RunnerOK, Works
  <2>2. QED
    BY <2>1 DEF RunnersOK
<1>12. WorksOK'
  BY <1>2, <1>3, <1>6, <1>7 DEF Core, WorksOK, WorkOK, KnownOK
<1>13. BusyOK'
  BY <1>5 DEF BusyOK, SomebodyWillIdle
<1>14. WaitersOK'
  <2>1. \A d \in Callers : pc'[d] = pc[d]
    BY <1>5, NamesAssumption DEF SamePlaces, Requests
  <2>2. \A d \in Callers : pc[d].at = "await" => pc[d].work \in Works \ {s}
    BY <1>2, NamesAssumption DEF Core, RequestsOK, CallerOK, Out, Works
  <2>3. \A y \in Cancellers : pc'[y].run = pc[y].run
    BY <1>5 DEF SamePlaces, Requests
  <2>4. QED
    BY <1>3, <1>6, <2>1, <2>2, <2>3 DEF Core, WaitersOK
<1>15. \A v \in Runs : StartsFairly(v)
  BY <1>2, <1>6, NamesAssumption DEF StartsFairly, Works
<1>16. QED
  BY <1>3, <1>5, <1>9, <1>10, <1>11, <1>12, <1>13, <1>14, <1>15 DEF Core

\* The fiber has ended: the callers of the run that was withdrawn are let go.
LEMMA KilledKeeps ==
    ASSUME Core, NEW x \in Cancellers, Killed(x)
    PROVE  Core' /\ SamePlaces({x}) /\ st' = st /\ \A v \in Runs : StartsFairly(v)
<1> DEFINE w == pc[x].run
           r == pc[x].runner
<1>1. /\ phase \in [Works -> Phases] /\ home \in [Works -> Runners \cup {None}]
      /\ pc \in [Requests -> Stage] /\ x \in Requests
  BY DEF Core, CoreType, Requests
<1>2. /\ pc[x].at = "kill" /\ r \in Runners /\ pc[x].work \in Works
      /\ phase[pc[x].work] \in {"ended", "lost"} /\ UNCHANGED <<st, status>>
  BY DEF Killed, Core, RequestsOK, AborterOK
<1>3. w \in Runs \cup {None}
  BY <1>1 DEF Stage
<1>4. FailDone(x)
  BY DEF Killed
<1>5. /\ \A v \in Works : v # w => phase'[v] = phase[v] /\ home'[v] = home[v]
      /\ w \in Works => phase'[w] = "ended" /\ home'[w] = None
      /\ done' = done \cup ({w} \cap Runs)
      /\ phase' \in [Works -> Phases] /\ home' \in [Works -> Runners \cup {None}]
  BY <1>1, <1>4 DEF FailDone, Phases
<1>6. /\ SamePlaces({x}) /\ pc' \in [Requests -> Stage]
      /\ \/ pc'[x] = AtRunner("settled", r)
         \/ pc'[x] = [Out EXCEPT !.at = "idle"]
         \/ pc'[x] = Out /\ st[r] # Idle
  <2>1. CASE Wait(x, "settled", r)
    BY <1>1, <1>2, <2>1, PlaceIs DEF Wait, SamePlaces, Stages
  <2>2. CASE IdleIfCurrent(x, r) /\ st[r] = Idle
    BY <1>1, <2>2 DEF IdleIfCurrent, SamePlaces, Out, Stage, Stages
  <2>3. CASE IdleIfCurrent(x, r) /\ st[r] # Idle
    BY <1>1, <2>3 DEF IdleIfCurrent, SamePlaces, Out, Stage, Stages
  <2>4. QED
    BY <2>1, <2>2, <2>3 DEF Killed
<1>7. /\ pc'[x].work = None /\ pc'[x].run = None
      /\ pc'[x].at \in {"settled", "idle"} \/ (pc'[x].at = "out" /\ st[r] # Idle)
      /\ pc'[x].at = "settled" => pc'[x].runner \in Runners
      /\ pc'[x].at # "stop"
  BY <1>2, <1>6, PlaceIs DEF Out
<1>8. \A v \in Works : Taken(v) <=> Taken(v)' \/ v \in {pc[x].work, w}
  <2>1. \A v \in Works : v # None
    BY NamesAssumption DEF Works
  <2>2. \A y \in Cancellers \ {x} : pc'[y] = pc[y]
    BY <1>6 DEF SamePlaces, Requests
  <2>3. QED
    BY <1>7, <2>1, <2>2 DEF Taken
<1>9. CoreType'
  BY <1>2, <1>5, <1>6 DEF Core, CoreType
<1>10. RequestsOK'
  <2>1. AborterOK(x)'
    BY <1>7 DEF AborterOK
  <2>2. QED
    BY <1>6, <2>1, NamesAssumption
    DEF Core, RequestsOK, CallerOK, AborterOK, SamePlaces, Requests
<1>11. RunnersOK'
  <2>1. ASSUME NEW q \in Runners PROVE RunnerOK(q)'
    <3>1. /\ st[q].shell # None => st[q].shell \in Works /\ st[q].shell # w
          /\ st[q].run # None => st[q].run \in Works /\ st[q].run # w
      BY <1>8, StateIs DEF Core, RunnersOK, RunnerOK, Works
    <3>2. QED
      BY <1>2, <1>5, <1>8, <3>1 DEF Core, RunnersOK, RunnerOK
  <2>2. QED
    BY <2>1 DEF RunnersOK
<1>12. WorksOK'
  <2>1. ASSUME NEW v \in Works PROVE WorkOK(v)'
    BY <1>5 DEF Core, WorksOK, WorkOK
  <2>2. ASSUME NEW v \in Works PROVE KnownOK(v)'
    BY <1>2, <1>5, <1>8 DEF Core, WorksOK, KnownOK
  <2>3. QED
    BY <2>1, <2>2 DEF WorksOK
<1>13. BusyOK'
  BY <1>2, <1>7, StateIs DEF BusyOK, SomebodyWillIdle, Core
<1>14. WaitersOK'
  <2>1. ASSUME NEW d \in Callers, pc'[d].at = "await"
        PROVE  LET v == pc'[d].work IN
               \/ v \in done'
               \/ phase'[v] \in {"forked", "running", "unwinding", "exited", "idling"}
               \/ phase'[v] = "queued" /\ st'[home'[v]].run = v
               \/ \E y \in Cancellers : pc'[y].run = v
    <3> DEFINE v == pc[d].work
    <3>1. pc'[d] = pc[d]
      BY <1>6, NamesAssumption DEF SamePlaces, Requests
    <3>2. v \in Runs /\ v \in Works
      BY <2>1, <3>1 DEF Core, RequestsOK, CallerOK, Out, Works
    <3>3. CASE v = w
      BY <1>5, <3>1, <3>2, <3>3
    <3>4. CASE v # w
      <4>1. \A y \in Cancellers : pc[y].run = v => pc'[y].run = v
        BY <1>6, <3>4 DEF SamePlaces, Requests
      <4>2. QED
        BY <1>2, <1>5, <2>1, <3>1, <3>2, <3>4, <4>1 DEF Core, WaitersOK
    <3>5. QED
      BY <3>3, <3>4
  <2>2. QED
    BY <2>1 DEF WaitersOK
<1>15. \A v \in Runs : StartsFairly(v)
  <2>1. ASSUME NEW v \in Runs PROVE StartsFairly(v)
    BY <1>5, <2>1 DEF StartsFairly, Works
  <2>2. QED
    BY <2>1
<1>16. QED
  BY <1>2, <1>6, <1>9, <1>10, <1>11, <1>12, <1>13, <1>14, <1>15 DEF Core

-----------------------------------------------------------------------------
(* The permit.                                                             *)
LineType ==
    /\ runners \in Runners \cup {None}
    /\ line \in [Runners -> Seq(Requests \cup Works)]

LEMMA TypeSplit == TypeOK <=> LineType /\ CoreType
BY DEF TypeOK, LineType, CoreType

\* A nonempty set of positions of a sequence has a first one.
LEMMA LeastPosition ==
    ASSUME NEW n \in Nat, NEW S \in SUBSET (1 .. n), S # {}
    PROVE  Min(S) \in S /\ \A j \in S : Min(S) <= j
<1>1. S \subseteq Nat
  OBVIOUS
<1>2. PICK i \in S : \A j \in S : ~(<<j, i>> \in OpToRel(<, Nat))
  BY <1>1, WFMin, NatLessThanWellFounded
<1>3. ASSUME NEW j \in S PROVE i <= j
  <2>1. i \in Nat /\ j \in Nat
    BY <1>1
  <2>2. ~(j < i)
    BY <1>2, <2>1 DEF OpToRel
  <2>3. QED
    BY <2>1, <2>2
<1>4. QED
  BY <1>3 DEF Min

\* Who leaves a line takes nobody's turn.
LEMMA RemoveFirstKeepsHead ==
    ASSUME NEW S, NEW s \in Seq(S), NEW e
    PROVE  /\ RemoveFirst(s, e) \in Seq(S)
           /\ s # <<>> /\ Head(s) # e => /\ RemoveFirst(s, e) # <<>>
                                         /\ Head(RemoveFirst(s, e)) = Head(s)
<1> DEFINE I == {i \in 1 .. Len(s) : s[i] = e}
           k == Min(I)
<1>1. CASE I = {}
  BY <1>1 DEF RemoveFirst
<1>2. CASE I # {}
  <2>1. k \in 1 .. Len(s) /\ s[k] = e /\ Len(s) \in Nat
    <3>1. Len(s) \in Nat /\ I \in SUBSET (1 .. Len(s))
      BY LenProperties
    <3>2. k \in I
      BY <1>2, <3>1, LeastPosition
    <3>3. QED
      BY <3>1, <3>2
  <2>2. RemoveFirst(s, e) = SubSeq(s, 1, k - 1) \o SubSeq(s, k + 1, Len(s))
    BY <1>2 DEF RemoveFirst, SelectInSeq, RemoveAt
  <2> HIDE DEF k, I
  <2>3. SubSeq(s, 1, k - 1) \in Seq(S) /\ SubSeq(s, k + 1, Len(s)) \in Seq(S)
    BY <2>1, SubSeqProperties, ElementOfSeq
  <2>4. RemoveFirst(s, e) \in Seq(S)
    BY <2>2, <2>3, ConcatProperties
  <2>5. ASSUME s # <<>>, Head(s) # e
        PROVE  RemoveFirst(s, e) # <<>> /\ Head(RemoveFirst(s, e)) = Head(s)
    <3>1. k # 1 /\ 1 \in 1 .. k - 1
      BY <2>1, <2>5, HeadTailProperties
    <3>2. Len(SubSeq(s, 1, k - 1)) = k - 1 /\ SubSeq(s, 1, k - 1)[1] = s[1]
      BY <2>1, <3>1, SubSeqProperties
    <3>3. /\ Len(RemoveFirst(s, e)) = (k - 1) + Len(SubSeq(s, k + 1, Len(s)))
          /\ RemoveFirst(s, e)[1] = s[1]
      BY <2>2, <2>3, <3>1, <3>2, ConcatProperties
    <3>4. Len(SubSeq(s, k + 1, Len(s))) \in Nat
      BY <2>3, LenProperties
    <3>5. Len(RemoveFirst(s, e)) > 0
      BY <2>1, <3>1, <3>3, <3>4
    <3>6. RemoveFirst(s, e) # <<>>
      BY <3>5
    <3>7. QED
      BY <3>3, <3>6
  <2>6. QED
    BY <2>4, <2>5
<1>3. QED
  BY <1>1, <1>2

LEMMA LineMoves ==
    ASSUME LineType, NEW r \in Runners, NEW p \in Requests \cup Works
    PROVE  /\ Join(p, r) => /\ line' \in [Runners -> Seq(Requests \cup Works)]
                            /\ \A q \in Runners \ {r} : line'[q] = line[q]
                            /\ line[r] # <<>> /\ line'[r] # <<>>
                            /\ Head(line'[r]) = Head(line[r])
           /\ Turn(p, r) /\ Release(r) => /\ line' \in [Runners -> Seq(Requests \cup Works)]
                                          /\ \A q \in Runners \ {r} : line'[q] = line[q]
<1>1. line \in [Runners -> Seq(Requests \cup Works)] /\ line[r] \in Seq(Requests \cup Works)
  BY DEF LineType
<1>2. ASSUME line[r] # <<>>
      PROVE  /\ Tail(line[r]) \in Seq(Requests \cup Works)
             /\ Append(line[r], p) \in Seq(Requests \cup Works)
             /\ Append(line[r], p) # <<>> /\ Head(Append(line[r], p)) = Head(line[r])
  BY <1>1, <1>2, AppendProperties, HeadTailProperties, HeadTailAppend
<1>3. QED
  BY <1>1, <1>2 DEF Join, Turn, Release, Free

\* Nobody begins to publish the busy status, or gives up the permit doing so.
NoNewBusy == \A c \in Callers : pc'[c].at = "busy" => pc'[c] = pc[c]

\* A step at one runner by somebody who finds the permit free or has his turn.
LEMMA PermitStays ==
    ASSUME RequestsOK, LineType, PermitOK, NEW r \in Runners, NoNewBusy, SameRunners({r}),
           NEW p \in Requests \cup Works,
           p \in Callers => pc'[p].at # "busy",
           \/ Free(r) /\ UNCHANGED line
           \/ Turn(p, r) /\ Release(r)
    PROVE  PermitOK' /\ line' \in [Runners -> Seq(Requests \cup Works)]
<1>1. ASSUME NEW c \in Callers, pc'[c].at = "busy"
      PROVE  /\ pc'[c].runner \in Runners \ {r}
             /\ line'[pc'[c].runner] = line[pc'[c].runner]
             /\ st'[pc'[c].runner] = st[pc'[c].runner]
             /\ pc'[c] = pc[c]
  <2>1. pc'[c] = pc[c] /\ c # p
    BY <1>1 DEF NoNewBusy
  <2>2. pc[c].runner \in Runners /\ line[pc[c].runner] # <<>> /\ Head(line[pc[c].runner]) = c
    BY <1>1, <2>1 DEF RequestsOK, CallerOK, Out, PermitOK
  <2>3. pc[c].runner # r
    BY <2>1, <2>2 DEF Free, Turn
  <2>4. line'[pc[c].runner] = line[pc[c].runner]
    BY <2>2, <2>3, LineMoves
  <2>5. QED
    BY <2>1, <2>2, <2>3, <2>4 DEF SameRunners
<1>2. line' \in [Runners -> Seq(Requests \cup Works)]
  BY LineMoves DEF LineType
<1>3. QED
  BY <1>1, <1>2 DEF PermitOK

\* A step that leaves the states alone, of somebody who joins a line or none.
LEMMA PermitWaits ==
    ASSUME RequestsOK, LineType, PermitOK, NoNewBusy, st' = st,
           line' = line \/ \E r \in Runners, p \in Requests \cup Works : Join(p, r)
    PROVE  PermitOK' /\ line' \in [Runners -> Seq(Requests \cup Works)]
<1>1. /\ line' \in [Runners -> Seq(Requests \cup Works)]
      /\ \A q \in Runners : line[q] # <<>> => line'[q] # <<>> /\ Head(line'[q]) = Head(line[q])
  <2>1. CASE line' = line
    BY <2>1 DEF LineType
  <2>2. ASSUME NEW r \in Runners, NEW p \in Requests \cup Works, Join(p, r)
        PROVE  /\ line' \in [Runners -> Seq(Requests \cup Works)]
               /\ \A q \in Runners : line[q] # <<>> =>
                      line'[q] # <<>> /\ Head(line'[q]) = Head(line[q])
    <3>1. /\ line' \in [Runners -> Seq(Requests \cup Works)]
          /\ \A q \in Runners \ {r} : line'[q] = line[q]
          /\ line'[r] # <<>> /\ Head(line'[r]) = Head(line[r])
      BY <2>2, LineMoves
    <3>2. QED
      BY <3>1
  <2>3. QED
    BY <2>1, <2>2
<1>2. ASSUME NEW c \in Callers, pc'[c].at = "busy"
      PROVE  /\ line'[pc'[c].runner] # <<>>
             /\ Head(line'[pc'[c].runner]) = c
             /\ st'[pc'[c].runner].shell = None /\ st'[pc'[c].runner].run = None
  <2>1. pc'[c] = pc[c]
    BY <1>2 DEF NoNewBusy
  <2>2. pc[c].runner \in Runners
    BY <1>2, <2>1 DEF RequestsOK, CallerOK, Out
  <2>3. QED
    BY <1>1, <1>2, <2>1, <2>2 DEF PermitOK
<1>3. QED
  BY <1>1, <1>2 DEF PermitOK

\* A caller that finds the runner idle begins to publish the busy status.
LEMMA StartShellKeeps ==
    ASSUME IInv, NEW c \in Callers, NEW r \in Runners, StartShell(c, r),
           \/ /\ Free(r)
              /\ line' = [line EXCEPT ![r] = IF st[r] = Idle THEN <<c>> ELSE <<>>]
           \/ /\ Turn(c, r)
              /\ IF st[r] = Idle THEN UNCHANGED line ELSE Release(r),
           UNCHANGED <<st, phase, home, done, status>>
    PROVE  Core' /\ PermitOK' /\ line' \in [Runners -> Seq(Requests \cup Works)]
<1> DEFINE place == IF st[r] = Idle THEN AtRunner("busy", r) ELSE Out
<1>1. Core /\ LineType /\ c \in Requests /\ line \in [Runners -> Seq(Requests \cup Works)]
  BY TypeSplit DEF IInv, Core, LineType, Requests
<1>2. pc' = [pc EXCEPT ![c] = place]
  BY DEF StartShell
<1>3. place \in Stage /\ (place = Out \/ place = AtRunner("busy", r))
  BY PlaceIs, NamesAssumption DEF Out, Stage, Stages
<1>4. Core' /\ SamePlaces({c}) /\ pc'[c] = place
  BY <1>1, <1>2, <1>3, CallerMoves
<1>5. line' \in [Runners -> Seq(Requests \cup Works)]
        /\ \A q \in Runners \ {r} : line'[q] = line[q]
  <2>1. <<c>> \in Seq(Requests \cup Works) /\ <<>> \in Seq(Requests \cup Works)
    BY <1>1
  <2>2. QED
    BY <1>1, <2>1, LineMoves
<1>6. ASSUME NEW d \in Callers, pc'[d].at = "busy"
      PROVE  /\ line'[pc'[d].runner] # <<>>
             /\ Head(line'[pc'[d].runner]) = d
             /\ st'[pc'[d].runner].shell = None /\ st'[pc'[d].runner].run = None
  <2>1. CASE d = c
    <3>1. st[r] = Idle /\ pc'[d].runner = r
      BY <1>4, <1>6, <2>1, PlaceIs DEF Out
    <3>2. line'[r] # <<>> /\ Head(line'[r]) = c
      BY <1>1, <3>1 DEF Turn, Free
    <3>3. QED
      BY <2>1, <3>1, <3>2 DEF Idle
  <2>2. CASE d # c
    <3>1. pc'[d] = pc[d] /\ pc[d].runner \in Runners
      BY <1>4, <1>6, <2>2 DEF SamePlaces, Requests, IInv, RequestsOK, CallerOK, Out
    <3>2. pc[d].runner # r
      BY <1>6, <2>2, <3>1 DEF IInv, PermitOK, Free, Turn
    <3>3. QED
      BY <1>5, <1>6, <3>1, <3>2 DEF IInv, PermitOK
  <2>3. QED
    BY <2>1, <2>2
<1>7. QED
  BY <1>4, <1>5, <1>6 DEF PermitOK

LEMMA LeaverKeepsPermit ==
    ASSUME IInv, NEW c \in Callers, Leave(c)
    PROVE  PermitOK' /\ line' \in [Runners -> Seq(Requests \cup Works)]
<1>1. Core /\ LineType /\ SamePlaces({c}) /\ pc'[c] = Out /\ st' = st
  BY TypeSplit, LeaveKeeps DEF IInv, Core
<1>2. line' = [r \in Runners |-> RemoveFirst(line[r], c)]
  BY DEF Leave
<1>3. ASSUME NEW r \in Runners
      PROVE  /\ line'[r] \in Seq(Requests \cup Works)
             /\ line[r] # <<>> /\ Head(line[r]) # c => /\ line'[r] # <<>>
                                                       /\ Head(line'[r]) = Head(line[r])
  BY <1>1, <1>2, RemoveFirstKeepsHead DEF LineType
<1>4. ASSUME NEW d \in Callers, pc'[d].at = "busy"
      PROVE  /\ line'[pc'[d].runner] # <<>>
             /\ Head(line'[pc'[d].runner]) = d
             /\ st'[pc'[d].runner].shell = None /\ st'[pc'[d].runner].run = None
  <2>1. d # c /\ pc'[d] = pc[d]
    BY <1>1, <1>4 DEF SamePlaces, Requests, Out
  <2>2. pc[d].runner \in Runners
    BY <1>4, <2>1 DEF IInv, RequestsOK, CallerOK, Out
  <2>3. QED
    BY <1>1, <1>3, <1>4, <2>1, <2>2 DEF IInv, PermitOK
<1>5. QED
  BY <1>2, <1>3, <1>4 DEF PermitOK

-----------------------------------------------------------------------------
(* The steps.  Each keeps the invariant and starts queued runs fairly.     *)
StepOK == IInv' /\ \A v \in Runs : StartsFairly(v)

LEMMA InvSplit == IInv <=> Core /\ LineType /\ PermitOK
BY TypeSplit DEF IInv, Core

LEMMA InvNext ==
    ASSUME Core', PermitOK', runners' \in Runners \cup {None},
           line' \in [Runners -> Seq(Requests \cup Works)]
    PROVE  IInv'
BY DEF IInv, Core, CoreType, TypeOK

\* Steps that leave the phases alone.
LEMMA NothingStarts ==
    ASSUME phase' = phase
    PROVE  \A v \in Runs : StartsFairly(v)
BY DEF StartsFairly

LEMMA EnsureStep ==
    ASSUME IInv, NEW c \in Callers, NEW r \in Runners, EnsureRunning(c, r), UNCHANGED status,
           runners' \in Runners \cup {None},
           \/ Free(r) /\ UNCHANGED line
           \/ Turn(c, r) /\ Release(r)
    PROVE  StepOK
<1>1. Core /\ LineType /\ PermitOK /\ RequestsOK /\ c \in Requests \cup Works
  BY InvSplit DEF IInv, Requests
<1>2. Core' /\ SamePlaces({c}) /\ pc'[c].at = "await" /\ SameRunners({r})
        /\ \A v \in Runs : StartsFairly(v)
  <2>1. CASE JoinRun(c, r)
    BY <1>1, <2>1, JoinRunKeeps, NothingStarts DEF JoinRun
  <2>2. CASE MakeRun(c, r)
    BY <1>1, <2>2, MakeRunKeeps
  <2>3. QED
    BY <2>1, <2>2 DEF EnsureRunning
<1>3. NoNewBusy
  BY <1>2 DEF NoNewBusy, SamePlaces, Requests
<1>4. PermitOK' /\ line' \in [Runners -> Seq(Requests \cup Works)]
  BY <1>1, <1>2, <1>3, PermitStays
<1>5. QED
  BY <1>2, <1>4, InvNext DEF StepOK, LineType

\* A request that goes elsewhere and waits for its turn, or for nothing.
LEMMA WaitStep ==
    ASSUME IInv, NEW c \in Callers, NEW place \in Stage, pc' = [pc EXCEPT ![c] = place],
           place = Out \/ \E at \in {"ensure", "shell"}, r \in Runners : place = AtRunner(at, r),
           line' = line \/ \E r \in Runners : Join(c, r),
           runners' \in Runners \cup {None},
           UNCHANGED <<st, phase, home, done, status>>
    PROVE  StepOK
<1>1. Core /\ LineType /\ PermitOK /\ RequestsOK /\ c \in Requests \cup Works
  BY InvSplit DEF IInv, Requests
<1>2. Core' /\ SamePlaces({c}) /\ pc'[c] = place
  BY <1>1, CallerMoves
<1>3. place.at # "busy"
  BY PlaceIs DEF Out
<1>4. NoNewBusy
  BY <1>2, <1>3 DEF NoNewBusy, SamePlaces, Requests
<1>5. PermitOK' /\ line' \in [Runners -> Seq(Requests \cup Works)]
  BY <1>1, <1>4, PermitWaits
<1>6. QED
  BY <1>2, <1>5, InvNext, NothingStarts DEF StepOK, LineType

LEMMA CallerStep ==
    ASSUME IInv, NEW c \in Callers, Loop(c) \/ Shell(c) \/ CallGoesOn(c) \/ Leave(c)
    PROVE  StepOK
<1>1. Core /\ LineType /\ PermitOK /\ RequestsOK /\ c \in Requests /\ CallerOK(c)
  BY InvSplit DEF IInv, Requests, RequestsOK
<1>2. /\ AtRunner("ensure", None).at = "ensure"
      /\ \A r \in Runners : AtRunner("ensure", r) \in Stage /\ AtRunner("shell", r) \in Stage
      /\ Out \in Stage
  BY PlaceIs DEF Out, Stage, Stages
<1>3. CASE Loop(c)
  <2>1. PICK r \in Runners :
            /\ Runner(r)
            /\ \/ Free(r) /\ EnsureRunning(c, r) /\ UNCHANGED line
               \/ Wait(c, "ensure", r) /\ UNCHANGED <<st, phase, home, done>>
    BY <1>3 DEF Loop
  <2>2. runners' \in Runners \cup {None} /\ UNCHANGED status
    BY <1>3, <2>1 DEF Loop, Runner
  <2>3. CASE Free(r) /\ EnsureRunning(c, r) /\ UNCHANGED line
    BY <2>2, <2>3, EnsureStep
  <2>4. CASE Wait(c, "ensure", r) /\ UNCHANGED <<st, phase, home, done>>
    BY <1>2, <2>2, <2>4, WaitStep DEF Wait
  <2>5. QED
    BY <2>1, <2>3, <2>4
<1>4. CASE LoopGoesOn(c)
  <2>1. pc[c].runner \in Runners
    BY <1>1, <1>4 DEF LoopGoesOn, CallerOK, Out
  <2>2. QED
    BY <1>1, <1>4, <2>1, EnsureStep DEF LoopGoesOn, LineType
<1>5. CASE Shell(c)
  <2>1. PICK r \in Runners :
            /\ Runner(r)
            /\ \/ /\ Free(r)
                  /\ StartShell(c, r)
                  /\ line' = [line EXCEPT ![r] = IF st[r] = Idle THEN <<c>> ELSE <<>>]
               \/ Wait(c, "shell", r)
    BY <1>5 DEF Shell
  <2>2. runners' \in Runners \cup {None} /\ UNCHANGED <<st, phase, home, done, status>>
    BY <1>5, <2>1 DEF Shell, Runner
  <2>3. CASE /\ Free(r)
             /\ StartShell(c, r)
             /\ line' = [line EXCEPT ![r] = IF st[r] = Idle THEN <<c>> ELSE <<>>]
    BY <2>2, <2>3, StartShellKeeps, InvNext, NothingStarts DEF StepOK, LineType
  <2>4. CASE Wait(c, "shell", r)
    BY <1>2, <2>2, <2>4, WaitStep DEF Wait
  <2>5. QED
    BY <2>1, <2>3, <2>4
<1>6. CASE ShellGoesOn(c)
  <2>1. pc[c].runner \in Runners
    BY <1>1, <1>6 DEF ShellGoesOn, CallerOK, Out
  <2>2. QED
    BY <1>1, <1>6, <2>1, StartShellKeeps, InvNext, NothingStarts
    DEF ShellGoesOn, StepOK, LineType
<1>7. CASE ForkShell(c)
  <2>1. /\ Core' /\ SamePlaces({c}) /\ pc'[c].at = "watch" /\ SameRunners({pc[c].runner})
        /\ \A v \in Runs : StartsFairly(v)
    BY <1>1, <1>7, ForkShellKeeps
  <2>2. pc[c].runner \in Runners /\ Turn(c, pc[c].runner) /\ Release(pc[c].runner)
    BY <1>1, <1>7 DEF ForkShell, CallerOK, Out, PermitOK, Turn, Free
  <2>3. NoNewBusy
    BY <2>1 DEF NoNewBusy, SamePlaces, Requests
  <2>4. PermitOK' /\ line' \in [Runners -> Seq(Requests \cup Works)]
    BY <1>1, <2>1, <2>2, <2>3, PermitStays
  <2>5. runners' = runners
    BY <1>7 DEF ForkShell
  <2>6. QED
    BY <1>1, <2>1, <2>4, <2>5, InvNext DEF StepOK, LineType
<1>8. CASE Return(c)
  BY <1>1, <1>2, <1>8, WaitStep DEF Return, LineType
<1>9. CASE Leave(c)
  <2>1. Core' /\ \A v \in Runs : StartsFairly(v)
    BY <1>1, <1>9, LeaveKeeps
  <2>2. PermitOK' /\ line' \in [Runners -> Seq(Requests \cup Works)]
    BY <1>9, LeaverKeepsPermit
  <2>3. QED
    BY <1>1, <1>9, <2>1, <2>2, InvNext DEF StepOK, LineType, Leave
<1>10. QED
  BY <1>3, <1>4, <1>5, <1>6, <1>7, <1>8, <1>9 DEF CallGoesOn

\* A fiber's steps move no request.
LEMMA FiberStep ==
    ASSUME IInv, NEW w \in Works, NEW r \in Runners, Core', SameRunners({r}), pc' = pc,
           runners' \in Runners \cup {None}, \A v \in Runs : StartsFairly(v),
           \/ Free(r) /\ UNCHANGED line
           \/ Turn(w, r) /\ Release(r)
           \/ Join(w, r) /\ st' = st
           \/ UNCHANGED <<line, st>>
    PROVE  StepOK
<1>1. LineType /\ PermitOK /\ RequestsOK /\ w \in Requests \cup Works
  BY InvSplit DEF IInv
<1>2. NoNewBusy /\ w \notin Callers
  BY NamesAssumption DEF NoNewBusy, Works
<1>3. PermitOK' /\ line' \in [Runners -> Seq(Requests \cup Works)]
  <2>1. CASE Free(r) /\ UNCHANGED line
    BY <1>1, <1>2, <2>1, PermitStays
  <2>2. CASE Turn(w, r) /\ Release(r)
    BY <1>1, <1>2, <2>2, PermitStays
  <2>3. CASE Join(w, r) /\ st' = st
    BY <1>1, <1>2, <2>3, PermitWaits
  <2>4. CASE UNCHANGED <<line, st>>
    BY <1>1, <1>2, <2>4, PermitWaits
  <2>5. QED
    BY <2>1, <2>2, <2>3, <2>4
<1>4. QED
  BY <1>3, InvNext DEF StepOK

LEMMA ExitStep ==
    ASSUME IInv, NEW w \in Works, phase[w] \in Finishing \ {"exited"}, Exit(w)
    PROVE  StepOK
<1>1. Core /\ LineType /\ home[w] \in Runners
  BY InvSplit DEF Core, WorksOK, WorkOK, Finishing
<1>2. Core' /\ SameRunners({home[w]}) /\ \A v \in Runs : StartsFairly(v)
  BY <1>1, ExitKeeps
<1>3. /\ pc' = pc
      /\ \/ Free(home[w]) /\ UNCHANGED line
         \/ Join(w, home[w]) /\ st' = st
  BY DEF Exit
<1>4. runners' \in Runners \cup {None}
  BY <1>1 DEF Exit, Finish, FinishRun, FinishShell, StartQueued, BeginIdle, LineType
<1>5. QED
  BY <1>1, <1>2, <1>3, <1>4, FiberStep

LEMMA WorkStep ==
    ASSUME IInv, NEW w \in Works,
           (w \in Runs /\ (LoopStep(w) \/ Halt(w))) \/ BodyEnds(w) \/ WorkGoesOn(w)
    PROVE  StepOK
<1>1. Core /\ LineType /\ PermitOK /\ RequestsOK /\ WorkOK(w)
  BY InvSplit DEF IInv, WorksOK
<1>2. CASE w \in Runs /\ (LoopStep(w) \/ Halt(w))
  <2>1. Core' /\ UNCHANGED <<runners, st, line, phase, pc>>
    BY <1>1, <1>2, StatusKeeps DEF LoopStep, Halt
  <2>2. NoNewBusy
    BY <2>1 DEF NoNewBusy
  <2>3. PermitOK' /\ line' \in [Runners -> Seq(Requests \cup Works)]
    BY <1>1, <2>1, <2>2, PermitWaits
  <2>4. QED
    BY <1>1, <2>1, <2>3, InvNext, NothingStarts DEF StepOK, LineType
<1>3. CASE BodyEnds(w) \/ Unwound(w)
  BY <1>3, ExitStep DEF BodyEnds, Unwound, Finishing
<1>4. CASE FinishGoesOn(w)
  <2>1. phase[w] = "exited" /\ home[w] \in Runners
    BY <1>1, <1>4 DEF FinishGoesOn, WorkOK
  <2>2. /\ Turn(w, home[w]) /\ Finish(w, home[w]) /\ Release(home[w])
        /\ UNCHANGED <<status, pc>>
    BY <1>4 DEF FinishGoesOn
  <2>3. Core' /\ SameRunners({home[w]}) /\ \A v \in Runs : StartsFairly(v)
    BY <1>1, <2>1, <2>2, FinishKeeps DEF Finishing
  <2>4. runners' \in Runners \cup {None}
    BY <1>1, <2>2 DEF Finish, FinishRun, FinishShell, StartQueued, BeginIdle, LineType
  <2>5. QED
    BY <2>1, <2>2, <2>3, <2>4, FiberStep
<1>5. CASE FinishIdle(w)
  <2>1. home[w] \in Runners
    BY <1>1, <1>5 DEF FinishIdle, WorkOK
  <2>2. Core' /\ (\A v \in Runs : StartsFairly(v)) /\ UNCHANGED <<runners, st, line, pc>>
    BY <1>1, <1>5, FinishIdleKeeps DEF FinishIdle
  <2>3. SameRunners({home[w]}) /\ runners' \in Runners \cup {None}
    BY <1>1, <2>2 DEF SameRunners, LineType
  <2>4. QED
    BY <2>1, <2>2, <2>3, FiberStep
<1>6. CASE Ready(w)
  <2>1. phase[w] \in {"starting", "closing"} /\ home[w] \in Runners
    BY <1>1, <1>6 DEF Ready, WorkOK
  <2>2. CASE Exit(w)
    BY <2>1, <2>2, ExitStep DEF Finishing
  <2>3. CASE UNCHANGED <<runners, st, line, home, done, status, pc>>
    <3>1. Core' /\ SameRunners({home[w]}) /\ \A v \in Runs : StartsFairly(v)
      BY <1>1, <1>6, ReadyKeeps
    <3>2. runners' \in Runners \cup {None}
      BY <1>1, <2>3 DEF LineType
    <3>3. QED
      BY <2>1, <2>3, <3>1, <3>2, FiberStep
  <2>4. QED
    BY <1>6, <2>2, <2>3 DEF Ready
<1>7. CASE Begin(w)
  <2>1. home[w] \in Runners /\ UNCHANGED <<runners, st, line, pc>>
    BY <1>1, <1>7 DEF Begin, WorkOK
  <2>2. Core' /\ SameRunners({home[w]}) /\ (\A v \in Runs : StartsFairly(v))
          /\ runners' \in Runners \cup {None}
    BY <1>1, <1>7, <2>1, BeginKeeps DEF LineType
  <2>3. QED
    BY <2>1, <2>2, FiberStep
<1>8. QED
  BY <1>2, <1>3, <1>4, <1>5, <1>6, <1>7 DEF WorkGoesOn

\* An abort goes on without touching the runners' states.
LEMMA AborterWaits ==
    ASSUME IInv, NEW x \in Cancellers, NEW place \in Stage, pc' = [pc EXCEPT ![x] = place],
           place.work = pc[x].work, place.run = pc[x].run, AborterOK(x)',
           UNCHANGED <<st, phase, home, done>>, runners' \in Runners \cup {None},
           \/ status' = "idle"
           \/ /\ status' = status
              /\ pc[x].at \in {"ready", "kill", "settled", "idle"} =>
                     \/ place.at \in {"ready", "kill", "settled", "idle"}
                     \/ \E r \in Runners : st[r] # Idle,
           line' = line \/ (\E r \in Runners : Join(x, r))
                        \/ \E r \in Runners : Turn(x, r) /\ Release(r)
    PROVE  StepOK
<1>1. Core /\ LineType /\ PermitOK /\ RequestsOK /\ x \in Requests \cup Works
  BY InvSplit DEF IInv, Requests
<1>2. pc \in [Requests -> Stage] /\ x \in Requests
  BY <1>1 DEF Core, CoreType, Requests
<1>3. SamePlaces({x}) /\ pc'[x] = place /\ pc' \in [Requests -> Stage]
  BY <1>2 DEF SamePlaces
<1>4. ASSUME status' = status, SomebodyWillIdle, status' # "idle" PROVE SomebodyWillIdle'
  <2>1. \A y \in Cancellers \ {x} : pc'[y] = pc[y]
    BY <1>3 DEF SamePlaces, Requests
  <2>2. CASE pc[x].at \in {"ready", "kill", "settled", "idle"}
    <3>1. ASSUME NEW r \in Runners, st[r] # Idle PROVE SomebodyWillIdle'
      BY <1>1, <3>1, StateIs DEF SomebodyWillIdle, Core
    <3>2. QED
      BY <1>3, <1>4, <2>2, <3>1 DEF SomebodyWillIdle
  <2>3. CASE pc[x].at \notin {"ready", "kill", "settled", "idle"}
    BY <1>4, <2>1, <2>3 DEF SomebodyWillIdle
  <2>4. QED
    BY <2>2, <2>3
<1>5. Core'
  BY <1>1, <1>3, <1>4, AborterMoves DEF Core, BusyOK
<1>6. NoNewBusy /\ x \notin Callers
  BY <1>3, NamesAssumption DEF NoNewBusy, SamePlaces, Requests
<1>7. PermitOK' /\ line' \in [Runners -> Seq(Requests \cup Works)]
  <2>1. CASE line' = line \/ \E r \in Runners : Join(x, r)
    BY <1>1, <1>6, <2>1, PermitWaits
  <2>2. ASSUME NEW r \in Runners, Turn(x, r), Release(r)
        PROVE  PermitOK' /\ line' \in [Runners -> Seq(Requests \cup Works)]
    BY <1>1, <1>6, <2>2, PermitStays DEF SameRunners
  <2>3. QED
    BY <2>1, <2>2
<1>8. QED
  BY <1>5, <1>7, InvNext, NothingStarts DEF StepOK

\* Its runner stopped, the abort waits for what it has taken.
LEMMA StopStep ==
    ASSUME IInv, NEW x \in Cancellers, pc[x].at \in {"jobs", "stop"}, NEW r \in Runners,
           StopRunner(x, r), UNCHANGED <<runners, home, done, status>>,
           \/ Free(r) /\ UNCHANGED line
           \/ Turn(x, r) /\ Release(r)
    PROVE  StepOK
<1>1. Core /\ LineType /\ PermitOK /\ RequestsOK /\ x \in Requests \cup Works
  BY InvSplit DEF IInv, Requests
<1>2. Core' /\ SamePlaces({x}) /\ SameRunners({r}) /\ \A v \in Runs : StartsFairly(v)
  BY <1>1, StopRunnerKeeps
<1>3. NoNewBusy /\ x \notin Callers
  BY <1>2, NamesAssumption DEF NoNewBusy, SamePlaces, Requests
<1>4. PermitOK' /\ line' \in [Runners -> Seq(Requests \cup Works)]
  BY <1>1, <1>2, <1>3, PermitStays
<1>5. QED
  BY <1>1, <1>2, <1>4, InvNext DEF StepOK, LineType

\* A step of an abort that other lemmas show to leave the states alone.
LEMMA TakingStep ==
    ASSUME IInv, NEW x \in Cancellers, Core', SamePlaces({x}), st' = st,
           runners' \in Runners \cup {None}, \A v \in Runs : StartsFairly(v),
           line' = line \/ \E r \in Runners : Join(x, r)
    PROVE  StepOK
<1>1. LineType /\ PermitOK /\ RequestsOK /\ x \in Requests \cup Works
  BY InvSplit DEF IInv, Requests
<1>2. NoNewBusy
  BY NamesAssumption DEF NoNewBusy, SamePlaces, Requests
<1>3. PermitOK' /\ line' \in [Runners -> Seq(Requests \cup Works)]
  BY <1>1, <1>2, PermitWaits
<1>4. QED
  BY <1>3, InvNext DEF StepOK

LEMMA AbortStep ==
    ASSUME IInv, NEW x \in Cancellers, Cancel(x) \/ AbortGoesOn(x)
    PROVE  StepOK
<1>1. Core /\ LineType /\ PermitOK /\ RequestsOK /\ x \in Requests /\ AborterOK(x)
  BY InvSplit DEF IInv, Requests, RequestsOK
<1>2. pc \in [Requests -> Stage] /\ pc[x] \in Stage /\ runners \in Runners \cup {None}
  BY <1>1 DEF Core, CoreType, LineType
<1>3. Out \in Stage /\ Out.work = None /\ Out.run = None /\ Out.at = "out"
  BY PlaceIs DEF Out, Stage, Stages
<1>4. \A at \in {"jobs", "idle"} :
          /\ [Out EXCEPT !.at = at] \in Stage /\ [Out EXCEPT !.at = at].at = at
          /\ [Out EXCEPT !.at = at].work = None /\ [Out EXCEPT !.at = at].run = None
  BY DEF Out, Stage, Stages
<1>5. ASSUME pc[x].at \in {"out", "jobs", "idle", "stop", "settled"}
      PROVE  pc[x].work = None /\ pc[x].run = None
  BY <1>1, <1>5 DEF AborterOK
<1>6. \A at \in {"jobs", "idle"} :
          /\ [pc[x] EXCEPT !.at = at] \in Stage /\ [pc[x] EXCEPT !.at = at].at = at
          /\ [pc[x] EXCEPT !.at = at].work = pc[x].work
          /\ [pc[x] EXCEPT !.at = at].run = pc[x].run
  BY <1>2 DEF Stage, Stages
<1>7. ASSUME NEW place \in Stage, pc' = [pc EXCEPT ![x] = place],
             place.work = None, place.run = None,
             place.at \in {"out", "jobs", "idle"} \/ (place.at \in {"stop", "settled"}
                                                      /\ place.runner \in Runners)
      PROVE  AborterOK(x)'
  BY <1>1, <1>2, <1>7 DEF AborterOK
<1>8. CASE Cancel(x)
  <2> DEFINE place == [pc[x] EXCEPT !.at = "jobs"]
  <2>1. pc' = [pc EXCEPT ![x] = place] /\ pc[x] = Out
    BY <1>2, <1>8 DEF Cancel
  <2>2. /\ place \in Stage /\ place.at = "jobs" /\ place.work = pc[x].work
        /\ place.run = pc[x].run /\ pc[x].work = None /\ pc[x].run = None
        /\ pc[x].at = "out"
    BY <1>3, <1>6, <2>1
  <2>3. UNCHANGED <<runners, st, line, phase, home, done, status>>
    BY <1>8 DEF Cancel
  <2> HIDE DEF place
  <2>4. AborterOK(x)'
    BY <1>7, <2>1, <2>2
  <2>5. QED
    BY <1>2, <2>1, <2>2, <2>3, <2>4, AborterWaits
<1>9. CASE CancelSession(x)
  <2>1. pc[x].at = "jobs" /\ pc[x].work = None /\ pc[x].run = None
          /\ UNCHANGED <<runners, home, done, status>>
    BY <1>5, <1>9 DEF CancelSession
  <2>2. CASE runners = None /\ pc' = [pc EXCEPT ![x].at = "idle"] /\ UNCHANGED <<st, line, phase>>
    <3> DEFINE place == [pc[x] EXCEPT !.at = "idle"]
    <3>1. pc' = [pc EXCEPT ![x] = place]
      BY <1>2, <2>2
    <3>2. place \in Stage /\ place.at = "idle" /\ place.work = None /\ place.run = None
      BY <1>6, <2>1
    <3> HIDE DEF place
    <3>3. AborterOK(x)'
      BY <1>7, <3>1, <3>2
    <3>4. QED
      BY <1>2, <2>1, <2>2, <3>1, <3>2, <3>3, AborterWaits
  <2>3. CASE runners # None /\ Free(runners) /\ StopRunner(x, runners) /\ UNCHANGED line
    BY <1>2, <2>1, <2>3, StopStep
  <2>4. CASE runners # None /\ Wait(x, "stop", runners) /\ UNCHANGED <<st, phase>>
    <3> DEFINE place == AtRunner("stop", runners)
    <3>1. pc' = [pc EXCEPT ![x] = place] /\ Join(x, runners) /\ runners \in Runners
      BY <1>2, <2>4 DEF Wait
    <3>2. place \in Stage /\ place.at = "stop" /\ place.runner = runners
            /\ place.work = None /\ place.run = None
      BY <3>1, PlaceIs DEF Stages
    <3> HIDE DEF place
    <3>3. AborterOK(x)'
      BY <1>7, <3>1, <3>2
    <3>4. QED
      BY <1>2, <2>1, <2>4, <3>1, <3>2, <3>3, AborterWaits
  <2>5. QED
    BY <1>9, <2>2, <2>3, <2>4 DEF CancelSession
<1>10. CASE CancelGoesOn(x)
  <2>1. pc[x].runner \in Runners /\ pc[x].at = "stop"
    BY <1>1, <1>10 DEF CancelGoesOn, AborterOK
  <2>2. QED
    BY <1>10, <2>1, StopStep DEF CancelGoesOn
<1>11. CASE StopShell(x)
  BY <1>1, <1>2, <1>11, StopShellKeeps, TakingStep DEF StopShell
<1>12. CASE Killed(x)
  <2>1. pc[x].runner \in Runners
    BY <1>1, <1>12 DEF Killed, AborterOK
  <2>2. line' = line \/ Join(x, pc[x].runner)
    BY <1>12 DEF Killed, Wait
  <2>3. runners' \in Runners \cup {None}
    BY <1>2, <1>12 DEF Killed, IdleIfCurrent
  <2>4. QED
    BY <1>1, <1>12, <2>1, <2>2, <2>3, KilledKeeps, TakingStep
<1>13. CASE IdleGoesOn(x)
  <2> DEFINE r == pc[x].runner
             place == IF st[r] = Idle THEN [Out EXCEPT !.at = "idle"] ELSE Out
  <2>1. /\ pc[x].at = "settled" /\ r \in Runners /\ pc[x].work = None /\ pc[x].run = None
        /\ Turn(x, r) /\ Release(r) /\ UNCHANGED <<st, phase, home, done, status>>
    BY <1>1, <1>5, <1>13 DEF IdleGoesOn, AborterOK
  <2>2. pc' = [pc EXCEPT ![x] = place] /\ runners' \in Runners \cup {None}
    BY <1>2, <1>13 DEF IdleGoesOn, IdleIfCurrent
  <2>3. place \in Stage /\ place.work = None /\ place.run = None
          /\ place.at \in {"out", "idle"} /\ (st[r] = Idle => place.at = "idle")
    BY <1>3, <1>4
  <2> HIDE DEF place
  <2>4. AborterOK(x)'
    BY <1>7, <2>2, <2>3
  <2>5. QED
    BY <2>1, <2>2, <2>3, <2>4, AborterWaits
<1>14. CASE CancelReturns(x)
  <2>1. /\ pc[x].at = "idle" /\ pc[x].work = None /\ pc[x].run = None /\ status' = "idle"
        /\ pc' = [pc EXCEPT ![x] = Out] /\ UNCHANGED <<runners, st, line, phase, home, done>>
    BY <1>5, <1>14 DEF CancelReturns
  <2>2. AborterOK(x)'
    BY <1>3, <1>7, <2>1
  <2>3. QED
    BY <1>2, <1>3, <2>1, <2>2, AborterWaits
<1>15. QED
  BY <1>8, <1>9, <1>10, <1>11, <1>12, <1>13, <1>14 DEF AbortGoesOn

-----------------------------------------------------------------------------
(* The theorems.                                                           *)

\* Whatever requests, fibers and aborts do, in any order, the invariant stays.
LEMMA InvStep ==
    ASSUME IInv, [Next]_vars
    PROVE  StepOK
<1>1. CASE Next
  <2>1. ASSUME NEW c \in Callers, Loop(c) \/ Shell(c) \/ CallGoesOn(c) \/ Leave(c)
        PROVE  StepOK
    BY <2>1, CallerStep
  <2>2. ASSUME NEW w \in Runs, LoopStep(w) \/ Halt(w) PROVE StepOK
    BY <2>2, WorkStep DEF Works
  <2>3. ASSUME NEW w \in Works, BodyEnds(w) \/ WorkGoesOn(w) PROVE StepOK
    BY <2>3, WorkStep
  <2>4. ASSUME NEW x \in Cancellers, Cancel(x) \/ AbortGoesOn(x) PROVE StepOK
    BY <2>4, AbortStep
  <2>5. QED
    BY <1>1, <2>1, <2>2, <2>3, <2>4 DEF Next
<1>2. CASE UNCHANGED vars
  <2>1. Core' /\ PermitOK' /\ phase' = phase /\ LineType'
    BY <1>2, InvSplit
    DEF vars, Core, CoreType, LineType, PermitOK, RequestsOK, CallerOK, AborterOK, RunnersOK,
        RunnerOK, Taken, WorksOK, WorkOK, KnownOK, BusyOK, SomebodyWillIdle, WaitersOK
  <2>2. QED
    BY <2>1, InvNext, NothingStarts DEF StepOK, LineType
<1>3. QED
  BY <1>1, <1>2

LEMMA InitInv == Init => IInv
<1> SUFFICES ASSUME Init PROVE IInv
  OBVIOUS
<1>1. TypeOK
  BY DEF Init, TypeOK, State, Idle, Phases, Out, Stage, Stages
<1>2. RequestsOK
  BY NamesAssumption DEF Init, RequestsOK, CallerOK, AborterOK, Out, Requests
<1>3. RunnersOK /\ WorksOK
  BY DEF Init, RunnersOK, RunnerOK, WorksOK, WorkOK, KnownOK, Idle
<1>4. PermitOK /\ BusyOK /\ WaitersOK
  BY DEF Init, PermitOK, BusyOK, WaitersOK, Out, Requests
<1>5. QED
  BY <1>1, <1>2, <1>3, <1>4 DEF IInv

LEMMA Invariance == Spec => []IInv
<1>1. IInv /\ [Next]_vars => IInv'
  BY InvStep DEF StepOK
<1>2. QED
  BY InitInv, <1>1, PTL DEF Spec

\* Type correctness of the run state: of the handles in a runner's state and in a
\* request's place, and of the lines for the permit.
THEOREM TypesHold == Spec => []TypeOK
<1>1. IInv => TypeOK
  BY DEF IInv
<1>2. QED
  BY Invariance, <1>1, PTL

\* The state of every runner and its fibers agree (runner.ts), for any number of
\* requests, aborts, runners and handles.
THEOREM RunnersKnowTheirWork == Spec => []RunnerKnowsItsWork
<1>1. IInv => RunnerKnowsItsWork
  <2> SUFFICES ASSUME IInv PROVE RunnerKnowsItsWork
    OBVIOUS
  <2>1. Core
    BY InvSplit
  <2>2. ASSUME NEW w \in Works, phase[w] \in {"forked", "starting", "running"} /\ ~Taken(w)
        PROVE  st[home[w]] \in IF w \in Runs THEN {[shell |-> None, run |-> w]}
                               ELSE [shell : {w}, run : Runs \cup {None}]
    <3>1. home[w] \in Runners /\ st[home[w]] \in State
      BY <2>1, <2>2 DEF Core, CoreType, WorksOK, WorkOK
    <3>2. IF w \in Runs THEN st[home[w]].run = w /\ st[home[w]].shell = None
                        ELSE st[home[w]].shell = w
      BY <2>1, <2>2 DEF Core, WorksOK, KnownOK
    <3>3. CASE w \in Runs
      <4>1. st[home[w]] = [shell |-> None, run |-> w]
        BY <3>1, <3>2, <3>3 DEF State
      <4>2. QED
        BY <3>3, <4>1
    <3>4. CASE w \notin Runs
      BY <3>1, <3>2, <3>4 DEF State
    <3>5. QED
      BY <3>3, <3>4
  <2>3. ASSUME NEW r \in Runners
        PROVE  /\ st[r].shell # None =>
                      /\ \/ phase[st[r].shell] \in {"forked", "starting", "closing", "running",
                                                   "unwinding", "exited"}
                         \/ st[r].shell \in Lost
                      /\ home[st[r].shell] = r
               /\ st[r].run # None =>
                      /\ home[st[r].run] = r
                      /\ phase[st[r].run] \in IF st[r].shell = None
                                              THEN {"forked", "running", "exited"} ELSE {"queued"}
    <3>1. RunnerOK(r) /\ st[r].shell \in Shells \cup {None} /\ phase \in [Works -> Phases]
      BY <2>1, StateIs DEF Core, CoreType, RunnersOK
    <3>2. st[r].shell # None => /\ phase[st[r].shell] \in Phases \ {"queued", "idling", "ended"}
                                /\ st[r].shell \in Shells
      BY <2>1, <3>1, NamesAssumption DEF RunnerOK, Core, WorksOK, WorkOK, Works
    <3>3. QED
      BY <3>1, <3>2 DEF RunnerOK, Phases, Lost
  <2>4. QED
    BY <2>2, <2>3 DEF RunnerKnowsItsWork
<1>2. QED
  BY Invariance, <1>1, PTL

\* Nobody waits for a run that will never be settled (ensureRunning, cancel) but those
\* whom a lost shell abandons.
THEOREM NobodyWaitsInVain == Spec => []NobodyIsLeftBehind
<1>1. IInv => NobodyIsLeftBehind
  <2> SUFFICES ASSUME IInv, NEW c \in Callers, pc[c].at = "await", ~Abandoned(pc[c].work)
               PROVE  LET w == pc[c].work IN
                      \/ w \in done
                      \/ phase[w] \in {"forked", "running", "unwinding", "exited", "idling"}
                      \/ /\ phase[w] = "queued" /\ st[home[w]].run = w
                         /\ st[home[w]].shell \notin Lost
                      \/ \E x \in Cancellers : pc[x].run = w /\ pc[x].work \notin Lost
    BY DEF NobodyIsLeftBehind
  <2>1. QED
    BY DEF IInv, WaitersOK, Abandoned
<1>2. QED
  BY Invariance, <1>1, PTL

\* A session that is quiet is shown as idle (onIdle, status.set): as long as it is
\* shown as busy a runner holds work, or a finalizer or an abort has yet to publish
\* the idle status.  Only a lost shell is work that never ends.
THEOREM QuietSessionsAreIdle == Spec => []QuietMeansIdle
<1>1. IInv => QuietMeansIdle
  <2> SUFFICES ASSUME IInv, \A p \in Requests : pc[p] = Out,
                      \A w \in Works : phase[w] \in {"ended", "lost"},
                      \A r \in Runners : st[r].shell \notin Lost, status # "idle"
               PROVE  FALSE
    BY DEF QuietMeansIdle
  <2>1. Core /\ SomebodyWillIdle
    BY InvSplit DEF Core, CoreType, BusyOK
  <2>2. \A r \in Runners : st[r].shell = None /\ st[r].run = None
    <3>1. ASSUME NEW r \in Runners PROVE st[r].shell = None /\ st[r].run = None
      <4>1. st[r].shell \in Shells \cup {None} /\ st[r].run \in Runs \cup {None} /\ RunnerOK(r)
        BY <2>1, StateIs DEF Core, RunnersOK
      <4>2. st[r].shell = None
        BY <3>1, <4>1 DEF RunnerOK, Lost, Works
      <4>3. st[r].run = None
        BY <4>1 DEF RunnerOK, Works
      <4>4. QED
        BY <4>2, <4>3
    <3>2. QED
      BY <3>1
  <2>3. \A x \in Cancellers : pc[x].at = "out"
    BY DEF Requests, Out
  <2>4. QED
    BY <2>1, <2>2, <2>3 DEF SomebodyWillIdle
<1>2. QED
  BY Invariance, <1>1, PTL

\* A queued run starts only behind a shell that has ended, and never once an abort
\* has withdrawn it (finishShell, cancel).
THEOREM WithdrawnRunsStay == Spec => WithdrawnRunsNeverStart
<1>1. IInv /\ [Next]_vars =>
          [\A w \in Runs : phase[w] = "queued" /\ phase'[w] \in {"forked", "running"} =>
               /\ ~Taken(w)
               /\ phase'[st[home[w]].shell] = "ended"]_vars
  BY InvStep DEF StepOK, StartsFairly
<1>2. QED
  BY Invariance, <1>1, PTL DEF Spec, WithdrawnRunsNeverStart

-----------------------------------------------------------------------------
(* Lost shells.                                                            *)

\* A shell is lost when its own request goes away before the shell has begun.
OnlyLeaversLoseShells ==
    [][\A s \in Shells : phase[s] # "lost" /\ phase'[s] = "lost" =>
        /\ phase[s] = "forked"
        /\ \E c \in Leavers : pc[c].at = "watch" /\ pc[c].work = s /\ pc'[c] = Out]_vars

LEMMA LosesIsLeaving ==
    ASSUME IInv, [Next]_vars, NEW s \in Shells, phase[s] # "lost", phase'[s] = "lost"
    PROVE  /\ phase[s] = "forked"
           /\ \E c \in Leavers : pc[c].at = "watch" /\ pc[c].work = s /\ pc'[c] = Out
<1>1. /\ phase \in [Works -> Phases] /\ pc \in [Requests -> Stage] /\ s \in Works /\ s \notin Runs
      /\ st \in [Runners -> State]
  BY NamesAssumption DEF IInv, TypeOK, Works
<1>2. ASSUME NEW w \in Works, NEW ph, phase' = [phase EXCEPT ![w] = ph], ph # "lost" PROVE FALSE
  BY <1>1, <1>2
<1>3. ASSUME NEW w \in Works, NEW r, Finish(w, r) PROVE FALSE
  <2>1. ASSUME StartQueued(w, r) PROVE FALSE
    BY <1>1, <2>1 DEF StartQueued
  <2>2. QED
    BY <1>1, <1>3, <2>1 DEF Finish, FinishRun, FinishShell, BeginIdle
<1>4. ASSUME NEW w \in Works, Exit(w) PROVE FALSE
  BY <1>1, <1>3, <1>4 DEF Exit
<1>5. ASSUME NEW w \in Works, BodyEnds(w) \/ WorkGoesOn(w) PROVE FALSE
  BY <1>1, <1>3, <1>4, <1>5
  DEF BodyEnds, WorkGoesOn, Begin, FinishGoesOn, FinishIdle, Unwound, Ready
<1>6. ASSUME NEW c \in Callers, Loop(c) \/ Shell(c) \/ CallGoesOn(c) PROVE FALSE
  <2>1. ASSUME NEW r, EnsureRunning(c, r) PROVE FALSE
    BY <1>1, <2>1 DEF EnsureRunning, JoinRun, MakeRun, Fork
  <2>2. QED
    BY <1>1, <1>6, <2>1
    DEF Loop, Shell, CallGoesOn, LoopGoesOn, ShellGoesOn, ForkShell, Fork, Return
<1>7. ASSUME NEW x \in Cancellers, Cancel(x) \/ AbortGoesOn(x) PROVE FALSE
  <2>1. ASSUME NEW r \in Runners, StopRunner(x, r) PROVE FALSE
    <3>1. st[r].run # s
      BY <1>1, NamesAssumption DEF State, Works
    <3>2. QED
      BY <1>1, <2>1, <3>1 DEF StopRunner, Interrupt
  <2>2. AborterOK(x) /\ runners \in Runners \cup {None}
    BY DEF IInv, RequestsOK, TypeOK
  <2>3. CASE CancelSession(x)
    BY <1>1, <2>1, <2>2, <2>3 DEF CancelSession
  <2>4. CASE CancelGoesOn(x)
    BY <1>1, <2>1, <2>2, <2>4 DEF CancelGoesOn, AborterOK
  <2>5. CASE StopShell(x)
    BY <1>1, <2>5 DEF StopShell, Interrupt, Interrupted
  <2>6. CASE Killed(x)
    BY <1>1, <2>6 DEF Killed, FailDone
  <2>7. CASE Cancel(x) \/ IdleGoesOn(x) \/ CancelReturns(x)
    BY <2>7 DEF Cancel, IdleGoesOn, CancelReturns
  <2>8. QED
    BY <1>7, <2>3, <2>4, <2>5, <2>6, <2>7 DEF AbortGoesOn
<1>8. ASSUME NEW w \in Runs, LoopStep(w) \/ Halt(w) PROVE FALSE
  BY <1>8 DEF LoopStep, Halt
<1>9. PICK c \in Callers : Leave(c)
  BY <1>5, <1>6, <1>7, <1>8 DEF Next, vars
<1>10. pc[c].at = "watch" /\ Interrupt(pc[c].work) /\ pc'[c] = Out /\ c \in Leavers
  BY <1>1, <1>9 DEF Leave, Requests
<1>11. pc[c].work = s /\ phase'[s] = Interrupted(phase[s])
  BY <1>1, <1>10 DEF Interrupt
<1>12. QED
  BY <1>1, <1>10, <1>11 DEF Interrupted

\* Nothing but the interruption of a request whose shell has not begun loses a shell
\* (startShell): no abort and no other request does.
THEOREM ShellsAreLostByTheirRequests == Spec => OnlyLeaversLoseShells
<1>1. IInv /\ [Next]_vars =>
          [\A s \in Shells : phase[s] # "lost" /\ phase'[s] = "lost" =>
               /\ phase[s] = "forked"
               /\ \E c \in Leavers : pc[c].at = "watch" /\ pc[c].work = s /\ pc'[c] = Out]_vars
  BY LosesIsLeaving
<1>2. QED
  BY Invariance, <1>1, PTL DEF Spec, OnlyLeaversLoseShells

\* Where no request is interrupted no shell is lost: the invariants then hold without
\* an exception.
THEOREM PatientRequestsLoseNothing ==
    ASSUME Leavers = {}
    PROVE  Spec => [](Lost = {})
<1>1. Init => Lost = {}
  BY DEF Init, Lost, Works
<1>2. IInv /\ Lost = {} /\ [Next]_vars => (Lost = {})'
  BY LosesIsLeaving DEF Lost
<1>3. QED
  BY Invariance, <1>1, <1>2, PTL DEF Spec

=============================================================================
