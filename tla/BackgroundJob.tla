--------------------------- MODULE BackgroundJob ---------------------------
(***************************************************************************)
(* The registry of background jobs (tui/packages/core/src/                 *)
(* background-job.ts).  A map holds one job per id; a job has one run,     *)
(* which extensions lengthen, and ends when all its runs have succeeded,   *)
(* when one fails, or when it is cancelled.  A job that has ended stays in *)
(* the map until another one is started under its id, and its runs may     *)
(* still be unwinding by then: what tells them apart is the job's token.   *)
(*                                                                         *)
(* A token stands for everything one call of start() makes: the token      *)
(* object, the scope and the deferreds `done` and `promoted`.  `done` is   *)
(* resolved where the status leaves "running" and `promoted` where the job *)
(* goes to the background, each in the same step, so neither is a variable.*)
(* Every operation is one modification of the SynchronizedRef; between the *)
(* end of a run and its settlement there may be others.                    *)
(***************************************************************************)
EXTENDS Naturals, Sequences, FiniteSets

CONSTANTS Ids,    \* job ids: for the task tool, child sessions
          MaxJobs \* bound on the jobs ever started

ASSUME MaxJobsAssumption == MaxJobs \in Nat

\* Tokens are numbered in the order in which they are made.
Tokens == 1 .. MaxJobs
None == 0

VARIABLES jobs,   \* per id, the job in the map
          active, \* per token, the job
          runs    \* per token, how far each of its runs is, by sequence

registry == <<jobs, active, runs>>

Ends == {"completed", "error", "cancelled"}
Exits == {"succeeded", "failed"}

(* A run waits for the tail of the one before, runs, and exits with a      *)
(* value or a cause.  Interrupted by the closing of its scope it unwinds,  *)
(* and is then over without a settlement; if it had exited by then, its    *)
(* settlement comes late.                                                  *)
Phases == {"queued", "running", "unwinding", "late", "over"} \cup Exits

Active == [status : {"unused", "running"} \cup Ends, id : Ids \cup {None},
           pending : Nat, output : Nat, background : BOOLEAN, hook : BOOLEAN]

Unused == [status |-> "unused", id |-> None, pending |-> 0, output |-> 0,
           background |-> FALSE, hook |-> FALSE]

TypeOK ==
    /\ jobs \in [Ids -> Tokens \cup {None}]
    /\ active \in [Tokens -> Active]
    /\ runs \in [Tokens -> Seq(Phases)]

RegistryInit ==
    /\ jobs = [id \in Ids |-> None]
    /\ active = [t \in Tokens |-> Unused]
    /\ runs = [t \in Tokens |-> <<>>]

-----------------------------------------------------------------------------
Running(t) == t # None /\ active[t].status = "running"
Ended(t) == active[t].status \in Ends

\* The tail of a run is resolved when it has exited, whichever way.
TailResolved(t, s) == runs[t][s] \in Exits \cup {"late", "over"}

\* Closing the scope interrupts every fiber in it.
Closed(phase) == CASE phase = "queued"  -> "over"
                   [] phase = "running" -> "unwinding"
                   [] phase \in Exits   -> "late"
                   [] OTHER             -> phase
CloseScope(phases) == [s \in DOMAIN phases |-> Closed(phases[s])]

\* The fibers of a job whose scope is closed have all ended.
ScopeClosed(t) == \A s \in DOMAIN runs[t] : runs[t][s] = "over"

\* What becomes of a job that ends.  Its hook is dropped.
End(job, status, output) ==
    [job EXCEPT !.status = status, !.pending = 0, !.output = output, !.hook = FALSE]

-----------------------------------------------------------------------------
(* start: a job that is running is returned as it is.                      *)
Start(id, t, background, hook) ==
    /\ active[t] = Unused
    /\ \A u \in 1 .. t - 1 : active[u] # Unused
    /\ ~Running(jobs[id])
    /\ jobs' = [jobs EXCEPT ![id] = t]
    /\ active' = [active EXCEPT ![t] =
                    [status |-> "running", id |-> id, pending |-> 1, output |-> 0,
                     background |-> background, hook |-> hook]]
    /\ runs' = [runs EXCEPT ![t] = <<"running">>]

\* Mutant: the extension is not counted.
ExtendUncounted(id) ==
    LET t == jobs[id]
    IN  /\ Running(t)
        /\ runs' = [runs EXCEPT ![t] = Append(@, "queued")]
        /\ UNCHANGED <<jobs, active>>

\* extend: one more run, behind the last one.
Extend(id) ==
    LET t == jobs[id]
    IN  /\ Running(t)
        /\ active' = [active EXCEPT ![t].pending = @ + 1]
        /\ runs' = [runs EXCEPT ![t] = Append(@, "queued")]
        /\ UNCHANGED jobs

Begin(t, s) ==
    /\ s \in DOMAIN runs[t]
    /\ runs[t][s] = "queued"
    /\ TailResolved(t, s - 1)
    /\ runs' = [runs EXCEPT ![t][s] = "running"]
    /\ UNCHANGED <<jobs, active>>

Exit(t, s) ==
    /\ s \in DOMAIN runs[t]
    /\ runs[t][s] = "running"
    /\ \E exit \in Exits : runs' = [runs EXCEPT ![t][s] = exit]
    /\ UNCHANGED <<jobs, active>>

\* The status a job ends with when a run exits: a cause may be made of errors
\* or of interruptions only.
Verdicts(exit) == IF exit = "succeeded" THEN {"completed"} ELSE {"error", "cancelled"}

\* Mutant: whoever settles last has the output.
LastSettled(job, s) == s

Latest(job, s) == IF s > job.output THEN s ELSE job.output

\* The run belongs to the job in the map, and that has not ended.
Current(t) == Running(t) /\ jobs[active[t].id] = t

(* settle: the last success ends the job with the output of the latest     *)
(* run, any failure ends it at once.                                       *)
Settle(t, s) ==
    LET exit == runs[t][s]
        job == active[t]
        output == IF exit = "succeeded" THEN Latest(job, s) ELSE job.output
        over == [runs EXCEPT ![t][s] = "over"]
    IN  /\ s \in DOMAIN runs[t]
        /\ exit \in Exits
        /\ Current(t)
        /\ IF exit = "succeeded" /\ job.pending > 1
           THEN /\ active' = [active EXCEPT ![t].pending = @ - 1, ![t].output = output]
                /\ runs' = over
           ELSE /\ \E status \in Verdicts(exit) :
                     active' = [active EXCEPT ![t] = End(job, status, output)]
                /\ runs' = [over EXCEPT ![t] = CloseScope(@)]
        /\ UNCHANGED jobs

\* Mutant: a late settlement ends the job that is in the map.
SettleAny(t, s) ==
    LET u == jobs[active[t].id]
    IN  /\ s \in DOMAIN runs[t]
        /\ runs[t][s] = "late"
        /\ runs' = [runs EXCEPT ![t][s] = "over"]
        /\ active' = [active EXCEPT ![u] = End(@, "error", @.output)]
        /\ UNCHANGED jobs

\* The token tells that the job has been replaced, the status that it has ended.
SettleLate(t, s) ==
    /\ s \in DOMAIN runs[t]
    /\ runs[t][s] \in Exits \cup {"late"}
    /\ ~Current(t)
    /\ runs' = [runs EXCEPT ![t][s] = "over"]
    /\ UNCHANGED <<jobs, active>>

\* promote: a foreground job goes to the background and its hook is taken.
Promote(id) ==
    LET t == jobs[id]
    IN  /\ Running(t)
        /\ ~active[t].background
        /\ active' = [active EXCEPT ![t].background = TRUE, ![t].hook = FALSE]
        /\ UNCHANGED <<jobs, runs>>

\* cancel ends the job at once, without output; only then are its runs interrupted.
Cancel(id) ==
    LET t == jobs[id]
    IN  /\ Running(t)
        /\ active' = [active EXCEPT ![t] = End(@, "cancelled", 0)]
        /\ runs' = [runs EXCEPT ![t] = CloseScope(@)]
        /\ UNCHANGED jobs

Unwound(t, s) ==
    /\ s \in DOMAIN runs[t]
    /\ runs[t][s] = "unwinding"
    /\ runs' = [runs EXCEPT ![t][s] = "over"]
    /\ UNCHANGED <<jobs, active>>

RunStep(t, s) == Begin(t, s) \/ Exit(t, s) \/ Settle(t, s) \/ SettleLate(t, s) \/ Unwound(t, s)

RegistryNext ==
    \/ \E id \in Ids : \/ \E t \in Tokens, b, h \in BOOLEAN : Start(id, t, b, h)
                       \/ Extend(id) \/ Promote(id) \/ Cancel(id)
    \/ \E t \in Tokens : \E s \in DOMAIN runs[t] : RunStep(t, s)

Registry == RegistryInit /\ [][RegistryNext]_registry

-----------------------------------------------------------------------------
(* Properties.                                                             *)

\* `pending` of a running job is the number of its runs that have still to
\* settle, and there is one: whoever waits for `done` waits for a live fiber,
\* although runs settle in any order and extensions arrive meanwhile.
Unsettled(t) == {s \in DOMAIN runs[t] : runs[t][s] # "over"}

RunningJobsAreWorked ==
    \A t \in Tokens :
        Running(t) => /\ active[t].pending = Cardinality(Unsettled(t))
                      /\ active[t].pending > 0
                      /\ jobs[active[t].id] = t

\* The runs of a job never overlap, not even while one unwinds: a run has
\* begun only when all before it have exited.
RunsInTurn ==
    \A t \in Tokens : \A s \in DOMAIN runs[t] :
        runs[t][s] \in {"running", "unwinding"} =>
            \A r \in 1 .. s - 1 : TailResolved(t, r)

\* A job completes with the output of its last run, whichever run settled last.
CompletesWithTheLastOutput ==
    \A t \in Tokens :
        active[t].status = "completed" => active[t].output = Len(runs[t])

\* Whatever a run, a caller or a successor under the same id does: a job that
\* has ended keeps its status and output, its waiters' answer.
EndedJobsStayEnded ==
    [][\A t \in Tokens : Ended(t) => active'[t] = active[t]]_registry

=============================================================================
