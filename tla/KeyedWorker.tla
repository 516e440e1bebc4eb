---------------------------- MODULE KeyedWorker ----------------------------
(***************************************************************************)
(* What the session coordinator promises (the Coordinator interface of     *)
(* tui/packages/core/src/session/run-coordinator.ts), without entries,     *)
(* deferreds, fibers or callers: every key has one worker that drains at   *)
(* most once at a time, remembers at most one further request while it is  *)
(* occupied, and can be stopped.                                           *)
(***************************************************************************)
CONSTANT Keys

VARIABLES phase,  \* "idle", "ready" to drain, "busy" draining or "stopping"
          again   \* one coalesced request for a further drain

vars == <<phase, again>>

TypeOK == /\ phase \in [Keys -> {"idle", "ready", "busy", "stopping"}]
          /\ again \in [Keys -> BOOLEAN]

Init == /\ phase = [k \in Keys |-> "idle"]
        /\ again = [k \in Keys |-> FALSE]

\* Somebody asks an idle worker to drain.
Start(k) == /\ phase[k] = "idle"
            /\ phase' = [phase EXCEPT ![k] = "ready"]
            /\ UNCHANGED again

\* Somebody asks an occupied worker to drain once more.
Ask(k) == /\ phase[k] # "idle"
          /\ again' = [again EXCEPT ![k] = TRUE]
          /\ UNCHANGED phase

\* The worker starts to drain.
Begin(k) == /\ phase[k] = "ready"
            /\ phase' = [phase EXCEPT ![k] = "busy"]
            /\ UNCHANGED again

\* The worker is told to stop; what was asked before is withdrawn.
Stop(k) == /\ phase[k] # "idle"
           /\ phase' = [phase EXCEPT ![k] = "stopping"]
           /\ again' = [again EXCEPT ![k] = FALSE]

\* The drain is over, well or badly or by a stop: the remembered request, if
\* any, makes the worker ready once more.
Finish(k) ==
    /\ phase[k] \in {"busy", "stopping"}
    /\ phase' = [phase EXCEPT ![k] = IF again[k] THEN "ready" ELSE "idle"]
    /\ again' = [again EXCEPT ![k] = FALSE]

Next == \E k \in Keys : Start(k) \/ Ask(k) \/ Begin(k) \/ Stop(k) \/ Finish(k)

Spec == Init /\ [][Next]_vars

=============================================================================
