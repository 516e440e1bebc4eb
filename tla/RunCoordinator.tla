--------------------------- MODULE RunCoordinator ---------------------------
(***************************************************************************)
(* The per-session execution coordinator of the V2 engine                  *)
(* (tui/packages/core/src/session/run-coordinator.ts).  For every key it   *)
(* keeps at most one Entry in the map "active"; the entry's owner fiber    *)
(* runs the drain callback, callers of run() join the entry's done         *)
(* deferred, wake() leaves one coalesced flag behind, and interrupt() asks *)
(* the owner to stop and waits for its cleanup.                            *)
(*                                                                         *)
(* JavaScript runs each synchronous stretch of code to completion, so one  *)
(* action is one such stretch: a whole call up to the point where it       *)
(* suspends, the start of a drain, its end, and the onExit handler         *)
(* (settle).  The drain itself is the environment's: it may succeed, fail  *)
(* or interrupt itself, and once stopped it may still end in any way (an   *)
(* uninterruptible region may run to its normal end).                      *)
(*                                                                         *)
(* An Entry is a garbage-collected object.  Entries is a pool of object    *)
(* identities; one is taken for a new entry while it is unused and nothing *)
(* refers to it, so no bound on the number of entries created is needed.   *)
(***************************************************************************)
EXTENDS FiniteSets

CONSTANTS Keys,     \* session identifiers
          Entries,  \* identities for Entry objects
          Callers,  \* concurrent callers of run() and interrupt()
          None      \* "undefined": no entry for a key, no key for an identity

ASSUME NoneAssumption == None \notin Entries /\ None \notin Keys

VARIABLES
    active,   \* the Map of line 28
    entry,    \* the fields of each Entry and the state of its owner fiber
    caller,   \* what each caller is suspended on
    owed      \* history: a wake was asked for and no drain has begun since

vars == <<active, entry, caller, owed>>

-----------------------------------------------------------------------------
(* An owner fiber is "forked" while it waits for the ready deferred or at  *)
(* the yieldNow of a successor, "draining" inside the callback, "exiting"  *)
(* between the end of the callback, with its "exit", and settle().  After  *)
(* settle() nothing of the entry is read any more.                         *)

Exits == {"success", "failure", "interrupt"}

Entry == [key : Keys, phase : {"forked", "draining", "exiting"},
          force : BOOLEAN, pendingWake : BOOLEAN, stopping : BOOLEAN,
          exit : Exits]

Unused == [key |-> None, phase |-> "unused", force |-> FALSE,
           pendingWake |-> FALSE, stopping |-> FALSE, exit |-> "success"]

\* makeEntry() and start(): a fresh entry whose owner was just forked.
Started(k, force) == [Unused EXCEPT !.key = k, !.phase = "forked",
                                    !.force = force]

Live(e) == entry[e] # Unused

\* A caller awaits the done deferred of an entry ("join"), awaits that of a
\* stopping entry in order to call run(key) again ("rerun"), awaits the exit
\* of an interrupted owner ("interrupt"), or has been resumed to call
\* run(key) again ("again").
Caller ==
    [pc : {"idle"}, on : {None}] \cup
    [pc : {"join", "rerun", "interrupt"}, on : Entries] \cup
    [pc : {"again"}, on : Keys]

IdleCaller == [pc |-> "idle", on |-> None]

WaitsFor(c, e) == caller[c].pc \in {"join", "rerun", "interrupt"} /\ caller[c].on = e

\* An identity nothing refers to.
Free(e) == /\ ~Live(e)
           /\ \A k \in Keys : active[k] # e
           /\ \A c \in Callers : ~WaitsFor(c, e)

TypeOK == /\ active \in [Keys -> Entries \cup {None}]
          /\ entry \in [Entries -> Entry \cup {Unused}]
          /\ caller \in [Callers -> Caller]
          /\ owed \in [Keys -> BOOLEAN]

Init == /\ active = [k \in Keys |-> None]
        /\ entry = [e \in Entries |-> Unused]
        /\ caller = [c \in Callers |-> IdleCaller]
        /\ owed = [k \in Keys |-> FALSE]

-----------------------------------------------------------------------------
(* run(key): joins the active entry; on a stopping entry it will call      *)
(* run() again after that entry is done; on an idle key it starts a forced *)
(* drain.                                                                  *)

JoinActive(c, k) ==
    /\ active[k] # None
    /\ ~entry[active[k]].stopping
    /\ caller' = [caller EXCEPT ![c] = [pc |-> "join", on |-> active[k]]]
    /\ UNCHANGED <<active, entry, owed>>

AwaitStopping(c, k) ==
    /\ active[k] # None
    /\ entry[active[k]].stopping
    /\ caller' = [caller EXCEPT ![c] = [pc |-> "rerun", on |-> active[k]]]
    /\ UNCHANGED <<active, entry, owed>>

StartForced(c, k) ==
    /\ active[k] = None
    /\ \E e \in Entries :
          /\ Free(e)
          /\ active' = [active EXCEPT ![k] = e]
          /\ entry' = [entry EXCEPT ![e] = Started(k, TRUE)]
          /\ caller' = [caller EXCEPT ![c] = [pc |-> "join", on |-> e]]
    /\ UNCHANGED owed

RunBody(c, k) == \/ JoinActive(c, k)
                 \/ AwaitStopping(c, k)
                 \/ StartForced(c, k)

Run(c, k) == caller[c].pc = "idle" /\ RunBody(c, k)

-----------------------------------------------------------------------------
(* wake(key): marks the active entry, or starts an unforced drain.         *)

\* Mutant: a wake is ignored while the entry is stopping.
MarkUnlessStopping(k) ==
    /\ active[k] # None
    /\ entry' = [entry EXCEPT ![active[k]].pendingWake = @ \/ ~entry[active[k]].stopping]
    /\ owed' = [owed EXCEPT ![k] = TRUE]
    /\ UNCHANGED <<active, caller>>

MarkPending(k) ==
    /\ active[k] # None
    /\ entry' = [entry EXCEPT ![active[k]].pendingWake = TRUE]
    /\ owed' = [owed EXCEPT ![k] = TRUE]
    /\ UNCHANGED <<active, caller>>

StartUnforced(k) ==
    /\ active[k] = None
    /\ \E e \in Entries :
          /\ Free(e)
          /\ active' = [active EXCEPT ![k] = e]
          /\ entry' = [entry EXCEPT ![e] = Started(k, FALSE)]
    /\ owed' = [owed EXCEPT ![k] = TRUE]
    /\ UNCHANGED caller

Wake(k) == MarkPending(k) \/ StartUnforced(k)

-----------------------------------------------------------------------------
(* interrupt(key): returns at once on an idle key; otherwise marks the     *)
(* entry, withdraws its pending wake and waits for the owner to exit.      *)

Interrupt(c, k) ==
    /\ caller[c].pc = "idle"
    /\ active[k] # None
    /\ entry' = [entry EXCEPT ![active[k]].stopping = TRUE,
                              ![active[k]].pendingWake = FALSE]
    /\ caller' = [caller EXCEPT ![c] = [pc |-> "interrupt", on |-> active[k]]]
    /\ owed' = [owed EXCEPT ![k] = FALSE]
    /\ UNCHANGED active

-----------------------------------------------------------------------------
(* The owner fiber.                                                        *)

\* The forked fiber passes its gate and calls drain(key, force).
BeginDrain(e) ==
    /\ entry[e].phase = "forked"
    /\ ~entry[e].stopping
    /\ entry' = [entry EXCEPT ![e].phase = "draining"]
    /\ owed' = [owed EXCEPT ![entry[e].key] = FALSE]
    /\ UNCHANGED <<active, caller>>

\* Mutant: the interruption of a fiber at its gate does not run its onExit.
SkipSettle(e) ==
    /\ entry[e].phase = "forked"
    /\ entry[e].stopping
    /\ entry' = [entry EXCEPT ![e] = Unused]
    /\ UNCHANGED <<active, caller, owed>>

\* A fiber interrupted at its gate exits without calling drain.
SkipDrain(e) ==
    /\ entry[e].phase = "forked"
    /\ entry[e].stopping
    /\ entry' = [entry EXCEPT ![e].phase = "exiting", ![e].exit = "interrupt"]
    /\ UNCHANGED <<active, caller, owed>>

\* The callback ends; its cleanup is over and onExit is about to run.
EndDrain(e) ==
    /\ entry[e].phase = "draining"
    /\ \E x \in Exits :
          entry' = [entry EXCEPT ![e].phase = "exiting", ![e].exit = x]
    /\ UNCHANGED <<active, caller, owed>>

\* settle(), first branch: the same entry drains again, done stays pending.
Restarts(e) == /\ entry[e].exit = "success"
               /\ ~entry[e].stopping
               /\ entry[e].pendingWake

\* Mutant: pendingWake is not reset before the next drain.
RestartKeepsWake(e) ==
    /\ entry[e].phase = "exiting"
    /\ Restarts(e)
    /\ entry' = [entry EXCEPT ![e].phase = "forked", ![e].force = FALSE]
    /\ UNCHANGED <<active, caller, owed>>

Restart(e) ==
    /\ entry[e].phase = "exiting"
    /\ Restarts(e)
    /\ entry' = [entry EXCEPT ![e].phase = "forked",
                              ![e].force = FALSE,
                              ![e].pendingWake = FALSE]
    /\ UNCHANGED <<active, caller, owed>>

\* Deferred.doneUnsafe(entry.done, exit), and the end of the owner fiber:
\* joined callers return with the exit, interrupt() returns, and a caller of
\* await(done).pipe(andThen(run(key))) calls run() again after a success but
\* fails with the stopped entry's own exit otherwise.
Resolve(e) ==
    caller' = [c \in Callers |->
                 IF ~WaitsFor(c, e) THEN caller[c]
                 ELSE IF caller[c].pc = "rerun" /\ entry[e].exit = "success"
                 THEN [pc |-> "again", on |-> entry[e].key]
                 ELSE IdleCaller]

\* settle(), a wake is pending after a failure or a stop: a new entry takes
\* the key over, its drain unforced, and the old one is done.
Succeed(e) ==
    /\ entry[e].phase = "exiting"
    /\ ~Restarts(e)
    /\ entry[e].pendingWake
    /\ \E n \in Entries :
          /\ Free(n)
          /\ active' = [active EXCEPT ![entry[e].key] = n]
          /\ entry' = [entry EXCEPT ![n] = Started(entry[e].key, FALSE),
                                    ![e] = Unused]
    /\ Resolve(e)
    /\ UNCHANGED owed

\* Mutant: the key becomes idle even though a failed drain left a wake.
RetireForgetsWake(e) ==
    /\ entry[e].phase = "exiting"
    /\ active' = [active EXCEPT ![entry[e].key] = None]
    /\ entry' = [entry EXCEPT ![e] = Unused]
    /\ Resolve(e)
    /\ UNCHANGED owed

\* settle(), nothing pending: the key becomes idle.
Retire(e) ==
    /\ entry[e].phase = "exiting"
    /\ ~entry[e].pendingWake
    /\ active' = [active EXCEPT ![entry[e].key] = None]
    /\ entry' = [entry EXCEPT ![e] = Unused]
    /\ Resolve(e)
    /\ UNCHANGED owed

Settle(e) == Restart(e) \/ Succeed(e) \/ Retire(e)

-----------------------------------------------------------------------------
(* Suspended callers.                                                      *)

\* A caller that awaited the end of a stopping entry calls run() again.
Rerun(c) == caller[c].pc = "again" /\ RunBody(c, caller[c].on)

\* The caller's own fiber is interrupted while it is suspended; the entry it
\* joined is not affected.
Abandon(c) ==
    /\ caller[c].pc # "idle"
    /\ caller' = [caller EXCEPT ![c] = IdleCaller]
    /\ UNCHANGED <<active, entry, owed>>

-----------------------------------------------------------------------------
Owner(e) == BeginDrain(e) \/ SkipDrain(e) \/ EndDrain(e) \/ Settle(e)

Next == \/ \E c \in Callers, k \in Keys : Run(c, k) \/ Interrupt(c, k)
        \/ \E k \in Keys : Wake(k)
        \/ \E e \in Entries : Owner(e)
        \/ \E c \in Callers : Rerun(c) \/ Abandon(c)

Spec == Init /\ [][Next]_vars

\* The scheduler runs every runnable fiber: the owner fibers, and the callers
\* resumed to run again.  Nothing obliges anybody to call run, wake or
\* interrupt, or to abandon a call.  That drains end is an assumption on the
\* callback.
Fairness == /\ \A e \in Entries : WF_vars(Owner(e))
            /\ \A c \in Callers : WF_vars(Rerun(c))

FairSpec == Spec /\ Fairness

-----------------------------------------------------------------------------
(* The worker of KeyedWorker, seen through the owner fibers (and not        *)
(* through the map, which has to keep track of them).                      *)

Owners(k) == {e \in Entries : Live(e) /\ entry[e].key = k}

OwnerOf(k) == CHOOSE e \in Owners(k) : TRUE

PhaseOf(k) == IF Owners(k) = {} THEN "idle"
              ELSE IF entry[OwnerOf(k)].stopping THEN "stopping"
              ELSE IF entry[OwnerOf(k)].phase = "forked" THEN "ready"
              ELSE "busy"

AgainOf(k) == Owners(k) # {} /\ entry[OwnerOf(k)].pendingWake

KW == INSTANCE KeyedWorker WITH phase <- [k \in Keys |-> PhaseOf(k)],
                                again <- [k \in Keys |-> AgainOf(k)]

-----------------------------------------------------------------------------
(* Properties.                                                             *)

\* Serialization (the interface comment of line 5): two owner fibers that
\* have not settled never work for the same key, although entries are
\* replaced while old fibers still unwind.
OneOwnerPerKey ==
    \A e, f \in Entries :
        Live(e) /\ Live(f) /\ entry[e].key = entry[f].key => e = f

\* The map and the fibers agree: active holds exactly the entries whose owner
\* has not settled, under their own key.  A stale entry would make every
\* later run() join a fiber that is gone, and a missing one would let a
\* second drain start.
ActiveIffLive ==
    \A k \in Keys, e \in Entries :
        active[k] = e <=> Live(e) /\ entry[e].key = k

\* A wake that no drain has answered yet is remembered where settle() or the
\* scheduler will find it: either the owner has still to call drain, or
\* pendingWake is set on the active entry.  Interrupts withdraw the wakes
\* that precede them, and no other.
NoLostWake ==
    \A k \in Keys :
        owed[k] => /\ active[k] # None
                   /\ \/ entry[active[k]].pendingWake
                      \/ /\ entry[active[k]].phase = "forked"
                         /\ ~entry[active[k]].stopping

\* Nobody is left behind: every suspended caller waits for an entry whose
\* owner has still to settle, and a caller waiting to rerun, or for its
\* interrupt to take effect, waits for a stopping one.
WaitersHaveAnOwner ==
    \A c \in Callers, e \in Entries :
        WaitsFor(c, e) =>
            /\ Live(e)
            /\ caller[c].pc \in {"rerun", "interrupt"} => entry[e].stopping

\* The coordinator implements one worker per key: whatever calls overlap, the
\* owner fibers of a key start, are asked again, stop and finish like a single
\* worker.
ImplementsKeyedWorker == KW!Spec

\* A stopped entry never drains again: the only way for its key to run is an
\* entry of its own, even when the stopped drain ended well with a wake
\* pending.
StoppedEntriesNeverRestart ==
    [][\A e \in Entries :
          Live(e) /\ entry[e].stopping /\ entry'[e] # Unused
              => /\ entry'[e].stopping
                 /\ entry'[e].phase = "forked" => entry[e].phase = "forked"
      ]_vars

\* Every wake is answered: a drain begins, or somebody interrupts the key.
WakesAreAnswered == \A k \in Keys : owed[k] ~> ~owed[k]

\* A run() shares the fate of all coalesced follow-ups of its entry, so it
\* returns only if wakes eventually stop.
WakesStop == <>[][\A k \in Keys : ~Wake(k)]_vars

\* interrupt() returns once the cleanup of the owner it stopped is over,
\* whatever is woken, joined or interrupted meanwhile; a joined run() returns
\* when wakes stop.
CallersReturn ==
    /\ \A c \in Callers : caller[c].pc = "interrupt" ~> caller[c].pc = "idle"
    /\ WakesStop => \A c \in Callers :
                        caller[c].pc = "join" ~> caller[c].pc # "join"

=============================================================================
