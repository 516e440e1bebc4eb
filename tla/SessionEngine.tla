--------------------------- MODULE SessionEngine ---------------------------
(***************************************************************************)
(* One session of the V2 engine: clients that admit prompts, the durable   *)
(* inbox (SessionInbox), the coordinator (RunCoordinator) and the drain it *)
(* runs, which is the loop of tui/packages/core/src/session/runner/llm.ts. *)
(*                                                                         *)
(* Every read and every transaction on the database is a step of its own:  *)
(* prompts, wakes, interrupts and crashes happen between any two of them.  *)
(* A crash loses the process (coordinator, drain, calls in progress) and   *)
(* keeps the database (inbox rows and tool calls).                         *)
(***************************************************************************)
EXTENDS Naturals, FiniteSets

CONSTANTS Session,    \* the session identifier
          Messages,   \* message IDs of prompts
          Prompters,  \* concurrent calls of prompt()
          Entries,    \* identities of coordinator entries
          Callers,    \* concurrent calls of resume() and interrupt()
          None,
          Steps       \* agent.steps: provider turns allowed without new input

ASSUME StepsAssumption == Steps \in Nat \ {0}
ASSUME NoneAssumption == None \notin Entries /\ None # Session

VARIABLES seq, input,                     \* SessionInbox
          active, entry, caller, owed,    \* RunCoordinator
          drain,     \* the drain callback in progress
          tool,      \* durable: the history shows an unsettled tool call
          prompter,  \* what each call of prompt() is about to do
          woken,     \* history: prompts whose wake is not yet served
          boundary   \* history: the model owes nothing, so a queued prompt may enter

inboxVars == <<seq, input>>
coordVars == <<active, entry, caller, owed>>
vars == <<inboxVars, coordVars, drain, tool, prompter, woken, boundary>>

Inbox == INSTANCE SessionInbox
RC == INSTANCE RunCoordinator WITH Keys <- {Session}

-----------------------------------------------------------------------------
Promotions == {"steer", "queue", "none"}

NoDrain == [pc |-> "none", owner |-> None, promotion |-> "none", step |-> 1,
            cutoff |-> 0, rows |-> {}, promoted |-> FALSE,
            continue |-> FALSE, compacted |-> FALSE, overflowed |-> FALSE]

DrainPCs == {"none", "hasSteer", "hasQueue", "failTools", "turn",
             "selectQueued", "publishQueued", "selectSteers", "publishSteers",
             "prepare", "provider", "checkSteer", "checkQueue", "return"}

Drain == [pc : DrainPCs, owner : Entries \cup {None}, promotion : Promotions,
          step : 1 .. (Steps + 1), cutoff : Nat, rows : SUBSET Messages,
          promoted : BOOLEAN, continue : BOOLEAN, compacted : BOOLEAN,
          overflowed : BOOLEAN]

IdlePrompt == [pc |-> "idle", msg |-> None, delivery |-> "steer"]

Prompt == [pc : {"publish", "check"}, msg : Messages,
           delivery : Inbox!Deliveries] \cup {IdlePrompt}

TypeOK == /\ Inbox!TypeOK
          /\ RC!TypeOK
          /\ drain \in Drain
          /\ tool \in BOOLEAN
          /\ prompter \in [Prompters -> Prompt]
          /\ woken \subseteq Messages
          /\ boundary \in BOOLEAN

Init == /\ Inbox!Init
        /\ RC!Init
        /\ drain = NoDrain
        /\ tool = FALSE
        /\ prompter = [p \in Prompters |-> IdlePrompt]
        /\ woken = {}
        /\ boundary = TRUE

-----------------------------------------------------------------------------
(* prompt(): look the ID up, admit it if it is new, check that a row found *)
(* under the ID is equivalent, and wake the session unless resume is       *)
(* false.  The call is uninterruptible; only a crash can cut it short.     *)

Find(p, m, d) ==
    /\ prompter[p] = IdlePrompt
    /\ prompter' = [prompter EXCEPT ![p] =
                      [pc |-> IF Inbox!Stored(m) THEN "check" ELSE "publish",
                       msg |-> m, delivery |-> d]]
    /\ UNCHANGED <<inboxVars, coordVars, drain, tool, woken, boundary>>

\* A conflicting publication is caught and the stored row is looked up.
Admit(p) ==
    /\ prompter[p].pc = "publish"
    /\ Inbox!ProjectAdmitted(prompter[p].msg, prompter[p].delivery)
    /\ prompter' = [prompter EXCEPT ![p].pc = "check"]
    /\ UNCHANGED <<coordVars, drain, tool, woken, boundary>>

\* A PromptConflictError, or the end of a call that only records (its argument
\* resume is false), or the wake.  Nothing suspends between the last read of
\* the row and the wake.
Reject(p) ==
    /\ prompter[p].pc = "check"
    /\ ~Inbox!Equivalent(prompter[p].msg, prompter[p].delivery)
    /\ prompter' = [prompter EXCEPT ![p] = IdlePrompt]
    /\ UNCHANGED <<inboxVars, coordVars, drain, tool, woken, boundary>>

Record(p) ==
    /\ prompter[p].pc = "check"
    /\ Inbox!Equivalent(prompter[p].msg, prompter[p].delivery)
    /\ prompter' = [prompter EXCEPT ![p] = IdlePrompt]
    /\ UNCHANGED <<inboxVars, coordVars, drain, tool, woken, boundary>>

WakePrompt(p) ==
    /\ prompter[p].pc = "check"
    /\ Inbox!Equivalent(prompter[p].msg, prompter[p].delivery)
    /\ RC!Wake(Session)
    /\ woken' = woken \cup {m \in {prompter[p].msg} : input[m].promoted = 0}
    /\ prompter' = [prompter EXCEPT ![p] = IdlePrompt]
    /\ UNCHANGED <<inboxVars, drain, tool, boundary>>

-----------------------------------------------------------------------------
(* resume() and interrupt() go straight to the coordinator.                *)

Resume(c) ==
    /\ RC!Run(c, Session)
    /\ UNCHANGED <<inboxVars, drain, tool, prompter, woken, boundary>>

Interrupt(c) ==
    /\ RC!Interrupt(c, Session)
    /\ woken' = {}
    /\ UNCHANGED <<inboxVars, drain, tool, prompter, boundary>>

Caller(c) ==
    /\ RC!Rerun(c) \/ RC!Abandon(c)
    /\ UNCHANGED <<inboxVars, drain, tool, prompter, woken, boundary>>

-----------------------------------------------------------------------------
(* The coordinator starts the drain and settles it.                        *)

Begin(e) ==
    /\ RC!BeginDrain(e)
    /\ drain' = [NoDrain EXCEPT !.pc = "hasSteer", !.owner = e]
    /\ boundary' = TRUE
    /\ UNCHANGED <<inboxVars, tool, prompter, woken>>

Skip(e) ==
    /\ RC!SkipDrain(e)
    /\ UNCHANGED <<inboxVars, drain, tool, prompter, woken, boundary>>

\* A drain that ended badly with no wake pending leaves the prompts of earlier
\* wakes where they are, for a later wake or resume.
Settle(e) ==
    /\ RC!Settle(e)
    /\ woken' = IF entry[e].exit # "success" /\ ~entry[e].pendingWake THEN {}
                ELSE woken
    /\ UNCHANGED <<inboxVars, drain, tool, prompter, boundary>>

\* The drain callback returns or fails.  What it owed the model is forgotten with it.
End(x) ==
    /\ RC!EndDrain(drain.owner)
    /\ entry'[drain.owner].exit = x
    /\ drain' = NoDrain
    /\ boundary' = TRUE

-----------------------------------------------------------------------------
(* run(): what is pending decides whether there is anything to do.         *)

At(pc) == drain.pc = pc
Goto(pc) == drain' = [drain EXCEPT !.pc = pc]

HasSteer ==
    /\ At("hasSteer")
    /\ drain' = IF Inbox!Pending("steer") # {}
                THEN [drain EXCEPT !.pc = "failTools", !.promotion = "steer"]
                ELSE [drain EXCEPT !.pc = "hasQueue"]
    /\ UNCHANGED <<inboxVars, coordVars, tool, prompter, woken, boundary>>

HasQueue ==
    /\ At("hasQueue")
    /\ drain' = IF Inbox!Pending("queue") # {}
                THEN [drain EXCEPT !.pc = "failTools", !.promotion = "queue"]
                ELSE IF entry[drain.owner].force
                THEN [drain EXCEPT !.pc = "failTools"]
                ELSE [drain EXCEPT !.pc = "return"]
    /\ UNCHANGED <<inboxVars, coordVars, tool, prompter, woken, boundary>>

\* Mutant: tool calls left by an earlier process stay as they are.
KeepInterruptedTools ==
    /\ At("failTools")
    /\ Goto("turn")
    /\ UNCHANGED <<inboxVars, coordVars, tool, prompter, woken, boundary>>

FailInterruptedTools ==
    /\ At("failTools")
    /\ tool' = FALSE
    /\ Goto("turn")
    /\ UNCHANGED <<inboxVars, coordVars, prompter, woken, boundary>>

-----------------------------------------------------------------------------
(* runTurnAttempt(): promotion.                                            *)

\* The cutoff of the promotion is read first.  A turn rebuilt after compaction
\* promotes nothing.
StartTurn ==
    /\ At("turn")
    /\ drain' = [drain EXCEPT
          !.pc = CASE drain.promotion = "none"  -> "prepare"
                   [] drain.promotion = "queue" -> "selectQueued"
                   [] drain.promotion = "steer" -> "selectSteers",
          !.cutoff = IF drain.promotion = "none" THEN @ ELSE seq]
    /\ UNCHANGED <<inboxVars, coordVars, tool, prompter, woken, boundary>>

\* Before any promotion: the session has moved to another location, or its
\* system context cannot be loaded.
RefuseTurn ==
    /\ At("turn")
    /\ \E x \in {"interrupt", "failure"} : End(x)
    /\ UNCHANGED <<inboxVars, active, caller, owed, tool, prompter, woken>>

\* Mutant: LIMIT 1 is missing.
SelectAllQueued ==
    /\ At("selectQueued")
    /\ drain' = [drain EXCEPT !.pc = "publishQueued",
                              !.rows = Inbox!Pending("queue")]
    /\ UNCHANGED <<inboxVars, coordVars, tool, prompter, woken, boundary>>

SelectQueued ==
    /\ At("selectQueued")
    /\ drain' = [drain EXCEPT !.pc = "publishQueued",
                              !.rows = {m \in Inbox!Pending("queue") :
                                   Inbox!FirstAdmitted(Inbox!Pending("queue"), m)}]
    /\ UNCHANGED <<inboxVars, coordVars, tool, prompter, woken, boundary>>

\* Mutant: the cutoff excludes the event that was last.
SelectSteersBefore ==
    /\ At("selectSteers")
    /\ drain' = [drain EXCEPT !.pc = "publishSteers",
                              !.rows = {m \in Inbox!Pending("steer") :
                                          input[m].admitted < drain.cutoff}]
    /\ UNCHANGED <<inboxVars, coordVars, tool, prompter, woken, boundary>>

SelectSteers ==
    /\ At("selectSteers")
    /\ drain' = [drain EXCEPT !.pc = "publishSteers",
                              !.rows = {m \in Inbox!Pending("steer") :
                                          input[m].admitted <= drain.cutoff}]
    /\ UNCHANGED <<inboxVars, coordVars, tool, prompter, woken, boundary>>

\* One iteration of the loop of publish() over the selected rows.
PublishNext ==
    /\ drain.pc \in {"publishQueued", "publishSteers"}
    /\ \E m \in drain.rows :
          /\ Inbox!FirstAdmitted(drain.rows, m)
          /\ Inbox!ProjectPrompted(m)
          /\ drain' = [drain EXCEPT !.rows = @ \ {m}, !.promoted = TRUE]
          /\ woken' = woken \ {m}
    /\ boundary' = (boundary /\ drain.pc # "publishQueued")
    /\ UNCHANGED <<coordVars, tool, prompter>>

Published ==
    /\ drain.pc \in {"publishQueued", "publishSteers"}
    /\ drain.rows = {}
    /\ drain' = IF drain.pc = "publishQueued"
                THEN [drain EXCEPT !.pc = "selectSteers"]
                ELSE [drain EXCEPT !.pc = "prepare", !.promoted = FALSE,
                                   !.step = IF drain.promoted THEN 1 ELSE @]
    /\ UNCHANGED <<inboxVars, coordVars, tool, prompter, woken, boundary>>

-----------------------------------------------------------------------------
(* runTurnAttempt(): the provider turn.                                    *)

\* The request is built and fits.
Request ==
    /\ At("prepare")
    /\ drain' = [drain EXCEPT !.pc = "provider", !.compacted = FALSE]
    /\ UNCHANGED <<inboxVars, coordVars, tool, prompter, woken, boundary>>

\* The request is too large: history is compacted and the turn rebuilt
\* without promoting again.  A compaction is taken to make room.
Compact ==
    /\ At("prepare")
    /\ ~drain.compacted
    /\ drain' = [drain EXCEPT !.pc = "turn", !.promotion = "none",
                              !.compacted = TRUE]
    /\ UNCHANGED <<inboxVars, coordVars, tool, prompter, woken, boundary>>

\* The provider rejects the request before any output: one recovery by
\* compaction.
RecoverOverflow ==
    /\ At("provider")
    /\ ~tool /\ ~drain.continue /\ ~drain.overflowed
    /\ drain' = [drain EXCEPT !.pc = "turn", !.promotion = "none",
                              !.overflowed = TRUE]
    /\ UNCHANGED <<inboxVars, coordVars, tool, prompter, woken, boundary>>

\* Mutant: tools are offered in the last step, too.
CallToolAnyStep ==
    /\ At("provider")
    /\ tool' = TRUE
    /\ \E local \in BOOLEAN : drain' = [drain EXCEPT !.continue = @ \/ local]
    /\ UNCHANGED <<inboxVars, coordVars, prompter, woken, boundary>>

\* The model calls a tool.  The result of a local one must go back to it; in the last
\* allowed step none is offered, and a call fails at once.  A hosted one is executed by
\* the provider.
CallTool ==
    /\ At("provider")
    /\ tool' = TRUE
    /\ \E local \in BOOLEAN : /\ local => drain.step < Steps
                             /\ drain' = [drain EXCEPT !.continue = @ \/ local]
    /\ UNCHANGED <<inboxVars, coordVars, prompter, woken, boundary>>

SettleTool ==
    /\ At("provider")
    /\ tool
    /\ tool' = FALSE
    /\ UNCHANGED <<inboxVars, coordVars, drain, prompter, woken, boundary>>

\* The next turn of the loop, with a fresh overflow recovery.
NextTurn(promotion, step) ==
    [NoDrain EXCEPT !.pc = "turn", !.owner = drain.owner,
                    !.promotion = promotion, !.step = step]

\* The loop of run() goes on to look at the inbox; the step count is kept.
Look(pc) == [NoDrain EXCEPT !.pc = pc, !.owner = drain.owner, !.step = drain.step]

\* The stream ends and every tool is settled.  A provider error ends the turn
\* without continuation.
FinishTurn ==
    /\ At("provider")
    /\ ~tool
    /\ \E c \in {drain.continue, FALSE} :
          /\ boundary' = ~c
          /\ drain' = IF c THEN NextTurn("steer", drain.step + 1)
                      ELSE Look("checkSteer")
    /\ UNCHANGED <<inboxVars, coordVars, tool, prompter, woken>>

\* Model resolution or the provider stream fails; started tools are awaited or
\* failed first.  A defect of the stream leaves hosted calls open.
FailTurn ==
    /\ drain.pc \in {"prepare", "provider"}
    /\ tool' \in {tool, FALSE}
    /\ End("failure")
    /\ UNCHANGED <<inboxVars, active, caller, owed, prompter, woken>>

\* A question asked by a local tool is dismissed: the loop stops as if interrupted.
DismissQuestion ==
    /\ At("provider")
    /\ drain.continue
    /\ tool' = FALSE
    /\ End("interrupt")
    /\ UNCHANGED <<inboxVars, active, caller, owed, prompter, woken>>

-----------------------------------------------------------------------------
(* run(): what to do after a turn.                                         *)

CheckSteer ==
    /\ At("checkSteer")
    /\ drain' = IF Inbox!Pending("steer") # {}
                THEN NextTurn("steer", drain.step + 1)
                ELSE Look("checkQueue")
    /\ UNCHANGED <<inboxVars, coordVars, tool, prompter, woken, boundary>>

\* Mutant: the drain ends without a look at the queue.
ForgetQueue ==
    /\ At("checkQueue")
    /\ Goto("return")
    /\ UNCHANGED <<inboxVars, coordVars, tool, prompter, woken, boundary>>

\* Mutant: the next turn is told to promote steering prompts.
QueueAsSteer ==
    /\ At("checkQueue")
    /\ drain' = IF Inbox!Pending("queue") # {}
                THEN NextTurn("steer", 1)
                ELSE Look("return")
    /\ UNCHANGED <<inboxVars, coordVars, tool, prompter, woken, boundary>>

CheckQueue ==
    /\ At("checkQueue")
    /\ drain' = IF Inbox!Pending("queue") # {}
                THEN NextTurn("queue", 1)
                ELSE Look("return")
    /\ UNCHANGED <<inboxVars, coordVars, tool, prompter, woken, boundary>>

Return ==
    /\ At("return")
    /\ End("success")
    /\ UNCHANGED <<inboxVars, active, caller, owed, tool, prompter, woken>>

\* A stop is noticed between two steps.  Only the settlement of a provider
\* turn is uninterruptible: it fails the tools it started.
NoticeStop ==
    /\ drain # NoDrain
    /\ entry[drain.owner].stopping
    /\ tool' = (tool /\ drain.pc # "provider")
    /\ End("interrupt")
    /\ UNCHANGED <<inboxVars, active, caller, owed, prompter, woken>>

-----------------------------------------------------------------------------
\* The process dies and starts anew.  Nothing is resumed by itself.
Crash ==
    /\ active' = [k \in {Session} |-> None]
    /\ entry' = [e \in Entries |-> RC!Unused]
    /\ caller' = [c \in Callers |-> RC!IdleCaller]
    /\ owed' = [k \in {Session} |-> FALSE]
    /\ drain' = NoDrain
    /\ prompter' = [p \in Prompters |-> IdlePrompt]
    /\ woken' = {}
    /\ boundary' = TRUE
    /\ UNCHANGED <<inboxVars, tool>>

-----------------------------------------------------------------------------
DrainStep == \/ HasSteer \/ HasQueue \/ FailInterruptedTools
             \/ StartTurn \/ RefuseTurn \/ SelectQueued \/ SelectSteers
             \/ PublishNext \/ Published
             \/ Request \/ Compact \/ RecoverOverflow
             \/ CallTool \/ SettleTool \/ FinishTurn \/ FailTurn
             \/ DismissQuestion
             \/ CheckSteer \/ CheckQueue \/ Return \/ NoticeStop

Coordinate(e) == Begin(e) \/ Skip(e) \/ Settle(e)

PrompterStep(p) == Admit(p) \/ Reject(p) \/ Record(p) \/ WakePrompt(p)

Next == \/ \E p \in Prompters, m \in Messages, d \in Inbox!Deliveries :
              Find(p, m, d)
        \/ \E p \in Prompters : PrompterStep(p)
        \/ \E c \in Callers : Resume(c) \/ Interrupt(c) \/ Caller(c)
        \/ \E e \in Entries : Coordinate(e)
        \/ DrainStep
        \/ Crash

Spec == Init /\ [][Next]_vars

\* The process runs whatever is runnable as long as it lives.  Prompts, resumes,
\* interrupts and crashes need not happen; a provider turn ends, however many tools it
\* calls.
Fairness == /\ \A p \in Prompters : WF_vars(PrompterStep(p))
            /\ \A e \in Entries : WF_vars(Coordinate(e))
            /\ WF_vars(DrainStep)
            /\ SF_vars(FinishTurn)

FairSpec == Spec /\ Fairness

-----------------------------------------------------------------------------
(* Properties.                                                             *)

\* Prompts whose wake came through are never left behind by an idle session:
\* as long as one is pending, something still runs that will look at the
\* inbox.  They stay pending only after an interrupt, a failed drain or a
\* crash.
NothingLeftWhenIdle == active[Session] = None => woken = {}

\* Prompts of one delivery mode enter the history in the order of their
\* admission, whatever drains are cut short in the middle of a promotion.
PromotionOrder ==
    \A m, n \in Messages :
        /\ input[m].promoted # 0
        /\ Inbox!Stored(n)
        /\ input[n].delivery = input[m].delivery
        /\ input[n].admitted < input[m].admitted
        => input[n].promoted # 0 /\ input[n].promoted < input[m].promoted

\* A request lacks no steering prompt admitted up to the cutoff its turn took,
\* not even when the turn was rebuilt after compaction.
SteersJoinTheRequest ==
    drain.pc \in {"prepare", "provider"} =>
        \A m \in Inbox!Pending("steer") : input[m].admitted > drain.cutoff

\* No request is built on a history with an unsettled tool call, not even after
\* a crash in the middle of a tool.
NoOpenToolInRequest ==
    drain.pc \in {"turn", "selectQueued", "publishQueued",
                  "selectSteers", "publishSteers", "prepare",
                  "checkSteer", "checkQueue"} => ~tool

\* The step allowance of the agent bounds the provider turns between two
\* promotions, although compaction restarts a turn and a late steer continues
\* a chain that had used its allowance up.
StepBound == drain.pc = "provider" => drain.step <= Steps

\* A retried, concurrent or conflicting prompt never changes an admitted row,
\* and a promoted prompt keeps its place in the history.
AdmissionIsFinal ==
    [][\A m \in Messages :
          Inbox!Stored(m) =>
              /\ input'[m].admitted = input[m].admitted
              /\ input'[m].delivery = input[m].delivery
              /\ input[m].promoted # 0 => input'[m].promoted = input[m].promoted
      ]_vars

\* A queued prompt enters only when the model owes no continuation, and one at
\* a time: each gets its own provider turn before the next.
QueuedAtBoundary ==
    [][\A m \in Messages :
          /\ input[m].delivery = "queue"
          /\ input[m].promoted = 0 /\ input'[m].promoted # 0
          => boundary]_vars

\* Every woken prompt is promoted, unless an interrupt, a crash or the failure
\* of a drain intervenes.
WokenPromptsAreServed ==
    \A m \in Messages :
        m \in woken ~> m \notin woken \/ \E e \in Entries : entry[e].exit # "success"

=============================================================================
