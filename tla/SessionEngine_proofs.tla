------------------------ MODULE SessionEngine_proofs ------------------------
(***************************************************************************)
(* Proofs about SessionEngine for any messages, clients, callers, entries  *)
(* and step allowance.  The invariant is built in layers, each of which    *)
(* may use the ones before it: the shape of the variables, the coordinator *)
(* (through the lemmas of RunCoordinator_proofs), the tools of the         *)
(* history, the numbers of the inbox, the promotion of the inbox, the step *)
(* allowance, and the memory of wakes.                                     *)
(***************************************************************************)
EXTENDS SessionEngine, TLAPS

RP == INSTANCE RunCoordinator_proofs WITH Keys <- {Session}

-----------------------------------------------------------------------------
(* The layers of the invariant.                                            *)

\* The fields of a drain; the bound on the step is a result (StepInv).
DrainShape ==
    [pc : DrainPCs, owner : Entries \cup {None}, promotion : Promotions,
     step : Nat, cutoff : Nat, rows : SUBSET Messages, promoted : BOOLEAN,
     continue : BOOLEAN, compacted : BOOLEAN, overflowed : BOOLEAN]

Shape == /\ seq \in Nat
         /\ input \in [Messages -> Inbox!Row]
         /\ drain \in DrainShape
         /\ drain = NoDrain \/ (drain.pc # "none" /\ drain.owner \in Entries)
         /\ tool \in BOOLEAN
         /\ prompter \in [Prompters -> Prompt]
         /\ woken \subseteq Messages
         /\ boundary \in BOOLEAN

\* No number is ahead of the session's, and no two rows share one.
Numbers ==
    /\ \A m \in Messages : input[m].admitted <= seq /\ input[m].promoted <= seq
    /\ \A m, n \in Messages :
          Inbox!Stored(m) /\ input[m].admitted = input[n].admitted => m = n
    /\ drain.cutoff <= seq

Mode == IF drain.pc = "publishQueued" THEN "queue" ELSE "steer"

\* What is left of a promotion is a beginning of what is pending: nothing that
\* was admitted before one of its rows is pending outside it.
Batch ==
    drain.pc \in {"publishQueued", "publishSteers"} =>
        \A m \in drain.rows :
            /\ Inbox!Stored(m)
            /\ input[m].delivery = Mode
            /\ \A n \in Inbox!Pending(Mode) :
                  input[n].admitted < input[m].admitted => n \in drain.rows

SteersAfterCutoff ==
    \A m \in Inbox!Pending("steer") : input[m].admitted > drain.cutoff

\* How the steering prompts up to the cutoff leave the inbox.
SteerInv ==
    /\ drain.pc \in {"hasSteer", "hasQueue", "failTools"} => drain.cutoff = 0
    /\ drain.pc = "turn" /\ drain.promotion = "none" => SteersAfterCutoff
    /\ drain.pc = "publishSteers" =>
          \A m \in Inbox!Pending("steer") :
              input[m].admitted <= drain.cutoff => m \in drain.rows
    /\ SteersJoinTheRequest

\* Where the model owes nothing, and the one queued prompt of a promotion.
BoundaryInv ==
    /\ drain.pc \in {"hasSteer", "hasQueue", "failTools", "checkSteer",
                     "checkQueue", "selectQueued"} => boundary
    /\ drain.pc = "turn" /\ drain.promotion = "queue" => boundary
    /\ drain.pc = "publishQueued" =>
          /\ drain.rows # {} => boundary
          /\ \A m, n \in drain.rows : m = n

\* A step beyond the allowance is only entered to promote a steering prompt.
StepInv ==
    /\ drain.step \in 1 .. (Steps + 1)
    /\ drain.continue => drain.pc = "provider" /\ drain.step < Steps
    /\ drain.step = Steps + 1 =>
          \/ /\ drain.pc = "turn"
             /\ drain.promotion = "steer"
             /\ Inbox!Pending("steer") # {}
          \/ /\ drain.pc = "selectSteers"
             /\ \E m \in Inbox!Pending("steer") : input[m].admitted <= drain.cutoff
          \/ /\ drain.pc = "publishSteers"
             /\ drain.promoted \/ drain.rows # {}

\* A row was found or stored before it is checked.
Found == \A p \in Prompters :
            prompter[p].pc = "check" => Inbox!Stored(prompter[p].msg)

\* The drain belongs to the entry whose fiber runs it.
OwnDrain == \A e \in Entries : entry[e].phase = "draining" => drain.owner = e

WokenPending ==
    \A m \in woken : Inbox!Stored(m) /\ input[m].promoted = 0

\* A drain that will not be followed by another has seen what it leaves.
DrainSees ==
    /\ drain.pc \in {"hasQueue", "checkQueue"} =>
          \A m \in woken : input[m].delivery = "queue"
    /\ drain.pc = "return" => woken = {}

\* Where a woken prompt is remembered: a wake is pending on the active entry,
\* its drain has still to look, or its failure drops the wake.
Remembered ==
    IF active[Session] = None THEN woken = {}
    ELSE LET a == entry[active[Session]]
         IN  ~a.pendingWake =>
                /\ a.phase = "draining" => DrainSees
                /\ a.phase = "exiting" /\ a.exit = "success" => woken = {}

WakeInv == Found /\ OwnDrain /\ WokenPending /\ Remembered

-----------------------------------------------------------------------------
(* The shape of the variables.                                             *)

\* The constant records have the shape of the variables they are given to.
LEMMA Resets == /\ NoDrain \in DrainShape
                /\ IdlePrompt \in Prompt
                /\ Inbox!NoRow \in Inbox!Row
BY DEF NoDrain, DrainShape, DrainPCs, Promotions, IdlePrompt, Prompt,
       Inbox!NoRow, Inbox!Row, Inbox!Deliveries

\* Steps that leave inbox, drain, tools and boundary alone.
Aside ==
    \/ \E p \in Prompters, m \in Messages, d \in Inbox!Deliveries : Find(p, m, d)
    \/ \E p \in Prompters : Reject(p) \/ Record(p) \/ WakePrompt(p)
    \/ \E c \in Callers : Resume(c) \/ Interrupt(c) \/ Caller(c)
    \/ \E e \in Entries : Skip(e) \/ Settle(e)
    \/ UNCHANGED vars

\* Steps that end the drain.
Stopping == RefuseTurn \/ FailTurn \/ DismissQuestion \/ Return \/ NoticeStop \/ Crash

\* Steps of the drain that neither read nor write the inbox.
Plain == \/ FailInterruptedTools \/ Published \/ Request \/ Compact
         \/ RecoverOverflow \/ CallTool \/ SettleTool \/ FinishTurn

\* Steps of the drain that read the inbox.
Reading == HasSteer \/ HasQueue \/ StartTurn \/ SelectQueued \/ SelectSteers
            \/ CheckSteer \/ CheckQueue

LEMMA StepKinds ==
    [Next]_vars => \/ Aside \/ Stopping \/ Plain \/ Reading \/ PublishNext
                   \/ \E p \in Prompters : Admit(p)
                   \/ \E e \in Entries : Begin(e)
BY DEF Next, PrompterStep, Coordinate, DrainStep, Aside, Stopping, Plain, Reading

LEMMA AsideFrame == Aside => UNCHANGED <<seq, input, drain, tool, boundary>>
BY DEF Aside, Find, Reject, Record, WakePrompt, Resume, Interrupt, Caller,
       Skip, Settle, inboxVars, vars

LEMMA StopFrame == Stopping => /\ UNCHANGED <<seq, input>>
                           /\ drain' = NoDrain
                           /\ boundary' = TRUE
BY DEF Stopping, RefuseTurn, FailTurn, DismissQuestion, Return, NoticeStop, Crash,
       End, inboxVars

LEMMA ShapeInit == Init => Shape
<1> SUFFICES ASSUME Init PROVE Shape
  OBVIOUS
<1>1. seq \in Nat /\ input \in [Messages -> Inbox!Row]
  BY Resets DEF Init, Inbox!Init
<1>2. prompter \in [Prompters -> Prompt]
  BY Resets DEF Init
<1>3. QED
  BY <1>1, <1>2, Resets DEF Init, Shape

\* A drain in progress has an owner.
LEMMA Owned ==
    ASSUME Shape, drain.pc # "none"
    PROVE  drain.owner \in Entries
BY DEF Shape, NoDrain

LEMMA AtWork ==
    ASSUME Shape, Plain \/ Reading \/ PublishNext
    PROVE  drain.pc # "none"
BY DEF Shape, DrainShape, DrainPCs, Plain, Reading, PublishNext, At,
   FailInterruptedTools, Published, Request, Compact, RecoverOverflow, CallTool,
   SettleTool, FinishTurn, HasSteer, HasQueue, StartTurn, SelectQueued,
   SelectSteers, CheckSteer, CheckQueue

\* What the loop starts a turn, or goes on to look at the inbox, with.
LEMMA FreshTurn ==
    ASSUME drain \in DrainShape, NEW q \in Promotions, NEW s \in Nat
    PROVE  /\ NextTurn(q, s) \in DrainShape
           /\ NextTurn(q, s).pc = "turn"
           /\ NextTurn(q, s).promotion = q
           /\ NextTurn(q, s).step = s
           /\ NextTurn(q, s).owner = drain.owner
           /\ NextTurn(q, s).cutoff = 0
           /\ NextTurn(q, s).rows = {}
           /\ NextTurn(q, s).continue = FALSE
BY DEF NextTurn, NoDrain, DrainShape, DrainPCs, Promotions

LEMMA FreshLook ==
    ASSUME drain \in DrainShape, NEW x \in DrainPCs
    PROVE  /\ Look(x) \in DrainShape
           /\ Look(x).pc = x
           /\ Look(x).step = drain.step
           /\ Look(x).owner = drain.owner
           /\ Look(x).cutoff = 0
           /\ Look(x).rows = {}
           /\ Look(x).continue = FALSE
BY DEF Look, NoDrain, DrainShape, Promotions

\* After a turn the loop does one or the other.
LEMMA Continues ==
    ASSUME drain \in DrainShape, FinishTurn \/ CheckSteer \/ CheckQueue
    PROVE  /\ drain' \in DrainShape
           /\ drain'.owner = drain.owner
           /\ drain'.pc \in {"turn", "checkSteer", "checkQueue", "return"}
<1>1. /\ drain.step + 1 \in Nat /\ 1 \in Nat
      /\ {"steer", "queue"} \subseteq Promotions
      /\ {"checkSteer", "checkQueue", "return"} \subseteq DrainPCs
  BY DEF DrainShape, Promotions, DrainPCs
<1>2. CASE \E q \in Promotions, n \in Nat : drain' = NextTurn(q, n)
  <2>1. PICK q \in Promotions, n \in Nat : drain' = NextTurn(q, n)
    BY <1>2
  <2>2. QED
    BY <2>1, FreshTurn
<1>3. CASE \E x \in {"checkSteer", "checkQueue", "return"} : drain' = Look(x)
  <2>1. PICK x \in {"checkSteer", "checkQueue", "return"} : drain' = Look(x)
    BY <1>3
  <2>2. QED
    BY <1>1, <2>1, FreshLook
<1>4. QED
  BY <1>1, <1>2, <1>3 DEF FinishTurn, CheckSteer, CheckQueue

LEMMA StartedTurn ==
    ASSUME drain \in DrainShape, seq \in Nat, StartTurn
    PROVE  /\ drain' \in DrainShape
           /\ drain.pc = "turn"
           /\ drain'.owner = drain.owner
           /\ drain'.step = drain.step
           /\ drain'.rows = drain.rows
           /\ drain'.promoted = drain.promoted
           /\ drain'.continue = drain.continue
           /\ \/ /\ drain.promotion = "none"
                 /\ drain'.pc = "prepare" /\ drain'.cutoff = drain.cutoff
              \/ /\ drain.promotion = "queue"
                 /\ drain'.pc = "selectQueued" /\ drain'.cutoff = seq
              \/ /\ drain.promotion = "steer"
                 /\ drain'.pc = "selectSteers" /\ drain'.cutoff = seq
<1>1. drain.promotion \in {"none", "queue", "steer"} /\ drain.pc = "turn"
  BY DEF DrainShape, Promotions, StartTurn, At
<1>2. CASE drain.promotion = "none"
  <2>1. drain' = [drain EXCEPT !.pc = "prepare", !.cutoff = drain.cutoff]
    BY <1>2 DEF StartTurn
  <2>2. QED
    BY <1>1, <1>2, <2>1 DEF DrainShape, DrainPCs
<1>3. CASE drain.promotion = "queue"
  <2>1. drain' = [drain EXCEPT !.pc = "selectQueued", !.cutoff = seq]
    BY <1>3 DEF StartTurn
  <2>2. QED
    BY <1>1, <1>3, <2>1 DEF DrainShape, DrainPCs
<1>4. CASE drain.promotion = "steer"
  <2>1. drain' = [drain EXCEPT !.pc = "selectSteers", !.cutoff = seq]
    BY <1>4 DEF StartTurn
  <2>2. QED
    BY <1>1, <1>4, <2>1 DEF DrainShape, DrainPCs
<1>5. QED
  BY <1>1, <1>2, <1>3, <1>4

\* The steps of the drain keep its shape,
LEMMA DrainShaped ==
    ASSUME drain \in DrainShape, seq \in Nat, Plain \/ Reading \/ PublishNext
    PROVE  drain' \in DrainShape
<1> USE DEF DrainShape, DrainPCs, Promotions
<1>1. CASE FailInterruptedTools
  BY <1>1 DEF FailInterruptedTools, Goto
<1>2. CASE Published
  BY <1>2 DEF Published
<1>3. CASE Request
  BY <1>3 DEF Request, Goto
<1>4. CASE Compact
  BY <1>4 DEF Compact
<1>5. CASE RecoverOverflow
  BY <1>5 DEF RecoverOverflow
<1>6. CASE CallTool
  BY <1>6 DEF CallTool
<1>7. CASE SettleTool
  BY <1>7 DEF SettleTool
<1>8. CASE FinishTurn
  BY <1>8, Continues
<1>9. CASE HasSteer
  BY <1>9 DEF HasSteer
<1>10. CASE HasQueue
  BY <1>10 DEF HasQueue
<1>11. CASE StartTurn
  BY <1>11, StartedTurn
<1>12. CASE SelectQueued
  BY <1>12 DEF SelectQueued, Inbox!Pending
<1>13. CASE SelectSteers
  BY <1>13 DEF SelectSteers, Inbox!Pending
<1>14. CASE CheckSteer
  BY <1>14, Continues
<1>15. CASE CheckQueue
  BY <1>15, Continues
<1>16. CASE PublishNext
  BY <1>16 DEF PublishNext
<1>17. QED
  BY <1>1, <1>2, <1>3, <1>4, <1>5, <1>6, <1>7, <1>8, <1>9, <1>10, <1>11,
     <1>12, <1>13, <1>14, <1>15, <1>16 DEF Plain, Reading

\* and its owner.
LEMMA OwnerKept ==
    ASSUME drain \in DrainShape, seq \in Nat, Plain \/ Reading \/ PublishNext
    PROVE  drain'.owner = drain.owner /\ drain'.pc # "none"
<1> USE DEF DrainShape
<1>1. CASE FailInterruptedTools
  BY <1>1 DEF FailInterruptedTools, Goto
<1>2. CASE Published
  BY <1>2 DEF Published
<1>3. CASE Request
  BY <1>3 DEF Request, Goto
<1>4. CASE Compact
  BY <1>4 DEF Compact
<1>5. CASE RecoverOverflow
  BY <1>5 DEF RecoverOverflow
<1>6. CASE CallTool
  BY <1>6 DEF CallTool, At
<1>7. CASE SettleTool
  BY <1>7 DEF SettleTool, At
<1>8. CASE FinishTurn
  BY <1>8, Continues
<1>9. CASE HasSteer
  BY <1>9 DEF HasSteer
<1>10. CASE HasQueue
  BY <1>10 DEF HasQueue
<1>11. CASE StartTurn
  BY <1>11, StartedTurn
<1>12. CASE SelectQueued
  BY <1>12 DEF SelectQueued
<1>13. CASE SelectSteers
  BY <1>13 DEF SelectSteers
<1>14. CASE CheckSteer
  BY <1>14, Continues
<1>15. CASE CheckQueue
  BY <1>15, Continues
<1>16. CASE PublishNext
  BY <1>16 DEF PublishNext
<1>17. QED
  BY <1>1, <1>2, <1>3, <1>4, <1>5, <1>6, <1>7, <1>8, <1>9, <1>10, <1>11,
     <1>12, <1>13, <1>14, <1>15, <1>16 DEF Plain, Reading

\* The inbox keeps its type.
LEMMA InboxShaped ==
    ASSUME Shape, [Next]_vars
    PROVE  seq' \in Nat /\ input' \in [Messages -> Inbox!Row]
<1>1. CASE PublishNext
  BY <1>1 DEF PublishNext, Shape, DrainShape, Inbox!ProjectPrompted, Inbox!Row,
     Inbox!vars
<1>2. ASSUME NEW p \in Prompters, Admit(p)
      PROVE  seq' \in Nat /\ input' \in [Messages -> Inbox!Row]
  <2>1. prompter[p].msg \in Messages /\ prompter[p].delivery \in Inbox!Deliveries
    BY <1>2 DEF Admit, Shape, Prompt, IdlePrompt
  <2>2. QED
    BY <1>2, <2>1 DEF Admit, Shape, Inbox!ProjectAdmitted, Inbox!Row, Inbox!vars,
       Inbox!Deliveries
<1>3. CASE Plain \/ Reading \/ \E e \in Entries : Begin(e)
  BY <1>3 DEF Shape, Plain, Reading, FailInterruptedTools, Published, Request,
     Compact, RecoverOverflow, CallTool, SettleTool, FinishTurn, HasSteer,
     HasQueue, StartTurn, SelectQueued, SelectSteers, CheckSteer, CheckQueue,
     Begin, inboxVars
<1>4. QED
  BY <1>1, <1>2, <1>3, StepKinds, AsideFrame, StopFrame DEF Shape

\* The other variables keep theirs.
LEMMA ClientsShaped ==
    ASSUME Shape, [Next]_vars
    PROVE  /\ prompter' \in [Prompters -> Prompt]
           /\ woken' \subseteq Messages
           /\ boundary' \in BOOLEAN /\ tool' \in BOOLEAN
<1> USE DEF Shape
<1>1. CASE Aside
  <2>1. boundary' \in BOOLEAN /\ tool' \in BOOLEAN
    BY <1>1, AsideFrame
  <2>2. ASSUME NEW p \in Prompters, NEW m \in Messages,
               NEW d \in Inbox!Deliveries, Find(p, m, d)
        PROVE  prompter' \in [Prompters -> Prompt] /\ woken' \subseteq Messages
    BY <2>2 DEF Find, Prompt
  <2>3. ASSUME NEW p \in Prompters, Reject(p) \/ Record(p)
        PROVE  prompter' \in [Prompters -> Prompt] /\ woken' \subseteq Messages
    BY <2>3, Resets DEF Reject, Record
  <2>4. ASSUME NEW p \in Prompters, WakePrompt(p)
        PROVE  prompter' \in [Prompters -> Prompt] /\ woken' \subseteq Messages
    <3>1. prompter[p].msg \in Messages
      BY <2>4 DEF WakePrompt, Prompt, IdlePrompt
    <3>2. QED
      BY <2>4, <3>1, Resets DEF WakePrompt
  <2>5. QED
    BY <1>1, <2>1, <2>2, <2>3, <2>4
       DEF Aside, Resume, Interrupt, Caller, Skip, Settle, vars
<1>2. CASE Stopping
  <2>1. /\ seq' = seq /\ input' = input /\ drain' = NoDrain /\ boundary' = TRUE
        /\ tool' \in BOOLEAN
    BY <1>2, StopFrame DEF Stopping, RefuseTurn, FailTurn, DismissQuestion, Return,
       NoticeStop, Crash
  <2>2. /\ prompter' = prompter \/ prompter' = [p \in Prompters |-> IdlePrompt]
        /\ woken' = woken \/ woken' = {}
    BY <1>2 DEF Stopping, RefuseTurn, FailTurn, DismissQuestion, Return, NoticeStop, Crash
  <2>3. QED
    BY <2>1, <2>2, Resets
<1>3. CASE Plain \/ Reading \/ \E e \in Entries : Begin(e)
  BY <1>3 DEF DrainShape, Plain, Reading, FailInterruptedTools, Published, Request,
     Compact, RecoverOverflow, CallTool, SettleTool, FinishTurn, HasSteer,
     HasQueue, StartTurn, SelectQueued, SelectSteers, CheckSteer, CheckQueue,
     Begin
<1>4. CASE PublishNext
  BY <1>4 DEF PublishNext
<1>5. ASSUME NEW p \in Prompters, Admit(p)
      PROVE  /\ prompter' \in [Prompters -> Prompt]
             /\ woken' = woken /\ boundary' = boundary /\ tool' = tool
  BY <1>5 DEF Admit, Prompt, IdlePrompt
<1>6. QED
  BY <1>1, <1>2, <1>3, <1>4, <1>5, StepKinds

LEMMA ShapeStep == Shape /\ [Next]_vars => Shape'
<1> SUFFICES ASSUME Shape, [Next]_vars PROVE Shape'
  OBVIOUS
<1>1. /\ drain' \in DrainShape
      /\ drain' = NoDrain \/ (drain'.pc # "none" /\ drain'.owner \in Entries)
  <2>1. CASE Aside \/ \E p \in Prompters : Admit(p)
    BY <2>1, AsideFrame DEF Shape, Admit
  <2>2. CASE Stopping
    BY <2>2, StopFrame, Resets
  <2>3. CASE Plain \/ Reading \/ PublishNext
    BY <2>3, DrainShaped, OwnerKept, AtWork, Owned DEF Shape
  <2>4. ASSUME NEW e \in Entries, Begin(e)
        PROVE  drain' \in DrainShape /\ drain'.pc # "none" /\ drain'.owner \in Entries
    BY <2>4 DEF Begin, NoDrain, DrainShape, DrainPCs, Promotions
  <2>5. QED
    BY <2>1, <2>2, <2>3, <2>4, StepKinds
<1>2. QED
  BY <1>1, InboxShaped, ClientsShaped DEF Shape

LEMMA ShapeInvariant == Spec => []Shape
BY ShapeInit, ShapeStep, PTL DEF Spec

-----------------------------------------------------------------------------
(* The coordinator.  Every step of the session but a crash is a step of its *)
(* coordinator or leaves it alone, and a crash starts it anew; so what is   *)
(* proved of the coordinator alone holds in the session as well.            *)

\* The coordinator the session uses is the one the proofs are about.
LEMMA SameCoordinator ==
    /\ RC!TypeOK <=> RP!TypeOK
    /\ \A c \in Callers : /\ RC!Run(c, Session) <=> RP!Run(c, Session)
                          /\ RC!Interrupt(c, Session) <=> RP!Interrupt(c, Session)
                          /\ RC!Rerun(c) <=> RP!Rerun(c)
                          /\ RC!Abandon(c) <=> RP!Abandon(c)
    /\ RC!Wake(Session) <=> RP!Wake(Session)
    /\ \A e \in Entries : /\ RC!BeginDrain(e) <=> RP!BeginDrain(e)
                          /\ RC!SkipDrain(e) <=> RP!SkipDrain(e)
                          /\ RC!EndDrain(e) <=> RP!EndDrain(e)
                          /\ RC!Settle(e) <=> RP!Settle(e)
BY DEF RC!TypeOK, RC!Entry, RC!Exits, RC!Caller, RC!Run, RC!RunBody, RC!JoinActive,
       RC!AwaitStopping, RC!StartForced, RC!Free, RC!Live, RC!WaitsFor,
       RC!Started, RC!Unused, RC!Interrupt, RC!Rerun, RC!Abandon,
       RC!IdleCaller, RC!Wake, RC!MarkPending, RC!StartUnforced,
       RC!BeginDrain, RC!SkipDrain, RC!EndDrain, RC!Settle, RC!Restart,
       RC!Restarts, RC!Succeed, RC!Retire, RC!Resolve,
       RP!TypeOK, RP!Entry, RP!Exits, RP!Caller, RP!Run, RP!RunBody, RP!JoinActive,
       RP!AwaitStopping, RP!StartForced, RP!Free, RP!Live, RP!WaitsFor,
       RP!Started, RP!Unused, RP!Interrupt, RP!Rerun, RP!Abandon,
       RP!IdleCaller, RP!Wake, RP!MarkPending, RP!StartUnforced,
       RP!BeginDrain, RP!SkipDrain, RP!EndDrain, RP!Settle, RP!Restart,
       RP!Restarts, RP!Succeed, RP!Retire, RP!Resolve

LEMMA CoordinatorInit == Init => RP!IInv
<1>1. Init => RP!Init
  BY DEF Init, RC!Init, RP!Init, RC!Unused, RP!Unused, RC!IdleCaller, RP!IdleCaller
<1>2. QED
  BY <1>1, RP!InitInv, NoneAssumption

\* The end of a drain is one in the coordinator.
LEMMA EndIsEndDrain ==
    ASSUME Shape, Stopping
    PROVE  (drain.owner \in Entries /\ RP!EndDrain(drain.owner)) \/ Crash
<1>1. CASE Crash
  BY <1>1
<1>2. CASE NoticeStop
  BY <1>2, SameCoordinator DEF NoticeStop, End, Shape
<1>3. CASE RefuseTurn \/ FailTurn \/ DismissQuestion \/ Return
  <2>1. drain.pc # "none"
    BY <1>3 DEF RefuseTurn, FailTurn, DismissQuestion, Return, At
  <2>2. RC!EndDrain(drain.owner)
    BY <1>3 DEF RefuseTurn, FailTurn, DismissQuestion, Return, End
  <2>3. QED
    BY <2>1, <2>2, Owned, SameCoordinator
<1>4. QED
  BY <1>1, <1>2, <1>3 DEF Stopping

\* A crash starts the coordinator anew.
LEMMA CrashInit == Crash => RP!IInv'
<1>1. Crash => RP!Init'
  BY DEF Crash, RP!Init, RC!Unused, RP!Unused, RC!IdleCaller, RP!IdleCaller
<1>2. RP!Init => RP!IInv
  BY RP!InitInv, NoneAssumption
<1>3. QED
  BY <1>1, <1>2, PTL

LEMMA CoordinatorSteps ==
    ASSUME Shape, [Next]_vars
    PROVE  RP!Next \/ UNCHANGED RP!vars \/ Crash
<1>1. CASE Aside
  BY <1>1, SameCoordinator
     DEF Aside, Find, Reject, Record, WakePrompt, Resume, Interrupt, Caller, Skip,
         Settle, vars, coordVars, RP!vars, RP!Next, RP!Owner
<1>2. CASE Stopping
  BY <1>2, EndIsEndDrain DEF RP!Next, RP!Owner
<1>3. CASE Plain \/ Reading \/ PublishNext
  BY <1>3 DEF Plain, Reading, PublishNext, FailInterruptedTools, Published, Request,
     Compact, RecoverOverflow, CallTool, SettleTool, FinishTurn, HasSteer,
     HasQueue, StartTurn, SelectQueued, SelectSteers, CheckSteer, CheckQueue,
     coordVars, RP!vars
<1>4. CASE \E p \in Prompters : Admit(p)
  BY <1>4 DEF Admit, coordVars, RP!vars
<1>5. CASE \E e \in Entries : Begin(e)
  BY <1>5, SameCoordinator DEF Begin, RP!Next, RP!Owner
<1>6. QED
  BY <1>1, <1>2, <1>3, <1>4, <1>5, StepKinds

LEMMA CoordinatorStep == Shape /\ RP!IInv /\ [Next]_vars => RP!IInv'
BY CoordinatorSteps, CrashInit, RP!NextInv, NoneAssumption

LEMMA CoordinatorInvariant == Spec => []RP!IInv
BY CoordinatorInit, CoordinatorStep, ShapeInvariant, PTL DEF Spec

-----------------------------------------------------------------------------
(* The moves of the drain that later layers ask about, field by field.     *)

LEMMA Begun ==
    ASSUME NEW e \in Entries, Begin(e)
    PROVE  /\ UNCHANGED <<seq, input, tool, prompter, woken>>
           /\ drain'.pc = "hasSteer" /\ drain'.owner = e
           /\ drain'.step = 1 /\ drain'.cutoff = 0
           /\ drain'.continue = FALSE /\ drain'.rows = {}
           /\ boundary' = TRUE
BY DEF Begin, NoDrain, inboxVars

LEMMA Finished ==
    ASSUME Shape, FinishTurn
    PROVE  /\ UNCHANGED <<seq, input, tool>>
           /\ drain.pc = "provider" /\ ~tool
           /\ drain'.cutoff = 0 /\ drain'.rows = {} /\ drain'.continue = FALSE
           /\ \/ /\ drain.continue /\ boundary' = FALSE
                 /\ drain'.pc = "turn" /\ drain'.promotion = "steer"
                 /\ drain'.step = drain.step + 1
              \/ /\ boundary' = TRUE
                 /\ drain'.pc = "checkSteer" /\ drain'.step = drain.step
<1>1. drain \in DrainShape /\ drain.continue \in BOOLEAN
  BY DEF Shape, DrainShape
<1>2. "steer" \in Promotions /\ "checkSteer" \in DrainPCs /\ drain.step + 1 \in Nat
  BY <1>1 DEF Promotions, DrainPCs, DrainShape
<1>3. CASE drain.continue /\ boundary' = FALSE /\ drain' = NextTurn("steer", drain.step + 1)
  <2>1. PICK n \in Nat : n = drain.step + 1
    BY <1>2
  <2>2. drain' = NextTurn("steer", n)
    BY <1>3, <2>1
  <2>3. /\ drain'.pc = "turn" /\ drain'.promotion = "steer" /\ drain'.step = n
        /\ drain'.cutoff = 0 /\ drain'.rows = {} /\ drain'.continue = FALSE
    BY <2>2 DEF NextTurn, NoDrain
  <2>4. QED
    BY <1>1, <1>3, <2>1, <2>3 DEF FinishTurn, At, inboxVars
<1>4. CASE boundary' = TRUE /\ drain' = Look("checkSteer")
  BY <1>1, <1>2, <1>4, FreshLook DEF FinishTurn, At, inboxVars
<1>5. QED
  BY <1>1, <1>3, <1>4 DEF FinishTurn

LEMMA SteersChecked ==
    ASSUME Shape, CheckSteer
    PROVE  /\ UNCHANGED <<seq, input, tool, woken, boundary>>
           /\ drain.pc = "checkSteer"
           /\ drain'.cutoff = 0 /\ drain'.rows = {} /\ drain'.continue = FALSE
           /\ \/ /\ Inbox!Pending("steer") # {}
                 /\ drain'.pc = "turn" /\ drain'.promotion = "steer"
                 /\ drain'.step = drain.step + 1
              \/ /\ Inbox!Pending("steer") = {}
                 /\ drain'.pc = "checkQueue" /\ drain'.step = drain.step
<1>1. drain \in DrainShape
  BY DEF Shape
<1>2. "steer" \in Promotions /\ "checkQueue" \in DrainPCs /\ drain.step + 1 \in Nat
  BY <1>1 DEF Promotions, DrainPCs, DrainShape
<1>3. CASE Inbox!Pending("steer") # {}
  <2>1. PICK n \in Nat : n = drain.step + 1
    BY <1>2
  <2>2. drain' = NextTurn("steer", n)
    BY <1>3, <2>1 DEF CheckSteer
  <2>3. /\ drain'.pc = "turn" /\ drain'.promotion = "steer" /\ drain'.step = n
        /\ drain'.cutoff = 0 /\ drain'.rows = {} /\ drain'.continue = FALSE
    BY <2>2 DEF NextTurn, NoDrain
  <2>4. QED
    BY <1>1, <1>3, <2>1, <2>3 DEF CheckSteer, At, inboxVars
<1>4. CASE Inbox!Pending("steer") = {}
  BY <1>1, <1>2, <1>4, FreshLook DEF CheckSteer, At, inboxVars
<1>5. QED
  BY <1>3, <1>4

LEMMA QueueChecked ==
    ASSUME Shape, CheckQueue
    PROVE  /\ UNCHANGED <<seq, input, tool, woken, boundary>>
           /\ drain.pc = "checkQueue"
           /\ drain'.cutoff = 0 /\ drain'.rows = {} /\ drain'.continue = FALSE
           /\ \/ /\ drain'.pc = "turn" /\ drain'.promotion = "queue"
                 /\ drain'.step = 1
              \/ /\ Inbox!Pending("queue") = {}
                 /\ drain'.pc = "return" /\ drain'.step = drain.step
<1>1. drain \in DrainShape
  BY DEF Shape
<1>2. "queue" \in Promotions /\ "return" \in DrainPCs
  BY DEF Promotions, DrainPCs
<1>3. CASE Inbox!Pending("queue") # {}
  <2>1. PICK n \in Nat : n = 1
    OBVIOUS
  <2>2. drain' = NextTurn("queue", n)
    BY <1>3, <2>1 DEF CheckQueue
  <2>3. /\ drain'.pc = "turn" /\ drain'.promotion = "queue" /\ drain'.step = n
        /\ drain'.cutoff = 0 /\ drain'.rows = {} /\ drain'.continue = FALSE
    BY <2>2 DEF NextTurn, NoDrain
  <2>4. QED
    BY <1>1, <1>3, <2>1, <2>3 DEF CheckQueue, At, inboxVars
<1>4. CASE Inbox!Pending("queue") = {}
  BY <1>1, <1>2, <1>4, FreshLook DEF CheckQueue, At, inboxVars
<1>5. QED
  BY <1>3, <1>4

-----------------------------------------------------------------------------
(* Tool calls.                                                             *)

LEMMA ToolStep == Shape /\ NoOpenToolInRequest /\ [Next]_vars => NoOpenToolInRequest'
<1> SUFFICES ASSUME Shape, NoOpenToolInRequest, [Next]_vars PROVE NoOpenToolInRequest'
  OBVIOUS
<1> USE DEF NoOpenToolInRequest
<1>1. CASE Aside \/ \E p \in Prompters : Admit(p)
  BY <1>1, AsideFrame DEF Admit
<1>2. CASE Stopping
  BY <1>2, StopFrame DEF NoDrain
<1>3. CASE \E e \in Entries : Begin(e)
  BY <1>3, Begun
<1>4. CASE FinishTurn \/ CheckSteer \/ CheckQueue \/ StartTurn
  BY <1>4, Finished, SteersChecked, QueueChecked, StartedTurn DEF Shape, StartTurn
<1>5. CASE PublishNext
  BY <1>5 DEF PublishNext, Shape, DrainShape
<1>6. CASE HasSteer \/ HasQueue \/ SelectQueued \/ SelectSteers
  BY <1>6 DEF HasSteer, HasQueue, SelectQueued, SelectSteers, At, Shape, DrainShape
<1>7. CASE Published \/ Request \/ Compact \/ RecoverOverflow
  BY <1>7 DEF Published, Request, Compact, RecoverOverflow, At, Goto, Shape, DrainShape
<1>8. CASE FailInterruptedTools \/ CallTool \/ SettleTool
  BY <1>8 DEF FailInterruptedTools, CallTool, SettleTool, At, Goto, Shape, DrainShape
<1>9. QED
  BY <1>1, <1>2, <1>3, <1>4, <1>5, <1>6, <1>7, <1>8, StepKinds DEF Plain, Reading

\* No request is built on a history with an unsettled tool call, whatever
\* crashes and stops leave behind: every drain settles what it finds before its
\* first turn.
THEOREM NoOpenTools == Spec => []NoOpenToolInRequest
<1>1. Init => NoOpenToolInRequest
  BY DEF Init, NoDrain, NoOpenToolInRequest
<1>2. QED
  BY <1>1, ToolStep, ShapeInvariant, PTL DEF Spec

-----------------------------------------------------------------------------
(* The numbers of the inbox.                                               *)

\* A row is written in two ways.
AdmitsRow(m, d) ==
    /\ ~Inbox!Stored(m)
    /\ seq' = seq + 1
    /\ input' = [input EXCEPT ![m] = [delivery |-> d, admitted |-> seq + 1,
                                      promoted |-> 0]]
    /\ UNCHANGED <<drain, boundary, woken>>

PromotesRow(m) ==
    /\ m \in drain.rows
    /\ Inbox!FirstAdmitted(drain.rows, m)
    /\ input[m].promoted = 0
    /\ seq' = seq + 1
    /\ input' = [input EXCEPT ![m].promoted = seq + 1]
    /\ PublishNext

LEMMA InboxMoves ==
    ASSUME Shape, [Next]_vars
    PROVE  \/ UNCHANGED <<seq, input>>
           \/ \E m \in Messages, d \in Inbox!Deliveries : AdmitsRow(m, d)
           \/ \E m \in Messages : PromotesRow(m)
<1>1. ASSUME NEW p \in Prompters, Admit(p)
      PROVE  \/ UNCHANGED <<seq, input>>
             \/ \E m \in Messages, d \in Inbox!Deliveries : AdmitsRow(m, d)
  <2>1. prompter[p].msg \in Messages /\ prompter[p].delivery \in Inbox!Deliveries
    BY <1>1 DEF Admit, Shape, Prompt, IdlePrompt
  <2>2. CASE Inbox!Stored(prompter[p].msg)
    BY <1>1, <2>2 DEF Admit, Inbox!ProjectAdmitted, Inbox!vars
  <2>3. CASE ~Inbox!Stored(prompter[p].msg)
    <3>1. AdmitsRow(prompter[p].msg, prompter[p].delivery)
      BY <1>1, <2>3 DEF Admit, Inbox!ProjectAdmitted, AdmitsRow
    <3>2. QED
      BY <2>1, <3>1
  <2>4. QED
    BY <2>2, <2>3
<1>2. CASE PublishNext
  <2>1. PICK m \in drain.rows : /\ Inbox!FirstAdmitted(drain.rows, m)
                                /\ Inbox!ProjectPrompted(m)
    BY <1>2 DEF PublishNext
  <2>2. m \in Messages
    BY <2>1 DEF Shape, DrainShape
  <2>3. UNCHANGED <<seq, input>> \/ PromotesRow(m)
    BY <1>2, <2>1 DEF Inbox!ProjectPrompted, Inbox!vars, PromotesRow
  <2>4. QED
    BY <2>2, <2>3
<1>3. CASE Plain \/ Reading \/ \E e \in Entries : Begin(e)
  BY <1>3 DEF Plain, Reading, FailInterruptedTools, Published, Request,
     Compact, RecoverOverflow, CallTool, SettleTool, FinishTurn, HasSteer,
     HasQueue, StartTurn, SelectQueued, SelectSteers, CheckSteer, CheckQueue,
     Begin, inboxVars
<1>4. QED
  BY <1>1, <1>2, <1>3, StepKinds, AsideFrame, StopFrame

\* The rows afterwards, one by one.
LEMMA AdmittedRows ==
    ASSUME Shape, NEW m \in Messages, NEW d \in Inbox!Deliveries, AdmitsRow(m, d)
    PROVE  /\ input'[m].admitted = seq + 1
           /\ input'[m].promoted = 0
           /\ input'[m].delivery = d
           /\ \A n \in Messages \ {m} : input'[n] = input[n]
BY DEF Shape, AdmitsRow

LEMMA PromotedRows ==
    ASSUME Shape, NEW m \in Messages, PromotesRow(m)
    PROVE  /\ input'[m].promoted = seq + 1
           /\ input'[m].admitted = input[m].admitted
           /\ input'[m].delivery = input[m].delivery
           /\ \A n \in Messages \ {m} : input'[n] = input[n]
BY DEF Shape, PromotesRow, Inbox!Row

LEMMA RowTypes ==
    ASSUME Shape, NEW m \in Messages
    PROVE  /\ input[m].admitted \in Nat
           /\ input[m].promoted \in Nat
           /\ input[m].delivery \in {"steer", "queue"}
BY DEF Shape, Inbox!Row, Inbox!Deliveries

\* The cutoff is read from the inbox, or cleared.
LEMMA CutoffStep ==
    ASSUME Shape, [Next]_vars
    PROVE  \/ drain'.cutoff \in {drain.cutoff, 0}
           \/ drain'.cutoff = seq /\ UNCHANGED <<seq, input>>
<1>1. CASE Aside \/ \E p \in Prompters : Admit(p)
  BY <1>1, AsideFrame DEF Admit
<1>2. CASE Stopping
  BY <1>2, StopFrame DEF NoDrain
<1>3. CASE \E e \in Entries : Begin(e)
  BY <1>3, Begun
<1>4. CASE FinishTurn \/ CheckSteer \/ CheckQueue
  BY <1>4, Finished, SteersChecked, QueueChecked
<1>5. CASE StartTurn
  BY <1>5, StartedTurn DEF Shape, StartTurn, inboxVars
<1>6. CASE PublishNext
  BY <1>6 DEF PublishNext, Shape, DrainShape
<1>7. CASE HasSteer \/ HasQueue \/ SelectQueued \/ SelectSteers
  BY <1>7 DEF HasSteer, HasQueue, SelectQueued, SelectSteers, Shape, DrainShape
<1>8. CASE \/ Published \/ Request \/ Compact \/ RecoverOverflow
           \/ FailInterruptedTools \/ CallTool \/ SettleTool
  BY <1>8 DEF Published, Request, Compact, RecoverOverflow, FailInterruptedTools,
     CallTool, SettleTool, Goto, Shape, DrainShape
<1>9. QED
  BY <1>1, <1>2, <1>3, <1>4, <1>5, <1>6, <1>7, <1>8, StepKinds DEF Plain, Reading

LEMMA NumbersStep == Shape /\ Shape' /\ Numbers /\ [Next]_vars => Numbers'
<1> SUFFICES ASSUME Shape, Shape', Numbers, [Next]_vars PROVE Numbers'
  OBVIOUS
<1>1. seq \in Nat /\ seq' \in Nat /\ drain.cutoff \in Nat
  BY DEF Shape, DrainShape
<1>2. seq <= seq'
  BY <1>1, InboxMoves DEF AdmitsRow, PromotesRow
<1>3. drain'.cutoff <= seq'
  BY <1>1, <1>2, CutoffStep DEF Numbers
<1>4. CASE UNCHANGED <<seq, input>>
  BY <1>3, <1>4 DEF Numbers, Inbox!Stored
<1>5. ASSUME NEW m \in Messages, NEW d \in Inbox!Deliveries, AdmitsRow(m, d)
      PROVE  Numbers'
  <2>1. seq' = seq + 1
    BY <1>5 DEF AdmitsRow
  <2>2. \A n \in Messages : /\ input[n].admitted \in Nat /\ input[n].promoted \in Nat
                             /\ input[n].admitted <= seq /\ input[n].promoted <= seq
    BY RowTypes DEF Numbers
  <2>3. QED
    BY <1>1, <1>3, <1>5, <2>1, <2>2, AdmittedRows DEF Numbers, Inbox!Stored
<1>6. ASSUME NEW m \in Messages, PromotesRow(m)
      PROVE  Numbers'
  <2>1. seq' = seq + 1
    BY <1>6 DEF PromotesRow
  <2>2. \A n \in Messages : /\ input[n].admitted \in Nat /\ input[n].promoted \in Nat
                             /\ input[n].admitted <= seq /\ input[n].promoted <= seq
    BY RowTypes DEF Numbers
  <2>3. QED
    BY <1>1, <1>3, <1>6, <2>1, <2>2, PromotedRows DEF Numbers, Inbox!Stored
<1>7. QED
  BY <1>4, <1>5, <1>6, InboxMoves

LEMMA NumbersInvariant == Spec => []Numbers
<1>1. Init => Numbers
  BY DEF Init, Inbox!Init, Numbers, Inbox!NoRow, Inbox!Stored, NoDrain
<1>2. QED
  BY <1>1, NumbersStep, ShapeInvariant, PTL DEF Spec

\* An admitted row keeps its number and its delivery, and a promoted one its
\* place, whatever is retried, submitted at once, stopped or cut short.
THEOREM AdmissionStands == Spec => AdmissionIsFinal
<1>1. Shape /\ [Next]_vars =>
         \A m \in Messages :
            Inbox!Stored(m) =>
              /\ input'[m].admitted = input[m].admitted
              /\ input'[m].delivery = input[m].delivery
              /\ input[m].promoted # 0 => input'[m].promoted = input[m].promoted
  <2> SUFFICES ASSUME Shape, [Next]_vars, NEW m \in Messages, Inbox!Stored(m)
               PROVE  /\ input'[m].admitted = input[m].admitted
                      /\ input'[m].delivery = input[m].delivery
                      /\ input[m].promoted # 0 => input'[m].promoted = input[m].promoted
    OBVIOUS
  <2>1. ASSUME NEW n \in Messages, NEW d \in Inbox!Deliveries, AdmitsRow(n, d)
        PROVE  input'[m] = input[m]
    BY <2>1, AdmittedRows DEF AdmitsRow
  <2>2. ASSUME NEW n \in Messages, PromotesRow(n)
        PROVE  /\ input'[m].admitted = input[m].admitted
               /\ input'[m].delivery = input[m].delivery
               /\ input[m].promoted # 0 => input'[m].promoted = input[m].promoted
    BY <2>2, PromotedRows DEF PromotesRow
  <2>3. QED
    BY <2>1, <2>2, InboxMoves
<1>2. QED
  BY <1>1, ShapeInvariant, PTL DEF Spec, AdmissionIsFinal

-----------------------------------------------------------------------------
(* The order of promotion.                                                 *)

\* Only the selections begin a promotion.
LEMMA NoBatch ==
    ASSUME Shape,
           Stopping \/ Plain \/ (\E e \in Entries : Begin(e)) \/ HasSteer
              \/ HasQueue \/ StartTurn \/ CheckSteer \/ CheckQueue
    PROVE  drain'.pc \notin {"publishQueued", "publishSteers"}
<1>1. CASE Stopping
  BY <1>1, StopFrame DEF NoDrain
<1>2. CASE \E e \in Entries : Begin(e)
  BY <1>2, Begun
<1>3. CASE FinishTurn \/ CheckSteer \/ CheckQueue
  BY <1>3, Finished, SteersChecked, QueueChecked
<1>4. CASE StartTurn
  BY <1>4, StartedTurn DEF Shape
<1>5. CASE HasSteer \/ HasQueue
  BY <1>5 DEF HasSteer, HasQueue, Shape, DrainShape
<1>6. CASE Published \/ Request \/ Compact \/ RecoverOverflow
  BY <1>6 DEF Published, Request, Compact, RecoverOverflow, Goto, Shape, DrainShape
<1>7. CASE FailInterruptedTools \/ CallTool \/ SettleTool
  BY <1>7 DEF FailInterruptedTools, CallTool, SettleTool, At, Goto, Shape, DrainShape
<1>8. QED
  BY <1>1, <1>2, <1>3, <1>4, <1>5, <1>6, <1>7 DEF Plain

\* One iteration of a promotion, on the drain.
LEMMA PublishedRow ==
    ASSUME Shape, PublishNext
    PROVE  /\ drain'.pc = drain.pc /\ drain.pc \in {"publishQueued", "publishSteers"}
           /\ drain'.cutoff = drain.cutoff /\ drain'.step = drain.step
           /\ drain'.promoted = TRUE /\ drain'.continue = drain.continue
           /\ boundary' = (boundary /\ drain.pc # "publishQueued")
           /\ \E m \in drain.rows : /\ Inbox!FirstAdmitted(drain.rows, m)
                                    /\ Inbox!ProjectPrompted(m)
                                    /\ drain'.rows = drain.rows \ {m}
                                    /\ woken' = woken \ {m}
<1>1. PICK m \in drain.rows :
         /\ Inbox!FirstAdmitted(drain.rows, m)
         /\ Inbox!ProjectPrompted(m)
         /\ drain' = [drain EXCEPT !.rows = @ \ {m}, !.promoted = TRUE]
         /\ woken' = woken \ {m}
  BY DEF PublishNext
<1>2. /\ drain'.pc = drain.pc /\ drain'.cutoff = drain.cutoff
      /\ drain'.step = drain.step /\ drain'.promoted = TRUE
      /\ drain'.continue = drain.continue /\ drain'.rows = drain.rows \ {m}
  BY <1>1 DEF Shape, DrainShape
<1>3. QED
  BY <1>1, <1>2 DEF PublishNext

\* The rows after it: one row is promoted, by this drain or before it.
LEMMA RowsAfter ==
    ASSUME Shape, NEW m \in Messages, Inbox!ProjectPrompted(m)
    PROVE  /\ input'[m].promoted # 0
           /\ \A n \in Messages : /\ input'[n].admitted = input[n].admitted
                                  /\ input'[n].delivery = input[n].delivery
                                  /\ n # m => input'[n] = input[n]
BY DEF Shape, Inbox!ProjectPrompted, Inbox!Row, Inbox!vars

LEMMA SelectedQueued ==
    ASSUME Shape, SelectQueued
    PROVE  /\ UNCHANGED <<seq, input, boundary, woken, tool>>
           /\ drain.pc = "selectQueued" /\ drain'.pc = "publishQueued"
           /\ drain'.rows = {m \in Inbox!Pending("queue") :
                               Inbox!FirstAdmitted(Inbox!Pending("queue"), m)}
           /\ drain'.cutoff = drain.cutoff /\ drain'.step = drain.step
           /\ drain'.continue = drain.continue /\ drain'.promoted = drain.promoted
BY DEF SelectQueued, Shape, DrainShape, At, inboxVars

LEMMA SelectedSteers ==
    ASSUME Shape, SelectSteers
    PROVE  /\ UNCHANGED <<seq, input, boundary, woken, tool>>
           /\ drain.pc = "selectSteers" /\ drain'.pc = "publishSteers"
           /\ drain'.rows = {m \in Inbox!Pending("steer") :
                               input[m].admitted <= drain.cutoff}
           /\ drain'.cutoff = drain.cutoff /\ drain'.step = drain.step
           /\ drain'.continue = drain.continue /\ drain'.promoted = drain.promoted
BY DEF SelectSteers, Shape, DrainShape, At, inboxVars

LEMMA BatchStep == Shape /\ Shape' /\ Numbers /\ Batch /\ [Next]_vars => Batch'
<1> SUFFICES ASSUME Shape, Shape', Numbers, Batch, [Next]_vars PROVE Batch'
  OBVIOUS
<1>1. drain.rows \subseteq Messages /\ seq \in Nat /\ drain.cutoff \in Nat
  BY DEF Shape, DrainShape
<1>2. CASE UNCHANGED <<seq, input, drain>>
  BY <1>2 DEF Batch, Mode, Inbox!Stored, Inbox!Pending
<1>3. CASE drain'.pc \notin {"publishQueued", "publishSteers"}
  BY <1>3 DEF Batch
<1>4. ASSUME NEW m \in Messages, NEW d \in Inbox!Deliveries, AdmitsRow(m, d)
      PROVE  Batch'
  <2>1. drain' = drain
    BY <1>4 DEF AdmitsRow
  <2>2. SUFFICES ASSUME drain.pc \in {"publishQueued", "publishSteers"},
                        NEW r \in drain.rows
                 PROVE  /\ input'[r].admitted # 0
                        /\ input'[r].delivery = Mode
                        /\ \A n \in Messages :
                              /\ input'[n].admitted # 0
                              /\ input'[n].delivery = Mode
                              /\ input'[n].promoted = 0
                              /\ input'[n].admitted < input'[r].admitted
                              => n \in drain.rows
    BY <2>1 DEF Batch, Mode, Inbox!Pending, Inbox!Stored
  <2>3. /\ input[r].admitted # 0 /\ input[r].delivery = Mode
        /\ \A n \in Messages :
              /\ input[n].admitted # 0
              /\ input[n].delivery = Mode
              /\ input[n].promoted = 0
              /\ input[n].admitted < input[r].admitted
              => n \in drain.rows
    BY <2>2 DEF Batch, Inbox!Pending, Inbox!Stored
  <2>4. r # m
    BY <1>4, <2>3 DEF AdmitsRow, Inbox!Stored
  <2>5. input'[r] = input[r] /\ input[r].admitted \in Nat /\ input[r].admitted <= seq
    BY <1>1, <1>4, <2>4, AdmittedRows, RowTypes DEF Numbers
  <2>6. input'[m].admitted = seq + 1 /\ \A n \in Messages \ {m} : input'[n] = input[n]
    BY <1>4, AdmittedRows
  <2>7. QED
    BY <1>1, <2>3, <2>5, <2>6
<1>5. CASE PublishNext
  <2>1. PICK m \in drain.rows : /\ Inbox!ProjectPrompted(m)
                                /\ drain'.rows = drain.rows \ {m}
    BY <1>5, PublishedRow
  <2>2. drain'.pc = drain.pc /\ Mode' = Mode
    BY <1>5, PublishedRow DEF Mode
  <2>3. /\ input'[m].promoted # 0
        /\ \A n \in Messages : /\ input'[n].admitted = input[n].admitted
                               /\ input'[n].delivery = input[n].delivery
                               /\ n # m => input'[n] = input[n]
    BY <1>1, <2>1, RowsAfter
  <2>4. QED
    BY <1>1, <2>1, <2>2, <2>3 DEF Batch, Inbox!Pending, Inbox!Stored
<1>6. CASE SelectQueued
  <2>1. \A m \in Messages : input[m].admitted \in Nat
    BY RowTypes
  <2>2. QED
    BY <1>6, <2>1, SelectedQueued
       DEF Batch, Mode, Inbox!Pending, Inbox!Stored, Inbox!FirstAdmitted
<1>7. CASE SelectSteers
  <2>1. \A m \in Messages : input[m].admitted \in Nat
    BY RowTypes
  <2>2. QED
    BY <1>1, <1>7, <2>1, SelectedSteers
       DEF Batch, Mode, Inbox!Pending, Inbox!Stored
<1>8. ASSUME NEW p \in Prompters, Admit(p) PROVE Batch'
  <2>1. drain' = drain
    BY <1>8 DEF Admit
  <2>2. \A m \in Messages : ~PromotesRow(m)
    BY <2>1, PublishedRow DEF PromotesRow
  <2>3. QED
    BY <1>2, <1>4, <2>1, <2>2, InboxMoves
<1>9. QED
  BY <1>2, <1>3, <1>5, <1>6, <1>7, <1>8, StepKinds, AsideFrame, NoBatch DEF Reading

LEMMA OrderStep ==
    Shape /\ Numbers /\ Batch /\ PromotionOrder /\ [Next]_vars => PromotionOrder'
<1> SUFFICES ASSUME Shape, Numbers, Batch, PromotionOrder, [Next]_vars
             PROVE  PromotionOrder'
  OBVIOUS
<1>1. /\ seq \in Nat
      /\ \A n \in Messages : /\ input[n].admitted \in Nat /\ input[n].promoted \in Nat
                             /\ input[n].admitted <= seq /\ input[n].promoted <= seq
  BY RowTypes DEF Shape, Numbers
<1>2. CASE UNCHANGED <<seq, input>>
  BY <1>2 DEF PromotionOrder, Inbox!Stored
<1>3. ASSUME NEW m \in Messages, NEW d \in Inbox!Deliveries, AdmitsRow(m, d)
      PROVE  PromotionOrder'
  <2>1. SUFFICES ASSUME NEW x \in Messages, NEW y \in Messages,
                        input'[x].promoted # 0, input'[y].admitted # 0,
                        input'[y].delivery = input'[x].delivery,
                        input'[y].admitted < input'[x].admitted
                 PROVE  input'[y].promoted # 0 /\ input'[y].promoted < input'[x].promoted
    BY DEF PromotionOrder, Inbox!Stored
  <2>2. x # m /\ input'[x] = input[x]
    BY <1>3, <2>1, AdmittedRows
  <2>3. y # m /\ input'[y] = input[y]
    BY <1>1, <1>3, <2>1, <2>2, AdmittedRows
  <2>4. QED
    BY <2>1, <2>2, <2>3 DEF PromotionOrder, Inbox!Stored
<1>4. ASSUME NEW m \in Messages, PromotesRow(m)
      PROVE  PromotionOrder'
  <2>1. SUFFICES ASSUME NEW x \in Messages, NEW y \in Messages,
                        input'[x].promoted # 0, input'[y].admitted # 0,
                        input'[y].delivery = input'[x].delivery,
                        input'[y].admitted < input'[x].admitted
                 PROVE  input'[y].promoted # 0 /\ input'[y].promoted < input'[x].promoted
    BY DEF PromotionOrder, Inbox!Stored
  <2>2. /\ input'[x].admitted = input[x].admitted /\ input'[y].admitted = input[y].admitted
        /\ input'[x].delivery = input[x].delivery /\ input'[y].delivery = input[y].delivery
        /\ x # m => input'[x] = input[x]
        /\ y # m => input'[y] = input[y]
    BY <1>4, PromotedRows
  <2>3. /\ m \in drain.rows /\ drain.pc \in {"publishQueued", "publishSteers"}
        /\ input[m].promoted = 0
        /\ \A n \in drain.rows : input[m].admitted <= input[n].admitted
    BY <1>4, PublishedRow DEF PromotesRow, Inbox!FirstAdmitted
  <2>4. CASE x = m
    <3>1. y # m
      BY <1>1, <2>1, <2>2, <2>4
    <3>2. y \notin drain.rows
      BY <1>1, <2>1, <2>2, <2>3, <2>4
    <3>3. input[m].delivery = Mode /\ (y \in Inbox!Pending(Mode) => y \in drain.rows)
      BY <2>1, <2>2, <2>3, <2>4 DEF Batch
    <3>4. input[y].promoted # 0
      BY <2>1, <2>2, <2>4, <3>2, <3>3 DEF Inbox!Pending, Inbox!Stored
    <3>5. input'[m].promoted = seq + 1
      BY <1>4, PromotedRows
    <3>6. QED
      BY <1>1, <2>2, <2>4, <3>1, <3>4, <3>5
  <2>5. CASE x # m
    <3>1. input[y].promoted # 0 /\ input[y].promoted < input[x].promoted
      BY <2>1, <2>2, <2>5 DEF PromotionOrder, Inbox!Stored
    <3>2. QED
      BY <2>2, <2>3, <2>5, <3>1
  <2>6. QED
    BY <2>4, <2>5
<1>5. QED
  BY <1>2, <1>3, <1>4, InboxMoves

LEMMA BatchInvariant == Spec => []Batch
<1>1. Init => Batch
  BY DEF Init, Batch, NoDrain
<1>2. QED
  BY <1>1, BatchStep, ShapeInvariant, NumbersInvariant, PTL DEF Spec

\* Prompts of one delivery mode enter the history in the order of their
\* admission, for any number of prompts and however often a promotion is cut
\* short: what is left of it is always a beginning of what is pending.
THEOREM InOrder == Spec => []PromotionOrder
<1>1. Init => PromotionOrder
  BY DEF Init, Inbox!Init, PromotionOrder, Inbox!NoRow
<1>2. QED
  BY <1>1, OrderStep, ShapeInvariant, NumbersInvariant, BatchInvariant, PTL DEF Spec

-----------------------------------------------------------------------------
(* Steering prompts and the cutoff of a request.                           *)

LEMMA SteerStep ==
    Shape /\ Shape' /\ Numbers /\ SteerInv /\ [Next]_vars => SteerInv'
<1> SUFFICES ASSUME Shape, Shape', Numbers, SteerInv, [Next]_vars PROVE SteerInv'
  OBVIOUS
<1> USE DEF SteerInv, SteersJoinTheRequest, SteersAfterCutoff
<1>1. /\ drain.rows \subseteq Messages /\ seq \in Nat /\ drain.cutoff \in Nat
      /\ drain.cutoff <= seq
      /\ \A m \in Messages : input[m].admitted \in Nat /\ input[m].admitted <= seq
      /\ drain.promotion \in {"steer", "queue", "none"}
  BY RowTypes DEF Shape, DrainShape, Numbers, Promotions
<1>2. CASE UNCHANGED <<seq, input, drain>>
  BY <1>2 DEF Inbox!Pending, Inbox!Stored
<1>3. ASSUME NEW m \in Messages, NEW d \in Inbox!Deliveries, AdmitsRow(m, d)
      PROVE  SteerInv'
  <2>1. /\ drain' = drain
        /\ input'[m].admitted = seq + 1
        /\ \A n \in Messages \ {m} : input'[n] = input[n]
    BY <1>3, AdmittedRows DEF AdmitsRow
  <2>2. QED
    BY <1>1, <2>1 DEF Inbox!Pending, Inbox!Stored
<1>4. CASE Stopping
  BY <1>4, StopFrame DEF NoDrain
<1>5. CASE \E e \in Entries : Begin(e)
  BY <1>5, Begun
<1>6. CASE FinishTurn \/ CheckSteer \/ CheckQueue
  BY <1>6, Finished, SteersChecked, QueueChecked
<1>7. CASE StartTurn
  BY <1>7, <1>1, StartedTurn DEF Shape, StartTurn, inboxVars, Inbox!Pending, Inbox!Stored
<1>8. CASE PublishNext
  <2>1. PICK m \in drain.rows : /\ Inbox!ProjectPrompted(m)
                                /\ drain'.rows = drain.rows \ {m}
    BY <1>8, PublishedRow
  <2>2. drain'.pc = drain.pc /\ drain'.cutoff = drain.cutoff
        /\ drain.pc \in {"publishQueued", "publishSteers"}
    BY <1>8, PublishedRow
  <2>3. /\ input'[m].promoted # 0
        /\ \A n \in Messages : /\ input'[n].admitted = input[n].admitted
                               /\ input'[n].delivery = input[n].delivery
                               /\ n # m => input'[n] = input[n]
    BY <1>1, <2>1, RowsAfter
  <2>4. QED
    BY <2>1, <2>2, <2>3 DEF Inbox!Pending, Inbox!Stored
<1>9. CASE SelectQueued
  BY <1>9, SelectedQueued
<1>10. CASE SelectSteers
  BY <1>10, SelectedSteers DEF Inbox!Pending, Inbox!Stored
<1>11. CASE HasSteer \/ HasQueue
  BY <1>11 DEF HasSteer, HasQueue, At, Shape, DrainShape
<1>12. CASE FailInterruptedTools
  BY <1>1, <1>12 DEF FailInterruptedTools, At, Goto, Shape, DrainShape, inboxVars,
     Inbox!Pending, Inbox!Stored
<1>13. CASE Published
  BY <1>1, <1>13 DEF Published, Shape, DrainShape, inboxVars, Inbox!Pending, Inbox!Stored
<1>14. CASE Request \/ Compact \/ RecoverOverflow
  BY <1>14 DEF Request, Compact, RecoverOverflow, At, Goto, Shape, DrainShape, inboxVars,
     Inbox!Pending, Inbox!Stored
<1>15. CASE CallTool \/ SettleTool
  BY <1>15 DEF CallTool, SettleTool, At, Shape, DrainShape, inboxVars,
     Inbox!Pending, Inbox!Stored
<1>16. CASE \E p \in Prompters : Admit(p)
  <2>1. drain' = drain
    BY <1>16 DEF Admit
  <2>2. \A m \in Messages : ~PromotesRow(m)
    BY <2>1, PublishedRow DEF PromotesRow
  <2>3. QED
    BY <1>2, <1>3, <2>1, <2>2, InboxMoves
<1>17. QED
  BY <1>2, <1>4, <1>5, <1>6, <1>7, <1>8, <1>9, <1>10, <1>11, <1>12, <1>13, <1>14,
     <1>15, <1>16, StepKinds, AsideFrame DEF Plain, Reading

LEMMA SteerInvariant == Spec => []SteerInv
<1>1. Init => SteerInv
  BY DEF Init, SteerInv, SteersJoinTheRequest, NoDrain
<1>2. QED
  BY <1>1, SteerStep, ShapeInvariant, NumbersInvariant, PTL DEF Spec

\* No request lacks a steering prompt admitted up to the cutoff of its turn,
\* for any inbox and however often the turn is rebuilt.
THEOREM RequestsHaveTheSteers == Spec => []SteersJoinTheRequest
BY SteerInvariant, PTL DEF SteerInv

-----------------------------------------------------------------------------
(* Queued prompts and the boundary between turns.                          *)

LEMMA BoundaryStep ==
    Shape /\ Shape' /\ Numbers /\ BoundaryInv /\ [Next]_vars => BoundaryInv'
<1> SUFFICES ASSUME Shape, Shape', Numbers, BoundaryInv, [Next]_vars
             PROVE  BoundaryInv'
  OBVIOUS
<1> USE DEF BoundaryInv
<1>1. CASE UNCHANGED <<drain, boundary>>
  BY <1>1
<1>2. CASE Stopping
  BY <1>2, StopFrame DEF NoDrain
<1>3. CASE \E e \in Entries : Begin(e)
  BY <1>3, Begun
<1>4. CASE FinishTurn \/ CheckSteer \/ CheckQueue
  BY <1>4, Finished, SteersChecked, QueueChecked
<1>5. CASE StartTurn
  <2>1. boundary' = boundary
    BY <1>5 DEF StartTurn
  <2>2. QED
    BY <1>5, <2>1, StartedTurn DEF Shape
<1>6. CASE PublishNext
  BY <1>6, PublishedRow
<1>7. CASE SelectQueued
  <2>1. \A m, n \in Messages :
           /\ m \in Inbox!Pending("queue") /\ n \in Inbox!Pending("queue")
           /\ Inbox!FirstAdmitted(Inbox!Pending("queue"), m)
           /\ Inbox!FirstAdmitted(Inbox!Pending("queue"), n)
           => m = n
    BY RowTypes DEF Numbers, Inbox!FirstAdmitted, Inbox!Pending
  <2>2. Inbox!Pending("queue") \subseteq Messages
    BY DEF Inbox!Pending
  <2>3. QED
    BY <1>7, <2>1, <2>2, SelectedQueued
<1>8. CASE SelectSteers
  BY <1>8, SelectedSteers
<1>9. CASE HasSteer \/ HasQueue
  BY <1>9 DEF HasSteer, HasQueue, At, Shape, DrainShape, Promotions
<1>10. CASE FailInterruptedTools \/ CallTool \/ SettleTool
  BY <1>10 DEF FailInterruptedTools, CallTool, SettleTool, At, Goto, Shape, DrainShape
<1>11. CASE Request \/ Compact \/ RecoverOverflow
  <2>1. drain'.pc = "provider" \/ (drain'.pc = "turn" /\ drain'.promotion = "none")
    BY <1>11 DEF Request, Compact, RecoverOverflow, Goto, Shape, DrainShape
  <2>2. QED
    BY <2>1
<1>12. CASE Published
  <2>1. drain'.pc \in {"selectSteers", "prepare"}
    BY <1>12 DEF Published, Shape, DrainShape
  <2>2. QED
    BY <2>1
<1>13. QED
  BY <1>1, <1>2, <1>3, <1>4, <1>5, <1>6, <1>7, <1>8, <1>9, <1>10, <1>11, <1>12,
     StepKinds, AsideFrame DEF Plain, Reading, Admit

LEMMA BoundaryInvariant == Spec => []BoundaryInv
<1>1. Init => BoundaryInv
  BY DEF Init, BoundaryInv, NoDrain
<1>2. QED
  BY <1>1, BoundaryStep, ShapeInvariant, NumbersInvariant, PTL DEF Spec

\* A queued prompt enters the history only where the model owes no
\* continuation, whatever else is promoted, woken or stopped meanwhile: the
\* selection takes one row, and no step of the drain moves from a turn that
\* owes a continuation to a selection.
THEOREM QueuedEntersAtBoundary == Spec => QueuedAtBoundary
<1>1. ASSUME Shape, Batch, BoundaryInv, [Next]_vars, NEW m \in Messages,
             input[m].delivery = "queue", input[m].promoted = 0,
             input'[m].promoted # 0
      PROVE  boundary
  <2>1. ASSUME NEW n \in Messages, NEW d \in Inbox!Deliveries, AdmitsRow(n, d)
        PROVE  FALSE
    BY <1>1, <2>1, AdmittedRows
  <2>2. PICK n \in Messages : PromotesRow(n)
    BY <1>1, <2>1, InboxMoves
  <2>3. m = n
    BY <1>1, <2>2, PromotedRows
  <2>4. m \in drain.rows /\ drain.pc \in {"publishQueued", "publishSteers"}
    BY <1>1, <2>2, <2>3, PublishedRow DEF PromotesRow
  <2>5. drain.pc = "publishQueued"
    BY <1>1, <2>4 DEF Batch, Mode
  <2>6. QED
    BY <1>1, <2>4, <2>5 DEF BoundaryInv
<1>2. Shape /\ Batch /\ BoundaryInv /\ [Next]_vars =>
         \A m \in Messages :
            /\ input[m].delivery = "queue"
            /\ input[m].promoted = 0 /\ input'[m].promoted # 0
            => boundary
  BY <1>1
<1>3. QED
  BY <1>2, ShapeInvariant, BatchInvariant, BoundaryInvariant, PTL
     DEF Spec, QueuedAtBoundary

-----------------------------------------------------------------------------
(* The step allowance.                                                     *)

LEMMA StepTypes ==
    ASSUME Shape, StepInv
    PROVE  /\ Steps \in Nat /\ Steps > 0 /\ seq \in Nat
           /\ drain.step \in Nat /\ drain.step > 0 /\ drain.step <= Steps + 1
           /\ drain.cutoff \in Nat /\ drain.rows \subseteq Messages
           /\ drain.continue \in BOOLEAN /\ drain.promoted \in BOOLEAN
           /\ \A n \in Nat : n > 0 /\ n <= Steps + 1 => n \in 1 .. (Steps + 1)
BY StepsAssumption DEF Shape, DrainShape, StepInv

\* A pending steering prompt stays one but for its promotion.
LEMMA SteersStay ==
    ASSUME Shape, NEW k \in Messages, NEW d \in Inbox!Deliveries, AdmitsRow(k, d),
           NEW m \in Inbox!Pending("steer")
    PROVE  m \in Inbox!Pending("steer")' /\ input'[m] = input[m]
BY AdmittedRows DEF AdmitsRow, Inbox!Pending, Inbox!Stored

LEMMA StepStep == Shape /\ Shape' /\ Numbers /\ StepInv /\ [Next]_vars => StepInv'
<1> SUFFICES ASSUME Shape, Shape', Numbers, StepInv, [Next]_vars PROVE StepInv'
  OBVIOUS
<1> USE DEF StepInv
<1>1. /\ Steps \in Nat /\ Steps > 0
      /\ drain.step \in Nat /\ drain.step > 0 /\ drain.step <= Steps + 1
      /\ drain.continue \in BOOLEAN /\ drain.promoted \in BOOLEAN
      /\ \A n \in Nat : n > 0 /\ n <= Steps + 1 => n \in 1 .. (Steps + 1)
  BY StepTypes
<1>2. CASE UNCHANGED <<input, drain>>
  BY <1>2 DEF Inbox!Pending, Inbox!Stored
<1>3. ASSUME NEW m \in Messages, NEW d \in Inbox!Deliveries, AdmitsRow(m, d)
      PROVE  StepInv'
  <2>1. drain' = drain
    BY <1>3 DEF AdmitsRow
  <2>2. QED
    BY <1>3, <2>1, SteersStay
<1>4. CASE Stopping
  <2>1. drain'.step = 1 /\ drain'.continue = FALSE
    BY <1>4, StopFrame DEF NoDrain
  <2>2. QED
    BY <1>1, <2>1
<1>5. CASE \E e \in Entries : Begin(e)
  <2>1. drain'.step = 1 /\ drain'.continue = FALSE
    BY <1>5, Begun
  <2>2. QED
    BY <1>1, <2>1
<1>6. CASE FinishTurn
  <2>1. drain.step <= Steps /\ (drain.continue => drain.step < Steps)
    BY <1>1, <1>6, Finished
  <2>2. drain'.continue = FALSE
    BY <1>6, Finished
  <2>3. (drain.continue /\ drain'.step = drain.step + 1) \/ drain'.step = drain.step
    BY <1>6, Finished
  <2>4. (drain.step < Steps /\ drain'.step = drain.step + 1) \/ drain'.step = drain.step
    BY <2>1, <2>3
  <2>5. drain'.step \in Nat /\ drain'.step > 0 /\ drain'.step <= Steps
    BY <1>1, <2>1, <2>4
  <2>6. QED
    BY <1>1, <2>2, <2>5
<1>7. CASE CheckSteer
  <2>1. drain.step <= Steps
    BY <1>1, <1>7, SteersChecked
  <2>2. drain'.continue = FALSE
    BY <1>7, SteersChecked
  <2>3. CASE Inbox!Pending("steer") # {}
    <3>1. /\ drain'.pc = "turn" /\ drain'.promotion = "steer"
          /\ drain'.step = drain.step + 1 /\ Inbox!Pending("steer")' # {}
      BY <1>7, <2>3, SteersChecked DEF Inbox!Pending, Inbox!Stored
    <3>2. QED
      BY <1>1, <2>1, <2>2, <3>1
  <2>4. CASE Inbox!Pending("steer") = {}
    <3>1. drain'.step = drain.step
      BY <1>7, <2>4, SteersChecked
    <3>2. QED
      BY <1>1, <2>1, <2>2, <3>1
  <2>5. QED
    BY <2>3, <2>4
<1>8. CASE CheckQueue
  <2>1. drain'.continue = FALSE /\ (drain'.step = 1 \/ drain'.step = drain.step)
    BY <1>8, QueueChecked
  <2>2. drain.step <= Steps
    BY <1>1, <1>8, QueueChecked
  <2>3. QED
    BY <1>1, <2>1, <2>2
<1>9. CASE StartTurn
  <2>1. /\ drain'.step = drain.step /\ drain'.continue = drain.continue
        /\ drain.pc = "turn" /\ UNCHANGED <<seq, input>>
    BY <1>9, StartedTurn DEF Shape, StartTurn, inboxVars
  <2>2. ASSUME drain.promotion = "steer", Inbox!Pending("steer") # {}
        PROVE  /\ drain'.pc = "selectSteers"
               /\ \E m \in Inbox!Pending("steer")' : input'[m].admitted <= drain'.cutoff
    <3>1. drain'.pc = "selectSteers" /\ drain'.cutoff = seq
      BY <1>9, <2>2, StartedTurn DEF Shape
    <3>2. QED
      BY <2>1, <2>2, <3>1 DEF Numbers, Inbox!Pending, Inbox!Stored
  <2>3. QED
    BY <1>1, <2>1, <2>2
<1>10. CASE PublishNext
  BY <1>1, <1>10, PublishedRow
<1>11. CASE SelectQueued
  BY <1>1, <1>11, SelectedQueued
<1>12. CASE SelectSteers
  <2>1. /\ drain'.step = drain.step /\ drain'.continue = drain.continue
        /\ drain.pc = "selectSteers" /\ drain'.pc = "publishSteers"
        /\ drain'.rows = {m \in Inbox!Pending("steer") :
                            input[m].admitted <= drain.cutoff}
    BY <1>12, SelectedSteers
  <2>2. QED
    BY <1>1, <2>1
<1>13. CASE Published
  <2>1. /\ drain.rows = {} /\ drain.pc \in {"publishQueued", "publishSteers"}
        /\ drain'.continue = drain.continue
        /\ drain'.step = IF drain.pc = "publishSteers" /\ drain.promoted THEN 1
                         ELSE drain.step
    BY <1>13 DEF Published, Shape, DrainShape
  <2>2. ~drain.continue /\ drain'.step <= Steps /\ drain'.step \in Nat /\ drain'.step > 0
    BY <1>1, <2>1
  <2>3. QED
    BY <1>1, <2>1, <2>2
<1>14. CASE HasSteer \/ HasQueue \/ FailInterruptedTools \/ Request
              \/ Compact \/ RecoverOverflow
  <2>1. drain'.step = drain.step /\ drain'.continue = drain.continue
    BY <1>14 DEF HasSteer, HasQueue, FailInterruptedTools, Request, Compact,
       RecoverOverflow, Goto, Shape, DrainShape
  <2>2. drain.pc \in {"hasSteer", "hasQueue", "failTools", "prepare", "provider"}
    BY <1>14 DEF HasSteer, HasQueue, FailInterruptedTools, Request, Compact,
       RecoverOverflow, At
  <2>3. ~drain.continue
    BY <1>14, <2>2 DEF HasSteer, HasQueue, FailInterruptedTools, Request, Compact,
       RecoverOverflow, At
  <2>4. QED
    BY <1>1, <2>1, <2>2, <2>3
<1>15. CASE CallTool \/ SettleTool
  <2>1. /\ drain'.step = drain.step /\ drain'.pc = drain.pc
        /\ drain'.continue => drain.continue \/ drain.step < Steps
        /\ drain.pc = "provider"
    BY <1>15 DEF CallTool, SettleTool, At, Shape, DrainShape
  <2>2. QED
    BY <1>1, <2>1
<1>16. CASE \E p \in Prompters : Admit(p)
  <2>1. drain' = drain
    BY <1>16 DEF Admit
  <2>2. \A m \in Messages : ~PromotesRow(m)
    BY <2>1, PublishedRow DEF PromotesRow
  <2>3. QED
    BY <1>2, <1>3, <2>1, <2>2, InboxMoves
<1>17. QED
  BY <1>2, <1>4, <1>5, <1>6, <1>7, <1>8, <1>9, <1>10, <1>11, <1>12, <1>13, <1>14,
     <1>15, <1>16, StepKinds, AsideFrame DEF Plain, Reading

LEMMA StepInvariant == Spec => []StepInv
<1>1. Init => StepInv
  BY StepsAssumption DEF Init, StepInv, NoDrain
<1>2. QED
  BY <1>1, StepStep, ShapeInvariant, NumbersInvariant, PTL DEF Spec

\* No provider turn exceeds the allowance, for any allowance: a step beyond it
\* is entered only for a steering prompt up to the cutoff, whose promotion
\* renews the allowance before the request is made.
THEOREM WithinAllowance == Spec => []StepBound
<1>1. Shape /\ StepInv => StepBound
  BY StepTypes DEF StepInv, StepBound
<1>2. QED
  BY <1>1, StepInvariant, ShapeInvariant, PTL

\* Every variable keeps its type, the coordinator's among them.
THEOREM TypesHold == Spec => []TypeOK
<1>1. Shape /\ StepInv /\ RP!IInv => TypeOK
  BY SameCoordinator
     DEF Shape, StepInv, RP!IInv, TypeOK, Inbox!TypeOK, DrainShape, Drain
<1>2. QED
  BY <1>1, ShapeInvariant, StepInvariant, CoordinatorInvariant, PTL

-----------------------------------------------------------------------------
(* The memory of wakes.                                                    *)

\* Everything in the coordinator is about the one session: an entry in use is
\* the active one.
LEMMA ActiveEntry ==
    RP!IInv =>
      /\ active \in [{Session} -> Entries \cup {None}]
      /\ entry \in [Entries -> RP!Entry \cup {RP!Unused}]
      /\ \A e \in Entries :
            entry[e].phase # "unused" => active[Session] = e /\ entry[e].key = Session
      /\ active[Session] # None => /\ active[Session] \in Entries
                                   /\ entry[active[Session]].phase # "unused"
<1> HAVE RP!IInv
<1>1. RP!TypeOK /\ RP!ActiveIffLive
  BY DEF RP!IInv
<1>2. \A e \in Entries : entry[e].phase # "unused" <=> RP!Live(e)
  BY <1>1 DEF RP!TypeOK, RP!Live, RP!Entry, RP!Unused
<1>3. \A e \in Entries : RP!Live(e) => entry[e].key = Session
  BY <1>1 DEF RP!TypeOK, RP!Live, RP!Entry
<1>4. active[Session] \in Entries \cup {None}
  BY <1>1 DEF RP!TypeOK
<1>5. \A e \in Entries : active[Session] = e <=> RP!Live(e) /\ entry[e].key = Session
  BY <1>1 DEF RP!ActiveIffLive
<1>6. QED
  BY <1>1, <1>2, <1>3, <1>4, <1>5 DEF RP!TypeOK

\* Rows are not forgotten.
LEMMA StoredStays ==
    ASSUME Shape, [Next]_vars, NEW m \in Messages, Inbox!Stored(m)
    PROVE  input'[m].admitted # 0 /\ input'[m].delivery = input[m].delivery
<1>1. ASSUME NEW n \in Messages, NEW d \in Inbox!Deliveries, AdmitsRow(n, d)
      PROVE  input'[m] = input[m]
  BY <1>1, AdmittedRows DEF AdmitsRow
<1>2. QED
  BY <1>1, InboxMoves, PromotedRows DEF Inbox!Stored

\* A call of prompt() under way is about a message.
LEMMA PromptTypes ==
    ASSUME Shape, NEW p \in Prompters, prompter[p].pc \in {"publish", "check"}
    PROVE  prompter[p].msg \in Messages /\ prompter[p].delivery \in Inbox!Deliveries
<1>1. prompter[p] \in Prompt /\ prompter[p] # IdlePrompt
  BY DEF Shape, IdlePrompt
<1>2. QED
  BY <1>1 DEF Prompt

LEMMA FoundStep == Shape /\ Found /\ [Next]_vars => Found'
<1> SUFFICES ASSUME Shape, Found, [Next]_vars, NEW p \in Prompters,
                    prompter'[p].pc = "check"
             PROVE  input'[prompter'[p].msg].admitted # 0
  BY DEF Found, Inbox!Stored
<1>0. prompter \in [Prompters -> Prompt] /\ IdlePrompt.pc = "idle"
  BY DEF Shape, IdlePrompt
<1>1. CASE prompter'[p] = prompter[p]
  <2>1. prompter[p].msg \in Messages /\ Inbox!Stored(prompter[p].msg)
    BY <1>1, PromptTypes DEF Found
  <2>2. QED
    BY <1>1, <2>1, StoredStays
<1>2. ASSUME NEW q \in Prompters, NEW m \in Messages, NEW d \in Inbox!Deliveries,
             Find(q, m, d), prompter'[p] # prompter[p]
      PROVE  input'[prompter'[p].msg].admitted # 0
  <2>1. q = p /\ prompter'[p].msg = m /\ Inbox!Stored(m)
    BY <1>0, <1>2 DEF Find
  <2>2. QED
    BY <2>1, StoredStays
<1>3. ASSUME NEW q \in Prompters, Admit(q), prompter'[p] # prompter[p]
      PROVE  input'[prompter'[p].msg].admitted # 0
  <2>1. q = p /\ prompter' = [prompter EXCEPT ![p].pc = "check"]
    BY <1>0, <1>3 DEF Admit
  <2>2. prompter[p] # IdlePrompt /\ prompter[p] \in Prompt /\ prompter[p].pc = "publish"
    BY <1>0, <1>3, <2>1 DEF Admit
  <2>3. prompter'[p].msg = prompter[p].msg
    BY <1>0, <2>1, <2>2 DEF Prompt
  <2>4. prompter[p].msg \in Messages
    BY <2>2, PromptTypes
  <2>5. CASE Inbox!Stored(prompter[p].msg)
    BY <2>3, <2>4, <2>5, StoredStays
  <2>6. CASE ~Inbox!Stored(prompter[p].msg)
    <3>1. input'[prompter[p].msg].admitted = seq + 1 /\ seq \in Nat
      BY <1>3, <2>1, <2>4, <2>6 DEF Admit, Shape, Inbox!ProjectAdmitted
    <3>2. QED
      BY <2>3, <3>1
  <2>7. QED
    BY <2>5, <2>6
<1>4. ASSUME NEW q \in Prompters, Reject(q) \/ Record(q) \/ WakePrompt(q),
             prompter'[p] # prompter[p]
      PROVE  FALSE
  BY <1>0, <1>4 DEF Reject, Record, WakePrompt
<1>5. ASSUME Stopping, prompter'[p] # prompter[p]
      PROVE  FALSE
  BY <1>0, <1>5 DEF Stopping, RefuseTurn, FailTurn, DismissQuestion, Return, NoticeStop,
     Crash
<1>6. ASSUME Plain PROVE prompter' = prompter
  BY <1>6 DEF Plain, FailInterruptedTools, Published, Request, Compact,
     RecoverOverflow, CallTool, SettleTool, FinishTurn
<1>7. ASSUME Reading PROVE prompter' = prompter
  BY <1>7 DEF Reading, HasSteer, HasQueue, StartTurn, SelectQueued, SelectSteers,
     CheckSteer, CheckQueue
<1>8. PublishNext => prompter' = prompter
  BY DEF PublishNext
<1>9. ASSUME \/ \E c \in Callers : Resume(c) \/ Interrupt(c) \/ Caller(c)
             \/ \E e \in Entries : Skip(e) \/ Settle(e)
             \/ UNCHANGED vars
      PROVE  prompter' = prompter
  BY <1>9 DEF Resume, Interrupt, Caller, Skip, Settle, vars
<1>10. QED
  BY <1>1, <1>2, <1>3, <1>4, <1>5, <1>6, <1>7, <1>8, <1>9, StepKinds, Begun DEF Aside

LEMMA WokenStep ==
    Shape /\ Found /\ WokenPending /\ [Next]_vars => WokenPending'
<1> SUFFICES ASSUME Shape, Found, WokenPending, [Next]_vars PROVE WokenPending'
  OBVIOUS
<1>1. woken \subseteq Messages
  BY DEF Shape
<1>2. CASE woken' \subseteq woken /\ UNCHANGED input
  BY <1>2 DEF WokenPending, Inbox!Stored
<1>3. ASSUME NEW p \in Prompters, WakePrompt(p)
      PROVE  WokenPending'
  <2>1. /\ input' = input /\ prompter[p].pc = "check"
        /\ woken' = woken \cup {m \in {prompter[p].msg} : input[m].promoted = 0}
    BY <1>3 DEF WakePrompt, inboxVars
  <2>2. QED
    BY <2>1 DEF WokenPending, Found, Inbox!Stored
<1>4. ASSUME NEW n \in Messages, NEW d \in Inbox!Deliveries, AdmitsRow(n, d)
      PROVE  WokenPending'
  <2>1. woken' = woken /\ ~Inbox!Stored(n)
    BY <1>4 DEF AdmitsRow
  <2>2. \A m \in woken : input'[m] = input[m]
    BY <1>1, <1>4, <2>1, AdmittedRows DEF WokenPending, Inbox!Stored
  <2>3. QED
    BY <2>1, <2>2 DEF WokenPending, Inbox!Stored
<1>5. CASE PublishNext
  <2>1. PICK n \in drain.rows : Inbox!ProjectPrompted(n) /\ woken' = woken \ {n}
    BY <1>5, PublishedRow
  <2>2. n \in Messages
    BY <2>1 DEF Shape, DrainShape
  <2>3. \A m \in woken' : m \in woken /\ input'[m] = input[m]
    BY <1>1, <2>1, <2>2, RowsAfter
  <2>4. QED
    BY <2>3 DEF WokenPending, Inbox!Stored
<1>6. ASSUME Plain PROVE woken' = woken /\ UNCHANGED input
  BY <1>6 DEF Plain, FailInterruptedTools, Published, Request, Compact,
     RecoverOverflow, CallTool, SettleTool, FinishTurn, inboxVars
<1>7. ASSUME Reading \/ \E e \in Entries : Begin(e)
      PROVE  woken' = woken /\ UNCHANGED input
  BY <1>7, Begun DEF Reading, HasSteer, HasQueue, StartTurn, SelectQueued,
     SelectSteers, CheckSteer, CheckQueue, inboxVars
<1>8. ASSUME Stopping PROVE woken' \subseteq woken /\ UNCHANGED input
  BY <1>8 DEF Stopping, RefuseTurn, FailTurn, DismissQuestion, Return, NoticeStop,
     Crash, inboxVars
<1>9. ASSUME Aside, \A p \in Prompters : ~WakePrompt(p)
      PROVE  woken' \subseteq woken /\ UNCHANGED input
  BY <1>9 DEF Aside, Find, Reject, Record, Resume, Interrupt, Caller, Skip, Settle,
     vars, inboxVars
<1>10. ASSUME NEW p \in Prompters, Admit(p)
      PROVE  WokenPending'
  <2>1. drain' = drain /\ woken' = woken
    BY <1>10 DEF Admit
  <2>2. \A m \in Messages : ~PromotesRow(m)
    BY <2>1, PublishedRow DEF PromotesRow
  <2>3. QED
    BY <1>2, <1>4, <2>1, <2>2, InboxMoves
<1>11. QED
  BY <1>2, <1>3, <1>5, <1>6, <1>7, <1>8, <1>9, <1>10, StepKinds

\* What a coordinator must look like after a step for the wakes to be safe.
Safe == OwnDrain /\ Remembered

\* An active entry that has not begun its drain is safe, and so is an idle
\* session without woken prompts.
DrainToCome == active[Session] # None /\ entry[active[Session]].phase = "forked"
NothingLeft == active[Session] = None /\ woken = {}

LEMMA ForkedIsSafe == RP!IInv /\ DrainToCome => Safe
BY ActiveEntry DEF DrainToCome, Safe, OwnDrain, Remembered

LEMMA IdleIsSafe == RP!IInv /\ NothingLeft => Safe
BY ActiveEntry, NoneAssumption DEF NothingLeft, Safe, OwnDrain, Remembered

\* Calls of resume() and interrupt(), and the wake of a prompt.
LEMMA CallsAreSafe ==
    ASSUME Shape, RP!IInv, RP!IInv', Safe,
           \/ \E p \in Prompters : WakePrompt(p)
           \/ \E c \in Callers : Resume(c) \/ Interrupt(c) \/ Caller(c)
    PROVE  Safe'
<1>1. /\ active \in [{Session} -> Entries \cup {None}]
      /\ entry \in [Entries -> RP!Entry \cup {RP!Unused}]
      /\ \A e \in Entries :
            entry[e].phase # "unused" => active[Session] = e /\ entry[e].key = Session
      /\ active[Session] # None => /\ active[Session] \in Entries
                                   /\ entry[active[Session]].phase # "unused"
  BY ActiveEntry
<1>2. DrainToCome' => Safe'
  BY ForkedIsSafe, PTL
<1>3. CASE UNCHANGED <<active, entry, drain, input, woken>>
  BY <1>3 DEF Safe, OwnDrain, Remembered, DrainSees
<1>4. ASSUME NEW e \in Entries, NEW b \in BOOLEAN,
             active' = [active EXCEPT ![Session] = e],
             entry' = [entry EXCEPT ![e] = RC!Started(Session, b)]
      PROVE  Safe'
  <2>1. active'[Session] = e /\ entry'[e].phase = "forked"
    BY <1>1, <1>4 DEF RC!Started, RC!Unused
  <2>2. QED
    BY <1>2, <2>1, NoneAssumption DEF DrainToCome
<1>5. ASSUME NEW p \in Prompters, WakePrompt(p) PROVE Safe'
  <2>1. CASE RC!StartUnforced(Session)
    BY <1>4, <2>1 DEF RC!StartUnforced
  <2>2. CASE RC!MarkPending(Session)
    <3>1. /\ active[Session] \in Entries /\ active' = active
          /\ entry' = [entry EXCEPT ![active[Session]].pendingWake = TRUE]
          /\ drain' = drain
      BY <1>1, <1>5, <2>2 DEF RC!MarkPending, WakePrompt
    <3>2. /\ entry'[active[Session]].pendingWake = TRUE
          /\ \A e \in Entries : entry'[e].phase = entry[e].phase
      BY <1>1, <3>1 DEF RP!Entry, RP!Unused
    <3>3. QED
      BY <3>1, <3>2, NoneAssumption DEF Safe, OwnDrain, Remembered
  <2>3. QED
    BY <1>5, <2>1, <2>2 DEF WakePrompt, RC!Wake
<1>6. ASSUME NEW c \in Callers, Resume(c) \/ Caller(c) PROVE Safe'
  <2>1. /\ UNCHANGED <<drain, input, woken>>
        /\ RC!RunBody(c, Session) \/ RC!RunBody(c, caller[c].on) \/ UNCHANGED <<active, entry>>
        /\ Caller(c) => caller[c].pc = "again" \/ UNCHANGED <<active, entry>>
    BY <1>6 DEF Resume, Caller, RC!Run, RC!Rerun, RC!Abandon, inboxVars
  <2>2. caller[c].pc = "again" => caller[c].on = Session
    BY DEF RP!IInv, RP!TypeOK, RP!Caller
  <2>3. RC!RunBody(c, Session) \/ UNCHANGED <<active, entry>>
    BY <1>6, <2>1, <2>2 DEF Resume, Caller, RC!Run, RC!Rerun, RC!Abandon
  <2>4. UNCHANGED <<active, entry>> \/ RC!StartForced(c, Session)
    BY <2>3 DEF RC!RunBody, RC!JoinActive, RC!AwaitStopping
  <2>5. QED
    BY <1>3, <1>4, <2>1, <2>4 DEF RC!StartForced
<1>7. ASSUME NEW c \in Callers, Interrupt(c) PROVE Safe'
  <2>1. /\ active[Session] \in Entries /\ active' = active
        /\ entry' = [entry EXCEPT ![active[Session]].stopping = TRUE,
                                  ![active[Session]].pendingWake = FALSE]
        /\ woken' = {} /\ drain' = drain /\ input' = input
    BY <1>1, <1>7 DEF Interrupt, RC!Interrupt, inboxVars
  <2>2. \A e \in Entries : entry'[e].phase = entry[e].phase
    BY <1>1, <2>1 DEF RP!Entry, RP!Unused
  <2>3. QED
    BY <2>1, <2>2, NoneAssumption DEF Safe, OwnDrain, Remembered, DrainSees
<1>8. QED
  BY <1>5, <1>6, <1>7

\* The owner begins a drain, skips it or settles.
LEMMA OwnerIsSafe ==
    ASSUME Shape, RP!IInv, RP!IInv', Safe, NEW e \in Entries,
           Begin(e) \/ Skip(e) \/ Settle(e)
    PROVE  Safe'
<1>1. /\ active \in [{Session} -> Entries \cup {None}]
      /\ entry \in [Entries -> RP!Entry \cup {RP!Unused}]
      /\ \A f \in Entries :
            entry[f].phase # "unused" => active[Session] = f /\ entry[f].key = Session
  BY ActiveEntry
<1>2. DrainToCome' => Safe'
  BY ForkedIsSafe, PTL
<1>3. active[Session] = e /\ entry[e].key = Session /\ entry[e] \in RP!Entry
  <2>1. Settle(e) => entry[e].phase = "exiting"
    BY DEF Settle, RC!Settle, RC!Restart, RC!Succeed, RC!Retire
  <2>2. entry[e].phase \in {"forked", "exiting"}
    BY <2>1 DEF Begin, Skip, RC!BeginDrain, RC!SkipDrain
  <2>3. QED
    BY <1>1, <2>2 DEF RP!Unused
<1>4. CASE Begin(e)
  <2>1. /\ active' = active /\ entry' = [entry EXCEPT ![e].phase = "draining"]
        /\ drain'.pc = "hasSteer" /\ drain'.owner = e
    BY <1>4 DEF Begin, RC!BeginDrain, NoDrain
  <2>2. /\ entry'[e].phase = "draining"
        /\ \A f \in Entries : f # e => entry'[f].phase # "draining"
    BY <1>1, <1>3, <2>1 DEF RP!Entry
  <2>3. QED
    BY <1>3, <2>1, <2>2, NoneAssumption DEF Safe, OwnDrain, Remembered, DrainSees
<1>5. CASE Skip(e)
  <2>1. /\ active' = active /\ drain' = drain
        /\ entry' = [entry EXCEPT ![e].phase = "exiting", ![e].exit = "interrupt"]
    BY <1>5 DEF Skip, RC!SkipDrain
  <2>2. /\ entry'[e].phase = "exiting" /\ entry'[e].exit = "interrupt"
        /\ \A f \in Entries : f # e => entry'[f].phase # "draining"
    BY <1>1, <1>3, <2>1 DEF RP!Entry
  <2>3. QED
    BY <1>3, <2>1, <2>2, NoneAssumption DEF Safe, OwnDrain, Remembered, DrainSees
<1>6. CASE Settle(e) /\ RC!Restart(e)
  <2>1. active' = active /\ entry'[e].phase = "forked"
    BY <1>1, <1>3, <1>6 DEF RC!Restart, RP!Entry
  <2>2. QED
    BY <1>2, <1>3, <2>1, NoneAssumption DEF DrainToCome
<1>7. CASE Settle(e) /\ RC!Succeed(e)
  <2>1. PICK n \in Entries :
           /\ RC!Free(n)
           /\ active' = [active EXCEPT ![entry[e].key] = n]
           /\ entry' = [entry EXCEPT ![n] = RC!Started(entry[e].key, FALSE),
                                     ![e] = RC!Unused]
    BY <1>7 DEF RC!Succeed
  <2>2. n # e
    BY <1>3, <2>1 DEF RC!Free, RC!Live, RC!Unused, RP!Entry
  <2>3. active'[Session] = n /\ entry'[n].phase = "forked"
    BY <1>1, <1>3, <2>1, <2>2 DEF RC!Started, RC!Unused
  <2>4. QED
    BY <1>2, <2>3, NoneAssumption DEF DrainToCome
<1>8. CASE Settle(e) /\ RC!Retire(e)
  <2>1. active'[Session] = None
    BY <1>1, <1>3, <1>8 DEF RC!Retire
  <2>2. entry[e].phase = "exiting" /\ ~entry[e].pendingWake
    BY <1>8 DEF RC!Retire
  <2>3. entry[e].exit = "success" => woken = {}
    BY <1>3, <2>2, NoneAssumption DEF Safe, Remembered
  <2>4. woken' = {}
    BY <1>8, <2>2, <2>3 DEF Settle
  <2>5. NothingLeft' => Safe'
    BY IdleIsSafe, PTL
  <2>6. QED
    BY <2>1, <2>4, <2>5 DEF NothingLeft
<1>9. QED
  BY <1>4, <1>5, <1>6, <1>7, <1>8 DEF Settle, RC!Settle

\* The drain ends: only its return is a success, and it returns after it has
\* seen that nothing is left to serve.
LEMMA EndsAreSafe ==
    ASSUME Shape, RP!IInv, RP!IInv', Safe, Stopping
    PROVE  Safe'
<1>1. CASE Crash
  <2>1. NothingLeft'
    BY <1>1 DEF Crash, NothingLeft
  <2>2. QED
    BY <2>1, IdleIsSafe, PTL
<1>2. CASE RefuseTurn \/ FailTurn \/ DismissQuestion \/ Return \/ NoticeStop
  <2>1. PICK x \in {"interrupt", "failure", "success"} :
           /\ End(x)
           /\ x = "success" => Return
    BY <1>2 DEF RefuseTurn, FailTurn, DismissQuestion, Return, NoticeStop
  <2>2. /\ active' = active /\ woken' = woken
        /\ Return => drain.pc = "return"
    BY <1>2 DEF RefuseTurn, FailTurn, DismissQuestion, Return, NoticeStop, At
  <2>3. drain.owner \in Entries
    BY <1>2, Owned DEF RefuseTurn, FailTurn, DismissQuestion, Return, NoticeStop, At, Shape
  <2>4. /\ active \in [{Session} -> Entries \cup {None}]
        /\ entry \in [Entries -> RP!Entry \cup {RP!Unused}]
        /\ \A f \in Entries :
              entry[f].phase # "unused" => active[Session] = f /\ entry[f].key = Session
    BY ActiveEntry
  <2>5. /\ entry[drain.owner].phase = "draining"
        /\ \E y \in RC!Exits : entry' = [entry EXCEPT ![drain.owner].phase = "exiting",
                                                      ![drain.owner].exit = y]
        /\ entry'[drain.owner].exit = x
    BY <2>1 DEF End, RC!EndDrain
  <2>6. active[Session] = drain.owner /\ entry[drain.owner] \in RP!Entry
    BY <2>3, <2>4, <2>5 DEF RP!Unused
  <2>7. /\ entry'[drain.owner].phase = "exiting"
        /\ entry'[drain.owner].pendingWake = entry[drain.owner].pendingWake
        /\ \A f \in Entries : f # drain.owner => entry'[f] = entry[f]
    BY <2>3, <2>4, <2>5, <2>6 DEF RP!Entry
  <2>8. \A f \in Entries : entry'[f].phase # "draining"
    BY <2>4, <2>6, <2>7
  <2>9. Return /\ ~entry[drain.owner].pendingWake => woken = {}
    BY <2>2, <2>3, <2>5, <2>6, NoneAssumption DEF Safe, Remembered, DrainSees
  <2>10. QED
    BY <2>1, <2>2, <2>3, <2>5, <2>6, <2>7, <2>8, <2>9, NoneAssumption
       DEF Safe, OwnDrain, Remembered
<1>3. QED
  BY <1>1, <1>2 DEF Stopping

\* What the drain does between its begin and its end: a look at the inbox that
\* finds nothing leaves nothing woken behind.
LEMMA WorkSees ==
    ASSUME Shape, Shape', WokenPending, DrainSees, Plain \/ Reading \/ PublishNext
    PROVE  DrainSees'
<1>1. \A m \in woken : /\ m \in Messages
                       /\ m \in Inbox!Pending(input[m].delivery)
                       /\ input[m].delivery \in {"steer", "queue"}
  BY RowTypes DEF WokenPending, Inbox!Pending, Shape
<1>2. CASE drain'.pc \notin {"hasQueue", "checkQueue", "return"}
  BY <1>2 DEF DrainSees
<1>3. CASE HasSteer \/ CheckSteer
  <2>1. UNCHANGED <<input, woken>>
    BY <1>3 DEF HasSteer, CheckSteer, inboxVars
  <2>2. drain'.pc \in {"hasQueue", "checkQueue"} => Inbox!Pending("steer") = {}
    BY <1>3, SteersChecked DEF HasSteer, Shape, DrainShape
  <2>3. drain'.pc # "return"
    BY <1>3, SteersChecked DEF HasSteer, Shape, DrainShape
  <2>4. QED
    BY <1>1, <2>1, <2>2, <2>3 DEF DrainSees
<1>4. CASE HasQueue \/ CheckQueue
  <2>1. UNCHANGED <<input, woken>> /\ drain.pc \in {"hasQueue", "checkQueue"}
    BY <1>4 DEF HasQueue, CheckQueue, inboxVars, At
  <2>2. drain'.pc = "return" => Inbox!Pending("queue") = {}
    BY <1>4, QueueChecked DEF HasQueue, Shape, DrainShape
  <2>3. drain'.pc \notin {"hasQueue", "checkQueue"}
    BY <1>4, QueueChecked DEF HasQueue, Shape, DrainShape
  <2>4. QED
    BY <1>1, <2>1, <2>2, <2>3 DEF DrainSees
<1>5. CASE FinishTurn \/ StartTurn
  <2>1. drain'.pc \notin {"hasQueue", "checkQueue", "return"}
    BY <1>5, Finished, StartedTurn DEF Shape
  <2>2. QED
    BY <1>2, <2>1
<1>6. CASE SelectQueued \/ SelectSteers \/ PublishNext
  BY <1>2, <1>6, SelectedQueued, SelectedSteers, PublishedRow
<1>7. CASE FailInterruptedTools \/ Published \/ Request \/ Compact \/ RecoverOverflow
  <2>1. drain'.pc \notin {"hasQueue", "checkQueue", "return"}
    BY <1>7 DEF FailInterruptedTools, Published, Request, Compact, RecoverOverflow,
       Goto, Shape, DrainShape
  <2>2. QED
    BY <1>2, <2>1
<1>8. CASE CallTool \/ SettleTool
  <2>1. drain'.pc = "provider"
    BY <1>8 DEF CallTool, SettleTool, At, Shape, DrainShape
  <2>2. QED
    BY <1>2, <2>1
<1>9. QED
  BY <1>3, <1>4, <1>5, <1>6, <1>7, <1>8 DEF Plain, Reading

LEMMA WorkIsSafe ==
    ASSUME Shape, Shape', WokenPending, Safe, Plain \/ Reading \/ PublishNext
    PROVE  Safe'
<1>1. active' = active /\ entry' = entry /\ woken' \subseteq woken
  <2>1. CASE Plain
    BY <2>1 DEF Plain, FailInterruptedTools, Published, Request, Compact,
       RecoverOverflow, CallTool, SettleTool, FinishTurn, coordVars
  <2>2. CASE Reading
    BY <2>2 DEF Reading, HasSteer, HasQueue, StartTurn, SelectQueued, SelectSteers,
       CheckSteer, CheckQueue, coordVars
  <2>3. PublishNext => active' = active /\ entry' = entry
    BY DEF PublishNext, coordVars
  <2>4. QED
    BY <2>1, <2>2, <2>3, PublishedRow
<1>2. drain'.owner = drain.owner
  BY OwnerKept DEF Shape
<1>3. DrainSees => DrainSees'
  BY WorkSees
<1>4. QED
  BY <1>1, <1>2, <1>3 DEF Safe, OwnDrain, Remembered

\* A new row is nobody's woken prompt yet.
LEMMA AsideIsSafe ==
    ASSUME Shape, WokenPending, Safe,
           UNCHANGED <<active, entry, drain, woken>>,
           \A m \in woken : input'[m] = input[m]
    PROVE  Safe'
BY DEF Safe, OwnDrain, Remembered, DrainSees

LEMMA WakeStep ==
    Shape /\ Shape' /\ RP!IInv /\ RP!IInv' /\ WakeInv /\ [Next]_vars => WakeInv'
<1> SUFFICES ASSUME Shape, Shape', RP!IInv, RP!IInv', WakeInv, [Next]_vars
             PROVE  WakeInv'
  OBVIOUS
<1>1. Found /\ WokenPending /\ Safe
  BY DEF WakeInv, Safe
<1>2. Found' /\ WokenPending'
  BY <1>1, FoundStep, WokenStep
<1>3. Safe'
  <2>1. CASE Aside
    <3>1. CASE UNCHANGED <<active, entry, drain, woken, input>>
      BY <1>1, <3>1, AsideIsSafe
    <3>2. CASE \E e \in Entries : Skip(e) \/ Settle(e)
      BY <1>1, <3>2, OwnerIsSafe
    <3>3. CASE \/ \E p \in Prompters : WakePrompt(p)
               \/ \E c \in Callers : Resume(c) \/ Interrupt(c) \/ Caller(c)
      BY <1>1, <3>3, CallsAreSafe
    <3>4. QED
      BY <2>1, <3>1, <3>2, <3>3 DEF Aside, Find, Reject, Record, vars, coordVars, inboxVars
  <2>2. CASE Stopping
    BY <1>1, <2>2, EndsAreSafe
  <2>3. CASE Plain \/ Reading \/ PublishNext
    BY <1>1, <2>3, WorkIsSafe
  <2>4. CASE \E e \in Entries : Begin(e)
    BY <1>1, <2>4, OwnerIsSafe
  <2>5. CASE \E p \in Prompters : Admit(p)
    <3>1. UNCHANGED <<active, entry, drain, woken>>
      BY <2>5 DEF Admit, coordVars
    <3>2. \A m \in Messages : ~PromotesRow(m)
      BY <3>1, PublishedRow DEF PromotesRow
    <3>3. \A m \in woken : m \in Messages /\ Inbox!Stored(m)
      BY <1>1 DEF WokenPending, Shape
    <3>4. \A m \in woken : input'[m] = input[m]
      BY <3>2, <3>3, InboxMoves, AdmittedRows DEF AdmitsRow
    <3>5. QED
      BY <1>1, <3>1, <3>4, AsideIsSafe
  <2>6. QED
    BY <2>1, <2>2, <2>3, <2>4, <2>5, StepKinds
<1>4. QED
  BY <1>2, <1>3 DEF WakeInv, Safe

LEMMA WakeInvariant == Spec => []WakeInv
<1>1. Init => WakeInv
  BY DEF Init, RC!Init, RC!Unused, WakeInv, Found, OwnDrain, WokenPending, Remembered,
     IdlePrompt
<1>2. QED
  BY <1>1, WakeStep, ShapeInvariant, CoordinatorInvariant, PTL DEF Spec

\* A session is never idle while a prompt whose wake came through is pending,
\* for any number of clients and however wakes, stops, failures and crashes
\* interleave with the looks of the drain at the inbox.
THEOREM IdleLeavesNothing == Spec => []NothingLeftWhenIdle
<1>1. WakeInv => NothingLeftWhenIdle
  BY DEF WakeInv, Remembered, NothingLeftWhenIdle
<1>2. QED
  BY <1>1, WakeInvariant, PTL

-----------------------------------------------------------------------------
(* The session and its coordinator.                                        *)

\* The session uses its coordinator as the interface promises: every step of the
\* session is one of the coordinator, leaves it alone, or is a crash, which starts it
\* anew (run-coordinator.ts, runner/llm.ts).
THEOREM EngineUsesTheCoordinator == Spec => RP!Init /\ [][RP!Next \/ Crash]_(RP!vars)
<1>1. Init => RP!Init
  BY DEF Init, RC!Init, RP!Init, RC!Unused, RP!Unused, RC!IdleCaller, RP!IdleCaller
<1>2. Shape /\ [Next]_vars => [RP!Next \/ Crash]_(RP!vars)
  BY CoordinatorSteps
<1>3. QED
  BY <1>1, <1>2, ShapeInvariant, PTL DEF Spec

\* What the coordinator keeps on its own it keeps in a session that crashes: fibers of
\* one session never overlap, wakes are not forgotten, and nobody waits for a fiber
\* that is gone.
THEOREM EngineKeepsTheCoordinator ==
    Spec => [](RP!OneOwnerPerKey /\ RP!NoLostWake /\ RP!WaitersHaveAnOwner)
<1>1. RP!IInv => RP!OneOwnerPerKey /\ RP!NoLostWake /\ RP!WaitersHaveAnOwner
  <2> SUFFICES ASSUME RP!IInv PROVE RP!OneOwnerPerKey
    BY DEF RP!IInv
  <2>1. \A e \in Entries : RP!Live(e) => entry[e].key \in {Session}
    BY DEF RP!IInv, RP!TypeOK, RP!Entry, RP!Live, RP!Unused
  <2>2. QED
    BY <2>1 DEF RP!IInv, RP!ActiveIffLive, RP!OneOwnerPerKey
<1>2. QED
  BY <1>1, CoordinatorInvariant, PTL

\* A session is a worker that crashes: to its clients the owner fibers of its coordinator
\* start, are asked again, stop and finish like the single worker of KeyedWorker.
THEOREM EngineIsAWorker == Spec => RP!KW!Init /\ [][RP!KW!Next \/ Crash]_(RP!KW!vars)
<1>1. Init => RP!KW!Init
  <2>1. Init => RP!Init
    BY DEF Init, RC!Init, RP!Init, RC!Unused, RP!Unused, RC!IdleCaller, RP!IdleCaller
  <2>2. QED
    BY <2>1, RP!InitMaps, NoneAssumption
<1>2. Shape /\ RP!IInv /\ RP!IInv' /\ [Next]_vars => [RP!KW!Next \/ Crash]_(RP!KW!vars)
  <2> SUFFICES ASSUME Shape, RP!IInv, RP!IInv', [Next]_vars, ~Crash
               PROVE  [RP!KW!Next]_(RP!KW!vars)
    OBVIOUS
  <2>1. [RP!Next]_(RP!vars)
    BY CoordinatorSteps
  <2>2. QED
    BY <2>1, RP!StepMaps, NoneAssumption
<1>3. QED
  BY <1>1, <1>2, ShapeInvariant, CoordinatorInvariant, PTL DEF Spec

\* The drain callback at work and the owner fiber that called it are the same at all
\* times.
OneDrainAtATime ==
    \A e \in Entries : entry[e].phase = "draining" <=> drain # NoDrain /\ drain.owner = e

DrainGoesOn == drain # NoDrain => entry[drain.owner].phase = "draining"

\* Whatever clients do, an owner fiber that drains goes on.
LEMMA AsideGoesOn ==
    ASSUME RP!TypeOK, Aside, NEW e \in Entries, entry[e].phase = "draining"
    PROVE  entry'[e].phase = "draining"
<1>1. /\ entry \in [Entries -> RP!Entry \cup {RP!Unused}]
      /\ active \in [{Session} -> Entries \cup {None}]
  BY DEF RP!TypeOK
<1>2. ASSUME NEW f \in Entries, RP!Free(f) PROVE f # e
  BY <1>2 DEF RP!Free, RP!Live, RP!Unused
<1>3. CASE entry' = entry
  BY <1>3
<1>4. ASSUME NEW c \in Callers, RP!Run(c, Session) \/ RP!Rerun(c) \/ RP!Abandon(c)
      PROVE  entry'[e].phase = "draining"
  BY <1>1, <1>2, <1>4 DEF RP!Run, RP!Rerun, RP!RunBody, RP!JoinActive, RP!AwaitStopping,
     RP!StartForced, RP!Abandon
<1>5. ASSUME NEW c \in Callers, RP!Interrupt(c, Session)
      PROVE  entry'[e].phase = "draining"
  BY <1>1, <1>5 DEF RP!Interrupt, RP!Entry, RP!Unused
<1>6. ASSUME RP!Wake(Session) PROVE entry'[e].phase = "draining"
  <2>1. CASE RP!MarkPending(Session)
    BY <1>1, <2>1 DEF RP!MarkPending, RP!Entry, RP!Unused
  <2>2. CASE RP!StartUnforced(Session)
    BY <1>1, <1>2, <2>2 DEF RP!StartUnforced
  <2>3. QED
    BY <1>6, <2>1, <2>2 DEF RP!Wake
<1>7. ASSUME NEW f \in Entries, RP!SkipDrain(f) \/ RP!Settle(f)
      PROVE  entry'[e].phase = "draining"
  BY <1>1, <1>2, <1>7 DEF RP!SkipDrain, RP!Settle, RP!Restart, RP!Succeed, RP!Retire,
     RP!Entry, RP!Unused
<1>8. QED
  BY <1>3, <1>4, <1>5, <1>6, <1>7, SameCoordinator
     DEF Aside, Find, Reject, Record, WakePrompt, Resume, Interrupt, Caller, Skip, Settle,
         coordVars, vars

LEMMA GoesOnStep ==
    ASSUME Shape, RP!TypeOK, DrainGoesOn, [Next]_vars
    PROVE  DrainGoesOn'
<1>1. drain = NoDrain \/ (drain.pc # "none" /\ drain.owner \in Entries)
  BY DEF Shape
<1>2. CASE Aside
  BY <1>1, <1>2, AsideFrame, AsideGoesOn DEF DrainGoesOn
<1>3. CASE Stopping
  BY <1>3, StopFrame DEF DrainGoesOn
<1>4. CASE Plain \/ Reading \/ PublishNext
  <2>1. drain # NoDrain
    BY <1>4, AtWork DEF NoDrain
  <2>2. drain'.owner = drain.owner
    BY <1>4, OwnerKept DEF Shape
  <2>3. entry' = entry
    BY <1>4 DEF Plain, Reading, PublishNext, FailInterruptedTools, Published, Request,
       Compact, RecoverOverflow, CallTool, SettleTool, FinishTurn, HasSteer, HasQueue,
       StartTurn, SelectQueued, SelectSteers, CheckSteer, CheckQueue, coordVars
  <2>4. QED
    BY <2>1, <2>2, <2>3 DEF DrainGoesOn
<1>5. CASE \E p \in Prompters : Admit(p)
  BY <1>5 DEF Admit, coordVars, DrainGoesOn
<1>6. ASSUME NEW e \in Entries, Begin(e) PROVE DrainGoesOn'
  <2>1. entry'[e].phase = "draining"
    BY <1>6 DEF Begin, RC!BeginDrain, RP!TypeOK, RP!Entry, RP!Unused
  <2>2. drain'.owner = e
    BY <1>6 DEF Begin, NoDrain
  <2>3. QED
    BY <2>1, <2>2 DEF DrainGoesOn
<1>7. QED
  BY <1>2, <1>3, <1>4, <1>5, <1>6, StepKinds

\* Two drains of a session never overlap, not across stops, successors and crashes, and
\* the one at work is the one the coordinator knows of.
THEOREM DrainsDoNotOverlap == Spec => []OneDrainAtATime
<1>1. Init => DrainGoesOn
  BY DEF Init, DrainGoesOn
<1>2. RP!IInv => RP!TypeOK
  BY DEF RP!IInv
<1>3. Spec => []DrainGoesOn
  BY <1>1, <1>2, GoesOnStep, ShapeInvariant, CoordinatorInvariant, PTL DEF Spec
<1>4. DrainGoesOn /\ WakeInv /\ Shape => OneDrainAtATime
  <2> SUFFICES ASSUME DrainGoesOn, WakeInv, Shape, NEW e \in Entries
               PROVE  entry[e].phase = "draining" <=> drain # NoDrain /\ drain.owner = e
    BY DEF OneDrainAtATime
  <2>1. entry[e].phase = "draining" => drain.owner = e
    BY DEF WakeInv, OwnDrain
  <2>2. drain = NoDrain => drain.owner # e
    BY NoneAssumption DEF NoDrain
  <2>3. QED
    BY <2>1, <2>2 DEF DrainGoesOn
<1>5. QED
  BY <1>3, <1>4, WakeInvariant, ShapeInvariant, PTL

=============================================================================
