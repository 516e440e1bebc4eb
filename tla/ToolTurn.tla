------------------------------ MODULE ToolTurn ------------------------------
(***************************************************************************)
(* One provider turn of the V2 session engine with its tool calls          *)
(* (tui/packages/core/src/session/runner/llm.ts, runTurnAttempt, and       *)
(* publish-llm-event.ts).  The provider's stream starts calls; the fiber   *)
(* of a local call asks the desk, runs and publishes its result; a hosted  *)
(* call is executed by the provider, which streams its result.  When the   *)
(* stream has ended the turn waits for its fibers and settles in the log   *)
(* what has no result.                                                     *)
(*                                                                         *)
(* The operations of the publisher hold one permit and mark in memory what *)
(* they publish, so each is one step and the log tells what is settled.    *)
(***************************************************************************)
EXTENDS PermissionDesk, Naturals

CONSTANT Hosted  \* calls that the provider executes itself

ASSUME HostedAssumption == Askers \cap Hosted = {}

\* The local calls are the askers.
Calls == Askers
All == Calls \cup Hosted

VARIABLES
    tools,       \* per call, what the publisher knows of it
    log,         \* per call, the number of settlements in the session's log
    fiber,       \* per local call, its fiber
    failure,     \* how the first fiber to fail did
    step,        \* of the assistant step: "started", "failed" and "ended" were
                 \* published, "finished" was streamed
    deaf,        \* "overflow" or "provider": an error after which events are ignored
    interrupted, \* the turn itself is
    turn         \* how far it is, whether it is the last step of the agent, how
                 \* its stream ended and what it returned

life == <<tools, log, fiber, failure, step, deaf, interrupted, turn>>
vars == <<desk, life>>

(* The fiber of a call runs while its tool does, then has a "success" or   *)
(* an "error" to publish, and has "ended" or "failed".  The turn is        *)
(* streaming, may be recovering from an overflow, has streamed, clears its *)
(* fibers if it was interrupted, is joining them, dismissing or halting    *)
(* them when that is cut short, closing its scope, over, and repaired once *)
(* the next run has settled what was open.                                 *)
Init ==
    /\ DeskInit
    /\ tools = [c \in All |-> "none"]
    /\ log = [c \in All |-> 0]
    /\ fiber = [c \in Calls |-> "none"]
    /\ failure = "none"
    /\ step = {}
    /\ deaf = "none"
    /\ interrupted = FALSE
    /\ \E last \in BOOLEAN :
           turn = [at |-> "streaming", last |-> last, stream |-> "open", outcome |-> "none"]

-----------------------------------------------------------------------------
Settled(c) == log[c] > 0
Record(c) == log' = [log EXCEPT ![c] = @ + 1]

\* Mutant: local calls are not told from hosted ones.
CalledCalls == {c \in All : tools[c] = "called"}

HostedCalls == {h \in Hosted : tools[h] = "called"}

\* failUnsettledTools, of all calls or of the hosted ones.
FailUnsettled(calls, known) ==
    log' = [c \in All |-> IF c \in calls /\ known[c] # "none" /\ ~Settled(c)
                          THEN 1 ELSE log[c]]

Active(s) == "started" \in s /\ s \cap {"finished", "failed"} = {}
FailAssistant(s) == s \cup {"started", "failed"}

\* Mutant: fibers are interrupted when the stream is, not when the wait is.
DoomedWithTheStream == turn.at \in {"clearing", "dismissing", "closing"}

\* The fibers are being interrupted.
Doomed == turn.at \in {"clearing", "dismissing", "halting", "closing"}
AtRest == \A c \in Calls : fiber[c] \in {"none", "ended", "failed"}

Streaming == turn.at = "streaming" /\ deaf = "none"
TurnAt(place) == turn' = [turn EXCEPT !.at = place]

-----------------------------------------------------------------------------
(* The stream.  Tools are not offered in the last step; a call that comes  *)
(* all the same fails, and with it every call that has no result.          *)
StartInput(c) ==
    /\ Streaming
    /\ tools[c] = "none"
    /\ tools' = [tools EXCEPT ![c] = "input"]
    /\ step' = step \cup {"started"}
    /\ UNCHANGED <<desk, log, fiber, failure, deaf, interrupted, turn>>

Called(c) ==
    /\ Streaming
    /\ tools[c] \in {"none", "input"}
    /\ tools' = [tools EXCEPT ![c] = "called"]
    /\ step' = step \cup {"started"}

CallTool(c) ==
    /\ Called(c)
    /\ ~turn.last
    /\ fiber' = [fiber EXCEPT ![c] = "running"]
    /\ UNCHANGED <<desk, log, failure, deaf, interrupted, turn>>

CallDisabledTool(c) ==
    /\ Called(c)
    /\ turn.last
    /\ FailUnsettled(All, tools')
    /\ UNCHANGED <<desk, fiber, failure, deaf, interrupted, turn>>

CallHosted(h) ==
    /\ Called(h)
    /\ UNCHANGED <<desk, log, fiber, failure, deaf, interrupted, turn>>

HostedResult(h) ==
    /\ Streaming
    /\ tools[h] = "called"
    /\ ~Settled(h)
    /\ Record(h)
    /\ UNCHANGED <<desk, tools, fiber, failure, step, deaf, interrupted, turn>>

\* A second result is ignored if it is an error and otherwise ends the stream.
HostedDuplicate(h) ==
    /\ Streaming
    /\ tools[h] = "called"
    /\ Settled(h)
    /\ turn' = [turn EXCEPT !.stream = "died", !.at = "streamed"]
    /\ UNCHANGED <<desk, tools, log, fiber, failure, step, deaf, interrupted>>

FinishStep ==
    /\ Streaming
    /\ "finished" \notin step
    /\ step' = step \cup {"finished"}
    /\ UNCHANGED <<desk, tools, log, fiber, failure, deaf, interrupted, turn>>

\* An overflow before anything was said is kept for later.
ProviderError ==
    /\ Streaming
    /\ \/ deaf' = "provider" /\ step' = FailAssistant(step)
       \/ "started" \notin step /\ deaf' = "overflow" /\ UNCHANGED step
    /\ UNCHANGED <<desk, tools, log, fiber, failure, interrupted, turn>>

\* The request may have overflowed before anything was said: then compaction is tried.
Overflowed(stream) == "started" \notin step /\ (deaf = "overflow" \/ stream = "overflow")

StreamEnds(stream) ==
    /\ turn.at = "streaming"
    /\ \/ Overflowed(stream) /\ turn' = [turn EXCEPT !.stream = stream, !.at = "recovering"]
       \/ turn' = [turn EXCEPT !.stream = stream, !.at = "streamed"]
    /\ UNCHANGED <<desk, tools, log, fiber, failure, step, deaf, interrupted>>

Recover ==
    /\ turn.at = "recovering"
    /\ \/ TurnAt("streamed")
       \/ turn' = [turn EXCEPT !.at = "closing", !.outcome = "retry"]
    /\ UNCHANGED <<desk, tools, log, fiber, failure, step, deaf, interrupted>>

\* Errors of the provider end the assistant's step, and its own calls with it.
Streamed ==
    LET late == deaf = "overflow"
        fails == turn.stream \in {"llm", "overflow"} /\ deaf = "none"
    IN  /\ turn.at = "streamed"
        /\ deaf' = IF late THEN "provider" ELSE deaf
        /\ step' = IF late \/ fails THEN FailAssistant(step) ELSE step
        /\ IF fails THEN FailUnsettled(HostedCalls, tools) ELSE UNCHANGED log
        /\ TurnAt(IF turn.stream = "interrupted" THEN "clearing" ELSE "joining")
        /\ UNCHANGED <<desk, tools, fiber, failure, interrupted>>

-----------------------------------------------------------------------------
(* The wait for the fibers.                                                *)
Cleared ==
    /\ turn.at = "clearing"
    /\ AtRest
    /\ TurnAt("joining")
    /\ UNCHANGED <<desk, tools, log, fiber, failure, step, deaf, interrupted>>

\* A local call was made: the model has to see its result.
More == \E c \in Calls : fiber[c] # "none"

\* What comes last: the step ends, and what is still open is settled.
Outcome == IF turn.stream = "died"                        THEN "died"
           ELSE IF turn.stream \in {"llm", "overflow"}    THEN "failed"
           ELSE IF interrupted                            THEN "interrupted"
           ELSE IF deaf # "provider" /\ More              THEN "continue"
                                                          ELSE "stop"

Finish(calls, s) ==
    LET provider == deaf = "provider"
        hosted == IF turn.stream = "success" /\ ~provider THEN HostedCalls ELSE {}
    IN  /\ FailUnsettled(calls \cup (IF provider THEN All ELSE hosted), tools)
        /\ step' = IF "finished" \in s /\ ~provider THEN s \cup {"started", "ended"} ELSE s
        /\ turn' = [turn EXCEPT !.at = "closing", !.outcome = Outcome]
        /\ UNCHANGED <<desk, tools, fiber, failure, deaf, interrupted>>

Joined ==
    /\ turn.at = "joining"
    /\ ~interrupted
    /\ failure = "none"
    /\ AtRest
    /\ Finish({}, step)

\* A fiber that failed fails all calls without a result; the other fibers go on.
JoinFails ==
    /\ turn.at = "joining"
    /\ ~interrupted
    /\ failure = "other"
    /\ Finish(All, step)

\* A dismissed question stops the run.
JoinDismissed ==
    /\ turn.at = "joining"
    /\ ~interrupted
    /\ failure = "dismissed"
    /\ TurnAt("dismissing")
    /\ UNCHANGED <<desk, tools, log, fiber, failure, step, deaf, interrupted>>

Dismissed ==
    /\ turn.at = "dismissing"
    /\ AtRest
    /\ FailUnsettled(All, tools)
    /\ turn' = [turn EXCEPT !.at = "closing", !.outcome = "interrupted"]
    /\ UNCHANGED <<desk, tools, fiber, failure, step, deaf, interrupted>>

JoinInterrupted ==
    /\ turn.at = "joining"
    /\ interrupted
    /\ TurnAt("halting")
    /\ UNCHANGED <<desk, tools, log, fiber, failure, step, deaf, interrupted>>

Halted ==
    /\ turn.at = "halting"
    /\ AtRest
    /\ Finish(All, IF Active(step) THEN FailAssistant(step) ELSE step)

\* The scope of the turn closes.
Close ==
    /\ turn.at = "closing"
    /\ AtRest
    /\ TurnAt("over")
    /\ UNCHANGED <<desk, tools, log, fiber, failure, step, deaf, interrupted>>

(* An interruption strikes while the turn reads the stream, tries to       *)
(* recover or waits; elsewhere it is masked until the turn waits.          *)
Interrupt ==
    /\ ~interrupted
    /\ interrupted' = TRUE
    /\ \/ /\ turn.at = "recovering" \/ (turn.at = "streaming" /\ Overflowed("open"))
          /\ turn' = [turn EXCEPT !.at = "closing", !.outcome = "interrupted"]
       \/ /\ turn.at = "streaming"
          /\ turn' = [turn EXCEPT !.at = "streamed", !.stream = "interrupted"]
       \/ /\ turn.at \in {"streamed", "joining"}
          /\ UNCHANGED turn
    /\ UNCHANGED <<desk, tools, log, fiber, failure, step, deaf>>

-----------------------------------------------------------------------------
(* The fiber of a local call.                                              *)
FiberIs(c, place) == fiber' = [fiber EXCEPT ![c] = place]

Fail(how) == failure' = IF failure = "none" THEN how ELSE failure

AtDesk(c) ==
    /\ fiber[c] = "running"
    /\ AskerStep(c)
    /\ UNCHANGED life

\* A refusal is an error for the model to see; a dismissal is a defect.
EndTool(c) ==
    /\ fiber[c] = "running"
    /\ \/ /\ asker[c] = "refused" /\ FiberIs(c, "error") /\ UNCHANGED failure
       \/ /\ asker[c] = "dismissed" /\ FiberIs(c, "failed") /\ Fail("dismissed")
       \/ /\ asker[c] \in {"through", "informed"}
          /\ \/ FiberIs(c, "success") /\ UNCHANGED failure
             \/ FiberIs(c, "error") /\ UNCHANGED failure
             \/ FiberIs(c, "failed") /\ Fail("other")
    /\ asker' = [asker EXCEPT ![c] = IF @ = "dismissed" THEN @ ELSE "gone"]
    /\ UNCHANGED <<permissions, questions, saved, replies>>
    /\ UNCHANGED <<tools, log, step, deaf, interrupted, turn>>

\* Mutant: whether the call is settled already is not looked at.
PublishAnyway(c) ==
    /\ fiber[c] \in {"success", "error"}
    /\ Record(c)
    /\ FiberIs(c, "ended")
    /\ UNCHANGED <<desk, tools, failure, step, deaf, interrupted, turn>>

\* Nothing interrupts the publication of a result; a second one is refused.
PublishResult(c) ==
    /\ fiber[c] \in {"success", "error"}
    /\ IF ~Settled(c)
       THEN /\ Record(c)
            /\ FiberIs(c, "ended")
            /\ UNCHANGED failure
       ELSE /\ UNCHANGED log
            /\ IF fiber[c] = "success" THEN FiberIs(c, "failed") /\ Fail("other")
                                       ELSE FiberIs(c, "ended") /\ UNCHANGED failure
    /\ UNCHANGED <<desk, tools, step, deaf, interrupted, turn>>

InterruptFiber(c) ==
    /\ Doomed
    /\ fiber[c] = "running"
    /\ Leave(c)
    /\ FiberIs(c, "ended")
    /\ UNCHANGED <<tools, log, failure, step, deaf, interrupted, turn>>

-----------------------------------------------------------------------------
(* The process may end at any time; the next run of the session settles    *)
(* what the log shows as open.                                             *)
Crash ==
    /\ turn.at \notin {"over", "repaired"}
    /\ turn' = [turn EXCEPT !.at = "over", !.outcome = "crashed"]
    /\ fiber' = [c \in Calls |-> "ended"]
    /\ permissions' = <<>>
    /\ questions' = {}
    /\ asker' = [a \in Askers |-> "gone"]
    /\ replies' = [i \in Repliers |-> Idle]
    /\ step' = {} /\ failure' = "none" /\ deaf' = "none" /\ interrupted' = FALSE
    /\ UNCHANGED <<saved, tools, log>>

FailInterruptedTools ==
    /\ turn.at = "over"
    /\ FailUnsettled(All, tools)
    /\ TurnAt("repaired")
    /\ UNCHANGED <<desk, tools, fiber, failure, step, deaf, interrupted>>

-----------------------------------------------------------------------------
FromStream ==
    \/ \E c \in Calls : CallTool(c) \/ CallDisabledTool(c)
    \/ \E h \in Hosted : CallHosted(h) \/ HostedResult(h) \/ HostedDuplicate(h)
    \/ \E c \in All : StartInput(c)
    \/ FinishStep \/ ProviderError
    \/ \E stream \in {"success", "llm", "overflow", "died"} : StreamEnds(stream)

TurnStep == \/ Streamed \/ Cleared \/ Joined \/ JoinFails \/ JoinDismissed \/ Dismissed
            \/ JoinInterrupted \/ Halted \/ Close

FiberStep == \E c \in Calls : AtDesk(c) \/ EndTool(c) \/ PublishResult(c) \/ InterruptFiber(c)

FromUser == \E i \in Repliers : (UserStep(i) \/ ReplyStep(i)) /\ UNCHANGED life

Next == \/ FromStream \/ TurnStep \/ Recover \/ Interrupt \/ FiberStep \/ FromUser
        \/ Crash \/ FailInterruptedTools

Spec == Init /\ [][Next]_vars

\* The event loop runs what is ready.  Neither the user, nor the provider, nor a
\* tool has to come to an end, but an interrupted fiber unwinds.
Unwinding(c) == \/ InterruptFiber(c) \/ PublishResult(c)
                \/ AtDesk(c) /\ asker[c] = "judged"
                \/ EndTool(c) /\ asker[c] \in {"refused", "dismissed"}

FairSpec == Spec /\ WF_vars(TurnStep) /\ \A c \in Calls : WF_vars(Unwinding(c))

-----------------------------------------------------------------------------
(* Properties.                                                             *)

\* When a turn has returned, by whatever way but a crash or a defect of the
\* stream, every call has a settlement in the log, and no call ever has two:
\* results, refusals, interruptions and provider errors settle a call between
\* them once.  The next run of the session settles the rest.
TurnSettlesItsCalls ==
    \A c \in All :
        /\ log[c] <= 1
        /\ turn.at = "over" /\ tools[c] = "called" /\ turn.outcome \notin {"crashed", "died"}
               => Settled(c)
        /\ turn.at = "repaired" /\ tools[c] # "none" => Settled(c)

\* A tool that has succeeded keeps its result: interruptions, provider errors
\* and dismissed questions do not discard it, only another tool's failure may.
ResultsAreKept ==
    [][\A c \in Calls : fiber[c] = "success" /\ log'[c] = log[c] /\ turn'.outcome # "crashed"
                            => fiber'[c] = "success" \/ failure = "other"]_vars

\* An interrupted turn returns, whatever its tools, the user and the provider do.
InterruptedTurnsReturn == interrupted ~> turn.at \in {"over", "repaired"}

=============================================================================
