--------------------------- MODULE ValidatorClient ---------------------------
(***************************************************************************)
(* The supervisor of validator processes (internal/validator/client.go),   *)
(* the process it runs (cmd/minicloud-validator, internal/validator/engine *)
(* and protocol) and what the controller makes of the answer               *)
(* (internal/localcontroller/admission.go, admit).                         *)
(*                                                                         *)
(* A call takes a slot, a private directory and a process, feeds it the    *)
(* artifact from a goroutine of its own and waits.  The call's own         *)
(* deadline, its caller's cancellation, the exit of the process and the    *)
(* end of the feeding race.  A process may also run for ever, fail, write  *)
(* more than the supervisor accepts, or answer for another validation.     *)
(*                                                                         *)
(* The process counts its own deadline of the same length from its own     *)
(* start, and a compilation it interrupts looks like an invalid module.    *)
(* StartDelay is the least time a process needs to get that far; a timer   *)
(* of the supervisor fires less than StartDelay after it is due.           *)
(***************************************************************************)
EXTENDS Integers, FiniteSets

CONSTANTS
    Validations,    \* the calls of Validate that are followed step by step
    MaxConcurrent,  \* Config.MaxConcurrent
    Deadline,       \* Config.Deadline
    StartDelay,     \* least time from the call's context to the child's
    MaxTime         \* bound on the clock

ASSUME ValidatorAssumption ==
    /\ IsFiniteSet(Validations)
    /\ MaxConcurrent \in Nat \ {0}
    /\ Deadline \in Nat \ {0} /\ StartDelay \in Nat \ {0}
    /\ MaxTime \in Nat

VARIABLES
    call,   \* one Validate call each
    others, \* slots that calls outside Validations hold
    now     \* the clock both processes read

validatorVars == <<call, others, now>>

Modules == {"valid", "invalid"}
Readers == {"whole", "short", "stalled"}
Results == Modules \cup {"none", "failed", "canceled", "overloaded", "timeout", "limit"}

\* What there is to know of one call of Validate.
Validation ==
    [pc : {"idle", "called", "admitted", "prepared", "waiting", "waited", "receiving",
           "removing", "releasing", "closing", "returned"},
     module : Modules, reader : Readers, artifact : {"none", "open", "closed"},
     slot : BOOLEAN, temp : {"none", "made", "removed", "left"},
     deadline : 0..MaxTime, expired : BOOLEAN, canceled : BOOLEAN,
     child : {"none", "starting", "reading", "compiling", "exited"},
     exit : {"none", "ok", "failed"}, said : Modules \cup {"none", "another"},
     flooded : BOOLEAN, due : 0..MaxTime + Deadline,
     pump : {"none", "sending", "sent", "failed"},
     result : Results]

NotCalled ==
    [pc |-> "idle", module |-> "valid", reader |-> "whole", artifact |-> "none",
     slot |-> FALSE, temp |-> "none", deadline |-> 0, expired |-> FALSE, canceled |-> FALSE,
     child |-> "none", exit |-> "none", said |-> "none", flooded |-> FALSE, due |-> 0,
     pump |-> "none", result |-> "none"]

ValidatorInit == call = [c \in Validations |-> NotCalled] /\ others = 0 /\ now = 0

Set(c, r) == call' = [call EXCEPT ![c] = r] /\ UNCHANGED <<others, now>>
CallAt(c, pc) == call[c].pc = pc
Held == Cardinality({c \in Validations : call[c].slot}) + others

\* Mutation: the slot is given back at once, the deferred steps follow.
ReturnSlotFirst(r, result) ==
    [r EXCEPT !.pc = "removing", !.result = result, !.slot = FALSE]

\* The call returns: what was acquired is given back in reverse order.
Return(r, result) == [r EXCEPT !.pc = "removing", !.result = result]

-----------------------------------------------------------------------------
(* The supervisor. *)

\* The bounded clock leaves a call that has no deadline yet the time to reach it.
Room(t) == t + Deadline + StartDelay <= MaxTime

\* Validate is called with an artifact it now owns.
Call(c, module, reader) ==
    /\ CallAt(c, "idle") /\ Room(now)
    /\ Set(c, [call[c] EXCEPT !.pc = "called", !.module = module, !.reader = reader,
                              !.artifact = "open"])

\* A request outside the bounds, a caller that has gone, or no slot.
Refused(c) ==
    /\ CallAt(c, "called")
    /\ \/ Set(c, Return(call[c], "failed"))
       \/ call[c].canceled /\ Set(c, Return(call[c], "canceled"))
       \/ Held >= MaxConcurrent /\ Set(c, Return(call[c], "overloaded"))

\* The select takes a free slot, even for a caller that has just gone.
TakeSlot(c) ==
    /\ CallAt(c, "called") /\ Held < MaxConcurrent
    /\ Set(c, [call[c] EXCEPT !.pc = "admitted", !.slot = TRUE])

\* The directory is made and the context begins to count.
MakeTemp(c) ==
    /\ CallAt(c, "admitted")
    /\ \/ Set(c, [call[c] EXCEPT !.pc = "prepared", !.temp = "made",
                                 !.deadline = now + Deadline])
       \/ Set(c, Return(call[c], "failed"))

\* The process and the goroutine that feeds it begin; Start refuses a context
\* that is done.
StartChild(c) ==
    /\ CallAt(c, "prepared")
    /\ \/ /\ ~(call[c].expired \/ call[c].canceled)
          /\ Set(c, [call[c] EXCEPT !.pc = "waiting", !.child = "starting", !.pump = "sending"])
       \/ Set(c, Return(call[c], "failed"))

\* command.Wait.
Wait(c) ==
    /\ CallAt(c, "waiting") /\ call[c].child = "exited"
    /\ Set(c, [call[c] EXCEPT !.pc = "waited"])

\* Mutation: the exit of the process decides before the context does.
OutcomeByExit(r) ==
    IF r.flooded THEN "limit"
    ELSE IF r.exit = "ok" THEN "none"
    ELSE IF r.canceled THEN "canceled" ELSE IF r.expired THEN "timeout" ELSE "failed"

\* What Validate answers when the process is gone, asking the context first; or
\* "none", when only the report is left to be believed.
Outcome(r) ==
    IF r.canceled THEN "canceled"
    ELSE IF r.expired THEN "timeout"
    ELSE IF r.flooded THEN "limit"
    ELSE IF r.exit # "ok" THEN "failed"
    ELSE "none"

Answer(c) ==
    LET outcome == Outcome(call[c]) IN
    /\ CallAt(c, "waited")
    /\ Set(c, IF outcome = "none" THEN [call[c] EXCEPT !.pc = "receiving"]
              ELSE Return(call[c], outcome))

\* After a clean exit the end of the feeding is received from copyDone, and the
\* context is not asked again.  The report must be one on this validation.
Receive(c) ==
    /\ CallAt(c, "receiving") /\ call[c].pump # "sending"
    /\ Set(c, Return(call[c], IF call[c].pump = "failed" \/ call[c].said = "another"
                              THEN "failed" ELSE call[c].said))

\* An error of a deferred step joins the answer; a report with an error is no
\* longer a report.
Joined(result) == IF result \in Modules THEN "failed" ELSE result

RemoveTemp(c) ==
    /\ CallAt(c, "removing")
    /\ \/ Set(c, [call[c] EXCEPT !.pc = "releasing",
                                 !.temp = IF @ = "made" THEN "removed" ELSE @])
       \/ /\ call[c].temp = "made"
          /\ Set(c, [call[c] EXCEPT !.pc = "releasing", !.temp = "left",
                                    !.result = Joined(@)])

ReleaseSlot(c) ==
    /\ CallAt(c, "releasing")
    /\ Set(c, [call[c] EXCEPT !.pc = "closing", !.slot = FALSE])

CloseArtifact(c) ==
    /\ CallAt(c, "closing")
    /\ \E result \in {call[c].result, Joined(call[c].result)} :
          Set(c, [call[c] EXCEPT !.pc = "returned", !.artifact = "closed", !.result = result])

-----------------------------------------------------------------------------
(* What goes on around a call. *)

Pending(c) == ~(CallAt(c, "idle") \/ CallAt(c, "returned"))

Cancel(c) ==
    /\ Pending(c) /\ ~call[c].canceled
    /\ Set(c, [call[c] EXCEPT !.canceled = TRUE])

\* The call's context has a deadline from MakeTemp on, and it matters until
\* Validate has asked the context after Wait.
Counting(c) == CallAt(c, "prepared") \/ CallAt(c, "waiting") \/ CallAt(c, "waited")

Expire(c) ==
    /\ Counting(c) /\ ~call[c].expired /\ now >= call[c].deadline
    /\ Set(c, [call[c] EXCEPT !.expired = TRUE])

Alive(c) == call[c].child \in {"starting", "reading", "compiling"}

\* Mutation: only a caller that leaves has the process killed.
KillForCaller(c) ==
    /\ Alive(c) /\ call[c].canceled
    /\ Set(c, [call[c] EXCEPT !.child = "exited", !.exit = "failed"])

\* command.Cancel: the process group is killed once the context is done.
KillProcessGroup(c) ==
    /\ Alive(c) /\ (call[c].expired \/ call[c].canceled)
    /\ Set(c, [call[c] EXCEPT !.child = "exited", !.exit = "failed"])

\* The feeding goroutine: it ends when the artifact does and a process or the
\* pipe takes it, when Wait closed the pipe after the process's exit, or when
\* the artifact is closed under it.  Inside a read of an artifact that stalls it
\* notices nothing but the last.
PumpEnds(c) ==
    /\ call[c].pump = "sending"
    /\ \/ /\ call[c].reader = "whole" /\ Alive(c)
          /\ Set(c, [call[c] EXCEPT !.pump = "sent"])
       \/ /\ \/ call[c].reader = "short"
             \/ call[c].reader = "whole" /\ call[c].child = "exited"
             \/ call[c].artifact = "closed"
          /\ Set(c, [call[c] EXCEPT !.pump = "failed"])

ValidatorTick ==
    /\ now < MaxTime
    /\ \A c \in Validations :
          /\ Counting(c) /\ ~call[c].expired => now + 1 < call[c].deadline + StartDelay
          /\ CallAt(c, "called") \/ CallAt(c, "admitted") => Room(now + 1)
    /\ now' = now + 1
    /\ UNCHANGED <<call, others>>

\* Another call of Validate takes a slot, or gives its slot back.
OtherCall ==
    /\ \/ Held < MaxConcurrent /\ others' = others + 1
       \/ others > 0 /\ others' = others - 1
    /\ UNCHANGED <<call, now>>

-----------------------------------------------------------------------------
(* The validator process. *)

\* run: limits are set and the process's own context begins to count.
ChildStarts(c) ==
    /\ call[c].child = "starting"
    /\ now >= call[c].deadline - Deadline + StartDelay
    /\ Set(c, [call[c] EXCEPT !.child = "reading", !.due = now + Deadline])

\* ReadRequest: one whole frame, then the end of stdin.
ChildReads(c) ==
    /\ call[c].child = "reading" /\ call[c].pump = "sent"
    /\ Set(c, [call[c] EXCEPT !.child = "compiling"])

Exit(c, exit, said) ==
    Set(c, [call[c] EXCEPT !.child = "exited", !.exit = exit, !.said = said])

\* engine.Validate and the report; a compilation cut short by the process's
\* own context is reported as a module that does not compile.
ChildReports(c) ==
    /\ call[c].child = "compiling"
    /\ \/ Exit(c, "ok", call[c].module)
       \/ now >= call[c].due /\ Exit(c, "ok", "invalid")

\* A validator of another build, or one that misbehaves: it exits cleanly at any
\* point, whether it has read its input or not, with no report on this validation.
ChildMisreports(c) == Alive(c) /\ Exit(c, "ok", "another")

ChildFails(c) == Alive(c) /\ Exit(c, "failed", "none")

\* limitedBuffer refuses what is written past its limit; Wait reports it.
ChildFloods(c) ==
    /\ Alive(c)
    /\ Set(c, [call[c] EXCEPT !.child = "exited", !.exit = "failed", !.flooded = TRUE])

Supervise(c) ==
    \/ Refused(c) \/ TakeSlot(c) \/ MakeTemp(c) \/ StartChild(c) \/ Wait(c) \/ Answer(c)
    \/ Receive(c) \/ RemoveTemp(c) \/ ReleaseSlot(c) \/ CloseArtifact(c)

Child(c) ==
    \/ ChildStarts(c) \/ ChildReads(c) \/ ChildReports(c)
    \/ ChildMisreports(c) \/ ChildFails(c) \/ ChildFloods(c)

ValidatorNext ==
    \/ \E c \in Validations :
          \/ \E module \in Modules, reader \in Readers : Call(c, module, reader)
          \/ Supervise(c) \/ Cancel(c) \/ Expire(c) \/ KillProcessGroup(c) \/ PumpEnds(c)
          \/ Child(c)
    \/ ValidatorTick \/ OtherCall

ValidatorSpec == ValidatorInit /\ [][ValidatorNext]_validatorVars

\* The goroutines of a call run, timers fire and a kill takes effect; the
\* process itself and the artifact's reader may never get anywhere.
FairValidatorSpec ==
    /\ ValidatorSpec
    /\ WF_validatorVars(ValidatorTick)
    /\ \A c \in Validations :
          /\ WF_validatorVars(Supervise(c)) /\ WF_validatorVars(Expire(c))
          /\ WF_validatorVars(KillProcessGroup(c)) /\ WF_validatorVars(PumpEnds(c))

-----------------------------------------------------------------------------
(* Properties. *)

\* Every call keeps its type: its answer is a verdict on a module, a limit or
\* an error, never what a process made up (Client.Validate).
ValidatorTypeOK ==
    /\ now \in 0..MaxTime /\ others \in 0..MaxConcurrent
    /\ call \in [Validations -> Validation]

\* A slot is held for as long as the call has a process or a directory it may
\* yet remove, so that there are never more of them than MaxConcurrent, those
\* of the other calls included.
WorkIsBounded ==
    LET busy == {c \in Validations : Alive(c) \/ call[c].temp = "made"}
    IN  Cardinality(busy) + others <= MaxConcurrent

\* A call that has returned owns nothing: its process is gone, its artifact
\* is closed, its slot is free, and its directory was removed or could not be.
NothingLeftBehind ==
    \A c \in Validations : CallAt(c, "returned") =>
        ~Alive(c) /\ call[c].artifact = "closed" /\ ~call[c].slot /\ call[c].temp # "made"

\* A verdict on the module is the truth about the module: neither deadline, nor
\* an answer for another validation, nor a process cut short turns into one.
VerdictsAreTrue ==
    \A c \in Validations : call[c].result \in Modules => call[c].result = call[c].module

\* What the controller stores as the Version's last word other than a verdict
\* has its cause: only an expired deadline is a timeout and only an output past
\* its limit is a limit.  A caller that leaves, as the process does when it
\* shuts down, is neither: the Version is left to be validated again.
TerminalHasCause ==
    \A c \in Validations :
        /\ call[c].result = "timeout" => now >= call[c].deadline /\ call[c].expired
        /\ call[c].result = "limit" => call[c].flooded

\* At every moment the work under way is bounded, calls that returned have
\* cleaned up, and a last word on a Version has its cause (Client.Validate,
\* admit).
ValidatorInvariant ==
    ValidatorTypeOK /\ WorkIsBounded /\ NothingLeftBehind /\ TerminalHasCause

\* The process exited cleanly without having taken the artifact, and the
\* artifact's reader is stalled: copyDone is received from without a context.
Stuck(c) ==
    CallAt(c, "receiving") /\ call[c].pump = "sending" /\ call[c].reader = "stalled"

\* Validate returns, and the goroutine that feeds the process does not outlive
\* it for ever, whatever the process and the reader of the artifact do, but for
\* both failing together: a process that exits cleanly with its input unread
\* while the reader stalls.  A process that hangs, fails or floods, a reader that
\* ends early or stalls, and a caller that leaves each end in an answer.
ValidateReturns ==
    \A c \in Validations : /\ CallAt(c, "called") ~> (CallAt(c, "returned") \/ Stuck(c))
                     /\ call[c].pump = "sending" ~> (call[c].pump # "sending" \/ Stuck(c))
=============================================================================
