---------------------------- MODULE CoreRuntime ----------------------------
(***************************************************************************)
(* internal/localcore Runtime: construction with unwinding, Serve with its *)
(* two servers and two background loops, direct Converge calls, and the    *)
(* staged, retryable Close.  The http.Server of gatewayhttp serves once:   *)
(* after Shutdown its Serve returns at once.                               *)
(*                                                                         *)
(* Callers are goroutines that call Serve, Converge and Close in any       *)
(* order.  A call (an invocation in progress) runs in the engine; it comes *)
(* from a server, from one that has stopped but not ended its connections, *)
(* or through Handler.  Only Agent.Close refuses new ones and waits.       *)
(***************************************************************************)
EXTENDS Integers, FiniteSets

CONSTANTS
    Callers,
    Calls,          \* invocations
    Management      \* BOOLEAN: a management server is configured

ASSUME ManagementAssumption == Management \in BOOLEAN
ASSUME CallersAssumption == Callers \cap {"none", "convergence"} = {}

VARIABLES
    open,           \* the resources that are open
    built,          \* how far New is; "runtime" when it returned one
    owned,          \* Runtime.agent, engine and artifacts that are not nil
    draining,       \* Agent.closing
    running,        \* Runtime.running
    runMu,          \* the holder of runMu, or "none"
    convergeMu,     \* the holder of convergeMu, or "none"
    pc,             \* the step of each caller
    cancelled,      \* loopContext is cancelled
    loop,           \* the two background loops
    server,         \* the two servers
    stop,           \* servers that the stopping Serve has yet to shut down
    calls           \* calls in the engine

vars == <<open, built, owned, draining, running, runMu, convergeMu, pc, cancelled, loop, server,
          stop, calls>>
construction == <<built, open, owned, draining>>
serving == <<cancelled, loop, server, stop, calls>>

Loops == {"convergence", "resume"}
Servers == IF Management THEN {"invocation", "management"} ELSE {"invocation"}
Resources == {"artifacts", "engine", "cache", "agent"}

Init ==
    /\ open = {} /\ built = "artifacts" /\ owned = {} /\ draining = FALSE
    /\ running = FALSE /\ runMu = "none" /\ convergeMu = "none"
    /\ pc = [c \in Callers |-> "idle"]
    /\ cancelled = FALSE
    /\ loop = [l \in Loops |-> "off"] /\ server = [s \in Servers |-> "off"]
    /\ stop = {} /\ calls = {}

-----------------------------------------------------------------------------
\* New.  "validator", "ids" and "rest" (Controller to HTTP servers) hold
\* nothing that must be closed.
After == [artifacts |-> "validator", validator |-> "engine", engine |-> "cache",
          cache |-> "ids", ids |-> "agent", agent |-> "rest", rest |-> "runtime"]

Build ==
    /\ built \in DOMAIN After
    /\ built' = After[built]
    /\ open' = open \cup ({built} \cap Resources)
    /\ owned' = IF built = "rest" THEN {"agent", "engine", "artifacts"} ELSE owned
    /\ UNCHANGED <<draining, running, runMu, convergeMu, pc, serving>>

\* What a failing New closes: the Cache itself before there is an Agent, else
\* the Agent, which owns it; then the deferred engine and artifacts.
ClosedOnError ==
    {"artifacts", "engine"}
        \cup (IF built = "rest" THEN {"agent", "cache"} ELSE {})
        \cup (IF built \in {"ids", "agent"} THEN {"cache"} ELSE {})

BuildFails ==
    /\ built \in DOMAIN After
    /\ built' = "failed"
    /\ open' = open \ ClosedOnError
    /\ UNCHANGED <<owned, draining, running, runMu, convergeMu, pc, serving>>

-----------------------------------------------------------------------------
Goto(c, step) == pc' = [pc EXCEPT ![c] = step]
Live == owned = {"agent", "engine", "artifacts"}

beginRun(c) ==
    /\ built = "runtime" /\ pc[c] = "idle" /\ runMu = "none"
    /\ ~running /\ Live
    /\ running' = TRUE /\ Goto(c, "begun")
    /\ UNCHANGED <<construction, runMu, convergeMu, serving>>

\* Converge, called by Serve first or by an embedding process: it waits for
\* the mutex and refuses when a resource was closed.
Converge(c) ==
    /\ built = "runtime" /\ pc[c] \in {"idle", "begun"} /\ convergeMu = "none" /\ Live
    /\ convergeMu' = c
    /\ Goto(c, IF pc[c] = "idle" THEN "converging" ELSE "first")
    /\ UNCHANGED <<construction, running, runMu, serving>>

ConvergeDone(c) ==
    /\ pc[c] = "converging" /\ convergeMu' = "none" /\ Goto(c, "idle")
    /\ UNCHANGED <<construction, running, runMu, serving>>

\* The first Converge succeeded: the loops and the servers start.
Start(c) ==
    /\ pc[c] = "first" /\ convergeMu' = "none" /\ Goto(c, "serving")
    /\ cancelled' = FALSE
    /\ loop' = [l \in Loops |-> "waiting"]
    /\ server' = [s \in Servers |-> IF server[s] = "shut" THEN "shut" ELSE "on"]
    /\ UNCHANGED <<construction, running, runMu, stop, calls>>

\* The first Converge failed, or the management address cannot be bound.
StartFails(c) ==
    /\ pc[c] = "first" /\ convergeMu' = "none" /\ Goto(c, "end")
    /\ UNCHANGED <<construction, running, runMu, serving>>

\* The loops: a tick begins a pass unless the context was cancelled.
LoopBegins(l) ==
    /\ loop[l] = "waiting" /\ ~cancelled
    /\ l = "convergence" => convergeMu = "none"
    /\ convergeMu' = IF l = "convergence" THEN l ELSE convergeMu
    /\ loop' = [loop EXCEPT ![l] = "working"]
    /\ UNCHANGED <<construction, running, runMu, pc, cancelled, server, stop, calls>>

LoopEnds(l) ==
    /\ loop[l] = "working"
    /\ convergeMu' = IF l = "convergence" THEN "none" ELSE convergeMu
    /\ loop' = [loop EXCEPT ![l] = "waiting"]
    /\ UNCHANGED <<construction, running, runMu, pc, cancelled, server, stop, calls>>

LoopStops(l) ==
    /\ loop[l] = "waiting" /\ cancelled
    /\ loop' = [loop EXCEPT ![l] = "off"]
    /\ UNCHANGED <<construction, running, runMu, convergeMu, pc, cancelled, server, stop, calls>>

\* The environment: a request enters the Agent, which lets it in until it is
\* closing, and ends.
CallBegins(k) ==
    /\ built = "runtime" /\ "agent" \in open /\ ~draining /\ k \notin calls
    /\ calls' = calls \cup {k}
    /\ UNCHANGED <<construction, running, runMu, convergeMu, pc, cancelled, loop, server, stop>>

CallEnds(k) ==
    /\ k \in calls /\ calls' = calls \ {k}
    /\ UNCHANGED <<construction, running, runMu, convergeMu, pc, cancelled, loop, server, stop>>

\* The environment: a listener fails.
ServerFails(s) ==
    /\ server[s] = "on"
    /\ server' = [server EXCEPT ![s] = "failed"]
    /\ UNCHANGED <<construction, running, runMu, convergeMu, pc, cancelled, loop, stop, calls>>

\* What ends the select: the context, or a server that returned, which is
\* then not shut down.
Reasons == {Servers} \cup {Servers \ {s} : s \in {t \in Servers : server[t] # "on"}}

\* Mutation: a server that stopped by itself does not cancel the loops.
StopQuietly(c) ==
    /\ pc[c] = "serving" /\ Goto(c, "stopping")
    /\ stop' \in Reasons /\ cancelled' = (stop' = Servers)
    /\ UNCHANGED <<construction, running, runMu, convergeMu, loop, server, calls>>

\* select, then cancel.
Stop(c) ==
    /\ pc[c] = "serving" /\ Goto(c, "stopping")
    /\ stop' \in Reasons /\ cancelled' = TRUE
    /\ UNCHANGED <<construction, running, runMu, convergeMu, loop, server, calls>>

\* stopInvocation and stopManagement: Shutdown closes the listener, so Serve
\* returns, and ends when the calls do or after the bound.  A server that has
\* failed in the meantime is shut for good as well.
Shutdown(c, s) ==
    /\ pc[c] = "stopping" /\ s \in stop
    /\ stop' = stop \ {s}
    /\ server' = [server EXCEPT ![s] = "shut"]
    /\ UNCHANGED <<construction, running, runMu, convergeMu, pc, cancelled, loop, calls>>

\* <-loopDone and <-resumeDone
Join(c) ==
    /\ pc[c] = "stopping" /\ stop = {}
    /\ \A l \in Loops : loop[l] = "off"
    /\ Goto(c, "end")
    /\ UNCHANGED <<construction, running, runMu, convergeMu, serving>>

endRun(c) ==
    /\ pc[c] = "end" /\ runMu = "none"
    /\ running' = FALSE /\ Goto(c, "idle")
    /\ UNCHANGED <<construction, runMu, convergeMu, serving>>

-----------------------------------------------------------------------------
\* Close holds runMu to its end, and convergeMu once it has it.
Close(c) ==
    /\ built = "runtime" /\ pc[c] = "idle" /\ runMu = "none" /\ ~running
    /\ runMu' = c /\ Goto(c, "closing")
    /\ UNCHANGED <<construction, running, convergeMu, serving>>

CloseLocks(c) ==
    /\ pc[c] = "closing" /\ convergeMu = "none"
    /\ convergeMu' = c /\ Goto(c, "agent")
    /\ UNCHANGED <<construction, running, runMu, serving>>

NextStage == [agent |-> "engine", engine |-> "artifacts", artifacts |-> "closed"]
AgentClosing(c) == pc[c] = "agent" /\ "agent" \in owned
Release(c) == runMu' = "none" /\ convergeMu' = "none" /\ Goto(c, "idle")

\* Agent.Close begins: the Agent lets no more calls in.
Drain(c) ==
    /\ AgentClosing(c) /\ ~draining /\ draining' = TRUE
    /\ UNCHANGED <<built, open, owned, running, runMu, convergeMu, pc, serving>>

\* Mutation: the stages go on after one failed.
CloseStageAnyway(c) ==
    /\ pc[c] \in DOMAIN NextStage
    /\ LET r == pc[c] IN
        \/ r \in owned /\ (r = "agent" => draining /\ calls = {})
            /\ open' = open \ ({r} \cup (IF r = "agent" THEN {"cache"} ELSE {})) /\ owned' = owned \ {r}
        \/ UNCHANGED <<open, owned>>
    /\ Goto(c, NextStage[pc[c]])
    /\ UNCHANGED <<built, draining, running, runMu, convergeMu, serving>>

\* One stage.  Agent.Close waits for the calls it admitted and closes its
\* Cache; a stage that was closed before is skipped.
CloseStage(c) ==
    /\ pc[c] \in DOMAIN NextStage
    /\ LET r == pc[c] IN
        IF r \in owned
        THEN /\ r = "agent" => draining /\ calls = {}
             /\ open' = open \ ({r} \cup (IF r = "agent" THEN {"cache"} ELSE {}))
             /\ owned' = owned \ {r}
        ELSE UNCHANGED <<open, owned>>
    /\ Goto(c, NextStage[pc[c]])
    /\ UNCHANGED <<built, draining, running, runMu, convergeMu, serving>>

\* The stage failed or its context ended: it stays owned for another Close.  An
\* Agent stays closing, and once its calls have ended so may its Cache.
CloseFails(c) ==
    /\ pc[c] \in DOMAIN NextStage /\ pc[c] \in owned
    /\ AgentClosing(c) => draining
    /\ \/ open' = open
       \/ AgentClosing(c) /\ calls = {} /\ open' = open \ {"cache"}
    /\ Release(c)
    /\ UNCHANGED <<built, owned, draining, running, serving>>

CloseDone(c) ==
    /\ pc[c] = "closed" /\ Release(c)
    /\ UNCHANGED <<construction, running, serving>>

Serve(c) ==
    \/ Start(c) \/ StartFails(c) \/ Join(c) \/ endRun(c)
    \/ \E s \in Servers : Shutdown(c, s)
Closing(c) == CloseLocks(c) \/ Drain(c) \/ CloseStage(c) \/ CloseFails(c) \/ CloseDone(c)

Next ==
    \/ Build \/ BuildFails
    \/ \E c \in Callers :
        \/ beginRun(c) \/ Converge(c) \/ ConvergeDone(c) \/ Stop(c) \/ Serve(c)
        \/ Close(c) \/ Closing(c)
    \/ \E l \in Loops : LoopBegins(l) \/ LoopEnds(l) \/ LoopStops(l)
    \/ \E k \in Calls : CallBegins(k) \/ CallEnds(k)
    \/ \E s \in Servers : ServerFails(s)

Spec == Init /\ [][Next]_vars

\* Serve and Close run, passes end, and a mutex passes to its waiters in turn.
\* Nothing makes the process stop serving, and calls need not end.
FairSpec ==
    /\ Spec
    /\ \A c \in Callers :
        /\ WF_vars(Serve(c)) /\ WF_vars(Closing(c)) /\ WF_vars(ConvergeDone(c))
        /\ SF_vars(endRun(c)) /\ SF_vars(CloseLocks(c))
    /\ \A l \in Loops : WF_vars(LoopEnds(l)) /\ WF_vars(LoopStops(l))

-----------------------------------------------------------------------------
\* Every variable has its type, and what the Runtime owns is open.
TypeOK ==
    /\ open \subseteq Resources /\ owned \subseteq open
    /\ built \in DOMAIN After \cup {"runtime", "failed"}
    /\ running \in BOOLEAN /\ cancelled \in BOOLEAN /\ draining \in BOOLEAN
    /\ runMu \in Callers \cup {"none"} /\ convergeMu \in Callers \cup {"convergence", "none"}
    /\ pc \in [Callers -> {"idle", "begun", "first", "converging", "serving", "stopping", "end",
                           "closing", "agent", "engine", "artifacts", "closed"}]
    /\ loop \in [Loops -> {"off", "waiting", "working"}]
    /\ server \in [Servers -> {"off", "on", "shut", "failed"}]
    /\ stop \subseteq Servers /\ calls \subseteq Calls

\* A New that fails has closed everything it opened, at whichever stage, and
\* the Cache exactly when no Agent owns it.
NewUnwinds == built = "failed" => open = {}

\* Resources are closed in the order Agent, Engine, Artifact Store, over any
\* number of failed and concurrent Close calls.
ClosedInOrder ==
    built = "runtime" =>
        /\ "engine" \notin open => open \cap {"agent", "cache"} = {}
        /\ "artifacts" \notin open => "engine" \notin open

\* A pass has everything open, but for the Cache of an Agent that a Close which
\* failed left closing: that Agent refuses to prepare.
PassHasResources == Resources \ open \subseteq {"cache"} /\ (draining \/ "cache" \in open)

\* Whoever is converging, validating, or running a call has what it uses open:
\* Close never overtakes a pass, a loop that Serve left behind, or a call that
\* outlived the server it came from.
UsersHaveResources ==
    /\ \A c \in Callers : pc[c] \in {"first", "converging"} => PassHasResources
    /\ \A l \in Loops : loop[l] = "working" => PassHasResources
    /\ calls # {} => {"cache", "engine", "agent"} \subseteq open

\* One Serve at a time, and while one runs nothing is being closed.
ServeAlone ==
    LET Serving == {c \in Callers : pc[c] \in {"begun", "first", "serving", "stopping", "end"}} IN
    /\ \A c, d \in Serving : c = d
    /\ (Serving # {}) = running
    /\ running => runMu = "none"

\* At every moment resources are open for their users and closed in their
\* order (New, Serve, Close).
RuntimeInvariant ==
    TypeOK /\ NewUnwinds /\ ClosedInOrder /\ UsersHaveResources /\ ServeAlone

\* A Serve that begins to stop returns, and a Close that began returns, with an
\* error or not: no loop, server, call or mutex holds them.
ServeAndCloseReturn ==
    \A c \in Callers : pc[c] \in {"stopping", "closing"} ~> pc[c] = "idle"
=============================================================================
