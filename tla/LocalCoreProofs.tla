-------------------------- MODULE LocalCoreProofs --------------------------
(***************************************************************************)
(* TLAPS proofs about the core of the local program: the runtime that      *)
(* starts and stops it, and the stores of the control plane. The two parts *)
(* use nothing of each other.                                              *)
(***************************************************************************)
EXTENDS CoreRuntime, ControlPlane, TLAPS

-----------------------------------------------------------------------------
(***************************************************************************)
(* The Runtime of internal/localcore: for any number of callers and calls, *)
(* with or without a management server, New, Serve, Converge and Close     *)
(* leave every user its resources and close them in their order.           *)
(***************************************************************************)

Steps == {"idle", "begun", "first", "converging", "serving", "stopping", "end",
          "closing", "agent", "engine", "artifacts", "closed"}

\* Who holds convergeMu, who holds runMu, who is inside Serve, and whose Serve
\* has started its loops and servers.
Holds(c) == pc[c] \in {"first", "converging", "agent", "engine", "artifacts", "closed"}
Closes(c) == pc[c] \in {"closing", "agent", "engine", "artifacts", "closed"}
Serves(c) == pc[c] \in {"begun", "first", "serving", "stopping", "end"}
Attends(c) == pc[c] \in {"serving", "stopping"}

Types ==
    /\ built \in {"artifacts", "validator", "engine", "cache", "ids", "agent", "rest", "runtime", "failed"}
    /\ running \in BOOLEAN /\ cancelled \in BOOLEAN /\ draining \in BOOLEAN
    /\ runMu \in Callers \cup {"none"} /\ convergeMu \in Callers \cup {"convergence", "none"}
    /\ pc \in [Callers -> Steps]
    /\ loop \in [Loops -> {"off", "waiting", "working"}]
    /\ server \in [Servers -> {"off", "on", "shut", "failed"}]
    /\ stop \subseteq Servers /\ calls \subseteq Calls

\* The two mutexes are held by those who are where the code holds them.
Locks ==
    /\ \A c \in Callers : Holds(c) <=> convergeMu = c
    /\ \A c \in Callers : Closes(c) <=> runMu = c
    /\ loop["convergence"] = "working" <=> convergeMu = "convergence"

\* The flag running stands for the one caller inside Serve, and keeps Close out.
Alone ==
    /\ \A c, d \in Callers : Serves(c) /\ Serves(d) => c = d
    /\ running <=> \E c \in Callers : Serves(c)
    /\ running => runMu = "none" /\ Live

\* Loops and servers run only inside Serve, and a Serve that stops has yet to shut
\* down every server that is on.
Attended ==
    /\ \A l \in Loops : loop[l] # "off" => \E c \in Callers : Attends(c)
    /\ \A s \in Servers : server[s] = "on" => \E c \in Callers : Attends(c)
    /\ \A c \in Callers : pc[c] = "stopping" => \A s \in Servers : server[s] = "on" => s \in stop

\* What is open at each stage of New, and what Close has left.  An Agent whose
\* Close failed may have lost its Cache already: it lets no more calls in.
Opened ==
    /\ built = "artifacts" => open = {}
    /\ built \in {"validator", "engine"} => open = {"artifacts"}
    /\ built = "cache" => open = {"artifacts", "engine"}
    /\ built \in {"ids", "agent"} => open = {"artifacts", "engine", "cache"}
    /\ built = "rest" => open = Resources
    /\ built = "failed" => open = {}
    /\ built # "runtime" => owned = {}
    /\ built = "runtime" =>
        \/ owned = {"agent", "engine", "artifacts"} /\ open = Resources
        \/ owned = {"agent", "engine", "artifacts"} /\ open = Resources \ {"cache"} /\ draining /\ calls = {}
        \/ owned = {"engine", "artifacts"} /\ open = {"engine", "artifacts"}
        \/ owned = {"artifacts"} /\ open = {"artifacts"}
        \/ owned = {} /\ open = {}

\* A stage of Close is reached only when those before it are done, and a caller
\* that converges, or a call, finds everything it needs still owned.
Staged ==
    /\ \A c \in Callers :
        /\ pc[c] # "idle" => built = "runtime"
        /\ pc[c] \in {"engine", "artifacts", "closed"} => "agent" \notin owned
        /\ pc[c] \in {"artifacts", "closed"} => "engine" \notin owned
        /\ pc[c] \in {"first", "converging"} => Live
    /\ calls # {} => built = "runtime" /\ "agent" \in owned

Inv == Types /\ Locks /\ Alone /\ Attended /\ Opened /\ Staged

\* Serve begins: the flag is set while nobody closes and everything is owned.
LEMMA BeginRunStep ==
    ASSUME Inv, NEW c \in Callers, beginRun(c) PROVE Inv'
<1>1. PICK p : p \in Steps /\ pc' = [pc EXCEPT ![c] = p] BY Zenon DEF beginRun, Goto, Steps
<1>2. pc' \in [Callers -> Steps] /\ pc'[c] = p /\ \A d \in Callers \ {c} : pc'[d] = pc[d] BY <1>1, Zenon DEF Inv, Types
<1>3. Types' BY <1>2, Zenon DEF Inv, Types, beginRun, construction, serving
<1>4. Locks' BY <1>2, CallersAssumption DEF Inv, Types, Locks, Holds, Closes, beginRun, construction, serving, Goto
<1>5. Alone' BY <1>2 DEF Inv, Types, Alone, Locks, Serves, Closes, Live, beginRun, construction, serving, Goto
<1>6. Attended' BY <1>2, Zenon DEF Inv, Types, Attended, Attends, beginRun, construction, serving, Goto
<1>7. Opened' BY Zenon DEF Inv, Opened, beginRun, construction, serving
<1>8. Staged' BY <1>2, Zenon DEF Inv, Types, Staged, Alone, Live, Serves, beginRun, construction, serving, Goto
<1> QED BY <1>3, <1>4, <1>5, <1>6, <1>7, <1>8, Zenon DEF Inv

\* Converge takes convergeMu and finds every resource still owned.
LEMMA ConvergeStep ==
    ASSUME Inv, NEW c \in Callers, Converge(c) PROVE Inv'
<1>1. PICK p : p \in Steps /\ pc' = [pc EXCEPT ![c] = p] BY Zenon DEF Converge, Goto, Steps
<1>2. pc' \in [Callers -> Steps] /\ pc'[c] = p /\ \A d \in Callers \ {c} : pc'[d] = pc[d] BY <1>1, Zenon DEF Inv, Types
<1>3. Types' BY <1>2, Zenon DEF Inv, Types, Converge, construction, serving
<1>4. Locks' BY <1>2, CallersAssumption DEF Inv, Types, Locks, Holds, Closes, Converge, construction, serving, Goto
<1>5. Alone' BY <1>2 DEF Inv, Types, Alone, Locks, Serves, Closes, Live, Converge, construction, serving, Goto
<1>6. Attended' BY <1>2, Zenon DEF Inv, Types, Attended, Attends, Converge, construction, serving, Goto
<1>7. Opened' BY Zenon DEF Inv, Opened, Converge, construction, serving
<1>8. Staged' BY <1>2, Zenon DEF Inv, Types, Staged, Alone, Live, Serves, Converge, construction, serving, Goto
<1> QED BY <1>3, <1>4, <1>5, <1>6, <1>7, <1>8, Zenon DEF Inv

\* A direct Converge returns.
LEMMA ConvergeDoneStep ==
    ASSUME Inv, NEW c \in Callers, ConvergeDone(c) PROVE Inv'
<1>1. PICK p : p \in Steps /\ pc' = [pc EXCEPT ![c] = p] BY Zenon DEF ConvergeDone, Goto, Steps
<1>2. pc' \in [Callers -> Steps] /\ pc'[c] = p /\ \A d \in Callers \ {c} : pc'[d] = pc[d] BY <1>1, Zenon DEF Inv, Types
<1>3. Types' BY <1>2, Zenon DEF Inv, Types, ConvergeDone, construction, serving
<1>4. Locks' BY <1>2, CallersAssumption DEF Inv, Types, Locks, Holds, Closes, ConvergeDone, construction, serving, Goto
<1>5. Alone' BY <1>2 DEF Inv, Types, Alone, Locks, Serves, Closes, Live, ConvergeDone, construction, serving, Goto
<1>6. Attended' BY <1>2, Zenon DEF Inv, Types, Attended, Attends, ConvergeDone, construction, serving, Goto
<1>7. Opened' BY Zenon DEF Inv, Opened, ConvergeDone, construction, serving
<1>8. Staged' BY <1>2, Zenon DEF Inv, Types, Staged, Alone, Live, Serves, ConvergeDone, construction, serving, Goto
<1> QED BY <1>3, <1>4, <1>5, <1>6, <1>7, <1>8, Zenon DEF Inv

\* The first pass is over and the loops and servers start.
LEMMA RuntimeStartStep ==
    ASSUME Inv, NEW c \in Callers, Start(c) PROVE Inv'
<1>1. PICK p : p \in Steps /\ pc' = [pc EXCEPT ![c] = p] BY Zenon DEF Start, Goto, Steps
<1>2. pc' \in [Callers -> Steps] /\ pc'[c] = p /\ \A d \in Callers \ {c} : pc'[d] = pc[d] BY <1>1, Zenon DEF Inv, Types
<1>3. Types' BY <1>2, Zenon DEF Inv, Types, Start, construction, serving
<1>4. Locks' BY <1>2, CallersAssumption DEF Inv, Types, Locks, Holds, Closes, Loops, Start, construction, serving, Goto
<1>5. Alone' BY <1>2 DEF Inv, Types, Alone, Locks, Serves, Closes, Live, Start, construction, serving, Goto
<1>6. Attended'
  <2>1. \A d \in Callers : pc'[d] # "stopping"
    BY <1>2 DEF Inv, Alone, Serves, Start, Goto
  <2>2. Attends(c)' BY <1>2, Zenon DEF Inv, Types, Attends, Start, Goto
  <2> QED BY <2>1, <2>2, Zenon DEF Attended
<1>7. Opened' BY Zenon DEF Inv, Opened, Start, construction, serving
<1>8. Staged' BY <1>2, Zenon DEF Inv, Types, Staged, Alone, Live, Serves, Start, construction, serving, Goto
<1> QED BY <1>3, <1>4, <1>5, <1>6, <1>7, <1>8, Zenon DEF Inv

\* The first pass failed.
LEMMA StartFailsStep ==
    ASSUME Inv, NEW c \in Callers, StartFails(c) PROVE Inv'
<1>1. PICK p : p \in Steps /\ pc' = [pc EXCEPT ![c] = p] BY Zenon DEF StartFails, Goto, Steps
<1>2. pc' \in [Callers -> Steps] /\ pc'[c] = p /\ \A d \in Callers \ {c} : pc'[d] = pc[d] BY <1>1, Zenon DEF Inv, Types
<1>3. Types' BY <1>2, Zenon DEF Inv, Types, StartFails, construction, serving
<1>4. Locks' BY <1>2, CallersAssumption DEF Inv, Types, Locks, Holds, Closes, StartFails, construction, serving, Goto
<1>5. Alone' BY <1>2 DEF Inv, Types, Alone, Locks, Serves, Closes, Live, StartFails, construction, serving, Goto
<1>6. Attended' BY <1>2, Zenon DEF Inv, Types, Attended, Attends, StartFails, construction, serving, Goto
<1>7. Opened' BY Zenon DEF Inv, Opened, StartFails, construction, serving
<1>8. Staged' BY <1>2, Zenon DEF Inv, Types, Staged, Alone, Live, Serves, StartFails, construction, serving, Goto
<1> QED BY <1>3, <1>4, <1>5, <1>6, <1>7, <1>8, Zenon DEF Inv

\* Serve begins to stop.
LEMMA StopStep ==
    ASSUME Inv, NEW c \in Callers, Stop(c) PROVE Inv'
<1>1. PICK p : p \in Steps /\ pc' = [pc EXCEPT ![c] = p] BY Zenon DEF Stop, Goto, Steps
<1>2. pc' \in [Callers -> Steps] /\ pc'[c] = p /\ \A d \in Callers \ {c} : pc'[d] = pc[d] BY <1>1, Zenon DEF Inv, Types
<1>3. Types'
  <2>1. stop' \subseteq Servers BY Zenon DEF Stop, Reasons
  <2> QED BY <1>2, <2>1, Zenon DEF Inv, Types, Stop, construction
<1>4. Locks' BY <1>2, CallersAssumption DEF Inv, Types, Locks, Holds, Closes, Stop, construction, serving, Goto
<1>5. Alone' BY <1>2 DEF Inv, Types, Alone, Locks, Serves, Closes, Live, Stop, construction, serving, Goto
<1>6. Attended'
  <2>1. server' = server /\ loop' = loop /\ Attends(c)'
    BY <1>2, Zenon DEF Inv, Types, Attends, Stop, Goto
  <2>2. \A s \in Servers : server[s] = "on" => s \in stop' BY Zenon DEF Stop, Reasons
  <2> QED BY <2>1, <2>2, Zenon DEF Attended
<1>7. Opened' BY Zenon DEF Inv, Opened, Stop, construction, serving
<1>8. Staged' BY <1>2, Zenon DEF Inv, Types, Staged, Alone, Live, Serves, Stop, construction, serving, Goto
<1> QED BY <1>3, <1>4, <1>5, <1>6, <1>7, <1>8, Zenon DEF Inv

\* Serve has joined its loops and servers.
LEMMA JoinStep ==
    ASSUME Inv, NEW c \in Callers, Join(c) PROVE Inv'
<1>1. PICK p : p \in Steps /\ pc' = [pc EXCEPT ![c] = p] BY Zenon DEF Join, Goto, Steps
<1>2. pc' \in [Callers -> Steps] /\ pc'[c] = p /\ \A d \in Callers \ {c} : pc'[d] = pc[d] BY <1>1, Zenon DEF Inv, Types
<1>3. Types' BY <1>2, Zenon DEF Inv, Types, Join, construction, serving
<1>4. Locks' BY <1>2, CallersAssumption DEF Inv, Types, Locks, Holds, Closes, Join, construction, serving, Goto
<1>5. Alone' BY <1>2 DEF Inv, Types, Alone, Locks, Serves, Closes, Live, Join, construction, serving, Goto
<1>6. Attended'
  <2>1. UNCHANGED <<loop, server, stop>> /\ pc[c] = "stopping" /\ pc'[c] = "end" /\ stop = {}
        /\ \A l \in Loops : loop[l] = "off"
    BY <1>2, Zenon DEF Inv, Types, Join, serving, Goto
  <2>2. \A s \in Servers : server[s] # "on" BY <2>1, Zenon DEF Inv, Attended
  <2> QED BY <2>1, <2>2, Zenon DEF Attended
<1>7. Opened' BY Zenon DEF Inv, Opened, Join, construction, serving
<1>8. Staged' BY <1>2, Zenon DEF Inv, Types, Staged, Alone, Live, Serves, Join, construction, serving, Goto
<1> QED BY <1>3, <1>4, <1>5, <1>6, <1>7, <1>8, Zenon DEF Inv

\* Serve returns and clears the flag.
LEMMA EndRunStep ==
    ASSUME Inv, NEW c \in Callers, endRun(c) PROVE Inv'
<1>1. PICK p : p \in Steps /\ pc' = [pc EXCEPT ![c] = p] BY Zenon DEF endRun, Goto, Steps
<1>2. pc' \in [Callers -> Steps] /\ pc'[c] = p /\ \A d \in Callers \ {c} : pc'[d] = pc[d] BY <1>1, Zenon DEF Inv, Types
<1>3. Types' BY <1>2, Zenon DEF Inv, Types, endRun, construction, serving
<1>4. Locks' BY <1>2, CallersAssumption DEF Inv, Types, Locks, Holds, Closes, endRun, construction, serving, Goto
<1>5. Alone' BY <1>2 DEF Inv, Types, Alone, Locks, Serves, Closes, Live, endRun, construction, serving, Goto
<1>6. Attended' BY <1>2, Zenon DEF Inv, Types, Attended, Attends, endRun, construction, serving, Goto
<1>7. Opened' BY Zenon DEF Inv, Opened, endRun, construction, serving
<1>8. Staged' BY <1>2, Zenon DEF Inv, Types, Staged, Alone, Live, Serves, endRun, construction, serving, Goto
<1> QED BY <1>3, <1>4, <1>5, <1>6, <1>7, <1>8, Zenon DEF Inv

\* Close takes runMu while nobody serves.
LEMMA CloseStep ==
    ASSUME Inv, NEW c \in Callers, Close(c) PROVE Inv'
<1>1. PICK p : p \in Steps /\ pc' = [pc EXCEPT ![c] = p] BY Zenon DEF Close, Goto, Steps
<1>2. pc' \in [Callers -> Steps] /\ pc'[c] = p /\ \A d \in Callers \ {c} : pc'[d] = pc[d] BY <1>1, Zenon DEF Inv, Types
<1>3. Types' BY <1>2, Zenon DEF Inv, Types, Close, construction, serving
<1>4. Locks' BY <1>2, CallersAssumption DEF Inv, Types, Locks, Holds, Closes, Close, construction, serving, Goto
<1>5. Alone' BY <1>2 DEF Inv, Types, Alone, Locks, Serves, Closes, Live, Close, construction, serving, Goto
<1>6. Attended' BY <1>2, Zenon DEF Inv, Types, Attended, Attends, Close, construction, serving, Goto
<1>7. Opened' BY Zenon DEF Inv, Opened, Close, construction, serving
<1>8. Staged' BY <1>2, Zenon DEF Inv, Types, Staged, Alone, Live, Serves, Close, construction, serving, Goto
<1> QED BY <1>3, <1>4, <1>5, <1>6, <1>7, <1>8, Zenon DEF Inv

\* Close takes convergeMu as well.
LEMMA CloseLocksStep ==
    ASSUME Inv, NEW c \in Callers, CloseLocks(c) PROVE Inv'
<1>1. PICK p : p \in Steps /\ pc' = [pc EXCEPT ![c] = p] BY Zenon DEF CloseLocks, Goto, Steps
<1>2. pc' \in [Callers -> Steps] /\ pc'[c] = p /\ \A d \in Callers \ {c} : pc'[d] = pc[d] BY <1>1, Zenon DEF Inv, Types
<1>3. Types' BY <1>2, Zenon DEF Inv, Types, CloseLocks, construction, serving
<1>4. Locks' BY <1>2, CallersAssumption DEF Inv, Types, Locks, Holds, Closes, CloseLocks, construction, serving, Goto
<1>5. Alone' BY <1>2 DEF Inv, Types, Alone, Locks, Serves, Closes, Live, CloseLocks, construction, serving, Goto
<1>6. Attended' BY <1>2, Zenon DEF Inv, Types, Attended, Attends, CloseLocks, construction, serving, Goto
<1>7. Opened' BY Zenon DEF Inv, Opened, CloseLocks, construction, serving
<1>8. Staged' BY <1>2, Zenon DEF Inv, Types, Staged, Alone, Live, Serves, CloseLocks, construction, serving, Goto
<1> QED BY <1>3, <1>4, <1>5, <1>6, <1>7, <1>8, Zenon DEF Inv

\* A stage failed and both mutexes are released.
LEMMA CloseFailsStep ==
    ASSUME Inv, NEW c \in Callers, CloseFails(c) PROVE Inv'
<1>1. PICK p : p \in Steps /\ pc' = [pc EXCEPT ![c] = p] BY Zenon DEF CloseFails, Release, NextStage, Goto, Steps
<1>2. pc' \in [Callers -> Steps] /\ pc'[c] = p /\ \A d \in Callers \ {c} : pc'[d] = pc[d] BY <1>1, Zenon DEF Inv, Types
<1>3. Types' BY <1>2, Zenon DEF Inv, Types, CloseFails, Release, NextStage, construction, serving
<1>4. Locks' BY <1>2, CallersAssumption DEF Inv, Types, Locks, Holds, Closes, CloseFails, Release, NextStage, construction, serving, Goto
<1>5. Alone' BY <1>2 DEF Inv, Types, Alone, Locks, Serves, Closes, Live, CloseFails, Release, NextStage, construction, serving, Goto
<1>6. Attended' BY <1>2, Zenon DEF Inv, Types, Attended, Attends, CloseFails, Release, NextStage, construction, serving, Goto
<1>7. Opened'
  <2>1. /\ UNCHANGED <<built, owned, draining, calls>> /\ built = "runtime"
        /\ \/ open' = open
           \/ "agent" \in owned /\ draining /\ calls = {} /\ open' = open \ {"cache"}
    BY Zenon DEF Inv, Staged, CloseFails, AgentClosing, NextStage, serving
  <2> QED BY <2>1, ZenonT(40) DEF Inv, Opened, Resources
<1>8. Staged' BY <1>2, Zenon DEF Inv, Types, Staged, Alone, Live, Serves, CloseFails, Release, NextStage, construction, serving, Goto
<1> QED BY <1>3, <1>4, <1>5, <1>6, <1>7, <1>8, Zenon DEF Inv

\* Agent.Close begins: from here on no call enters.
LEMMA DrainStep ==
    ASSUME Inv, NEW c \in Callers, Drain(c) PROVE Inv'
<1>1. /\ UNCHANGED <<built, open, owned, running, runMu, convergeMu, pc, cancelled, loop, server, stop, calls>>
      /\ draining' = TRUE
  BY Zenon DEF Drain, serving
<1>2. Types' /\ Locks' BY <1>1, Zenon DEF Inv, Types, Locks, Holds, Closes
<1>3. Alone' /\ Attended' BY <1>1, Zenon DEF Inv, Alone, Serves, Live, Attended, Attends
<1>4. Opened' /\ Staged' BY <1>1, Zenon DEF Inv, Opened, Staged, Live
<1> QED BY <1>2, <1>3, <1>4, Zenon DEF Inv

\* Close is done and releases both mutexes.
LEMMA CloseDoneStep ==
    ASSUME Inv, NEW c \in Callers, CloseDone(c) PROVE Inv'
<1>1. PICK p : p \in Steps /\ pc' = [pc EXCEPT ![c] = p] BY Zenon DEF CloseDone, Release, Goto, Steps
<1>2. pc' \in [Callers -> Steps] /\ pc'[c] = p /\ \A d \in Callers \ {c} : pc'[d] = pc[d] BY <1>1, Zenon DEF Inv, Types
<1>3. Types' BY <1>2, Zenon DEF Inv, Types, CloseDone, Release, construction, serving
<1>4. Locks' BY <1>2, CallersAssumption DEF Inv, Types, Locks, Holds, Closes, CloseDone, Release, construction, serving, Goto
<1>5. Alone' BY <1>2 DEF Inv, Types, Alone, Locks, Serves, Closes, Live, CloseDone, Release, construction, serving, Goto
<1>6. Attended' BY <1>2, Zenon DEF Inv, Types, Attended, Attends, CloseDone, Release, construction, serving, Goto
<1>7. Opened' BY Zenon DEF Inv, Opened, CloseDone, Release, construction, serving
<1>8. Staged' BY <1>2, Zenon DEF Inv, Types, Staged, Alone, Live, Serves, CloseDone, Release, construction, serving, Goto
<1> QED BY <1>3, <1>4, <1>5, <1>6, <1>7, <1>8, Zenon DEF Inv

\* New opens one resource after another; the Runtime owns what must be closed.
LEMMA BuildStep ==
    ASSUME Inv, Build PROVE Inv'
<1>1. UNCHANGED <<draining, running, runMu, convergeMu, pc, cancelled, loop, server, stop, calls>> BY Zenon DEF Build, serving
<1>2. built \in {"artifacts", "validator", "engine", "cache", "ids", "agent", "rest"} BY Zenon DEF Build, After
<1>3. \A c \in Callers : pc[c] = "idle" BY <1>2, Zenon DEF Inv, Staged
<1>4. ~running /\ calls = {} BY <1>2, <1>3, Zenon DEF Inv, Alone, Serves, Staged
<1>5. Types' /\ Opened'
  <2>1. open' = open \cup ({built} \cap Resources)
        /\ owned' = IF built = "rest" THEN {"agent", "engine", "artifacts"} ELSE owned
    BY Zenon DEF Build
  <2>2. CASE built \in {"artifacts", "validator", "engine"}
    <3>1. \/ built = "artifacts" /\ built' = "validator"
          \/ built = "validator" /\ built' = "engine"
          \/ built = "engine" /\ built' = "cache"
      BY <2>2 DEF Build, After
    <3> QED BY <1>1, <2>1, <3>1, Zenon DEF Inv, Types, Opened, Resources
  <2>3. CASE built \in {"cache", "ids", "agent", "rest"}
    <3>1. \/ built = "cache" /\ built' = "ids"
          \/ built = "ids" /\ built' = "agent"
          \/ built = "agent" /\ built' = "rest"
          \/ built = "rest" /\ built' = "runtime"
      BY <2>3 DEF Build, After
    <3> QED BY <1>1, <2>1, <3>1, Zenon DEF Inv, Types, Opened, Resources
  <2> QED BY <1>2, <2>2, <2>3, Zenon
<1>6. Locks' BY <1>1, Zenon DEF Inv, Locks, Holds, Closes
<1>7. Alone' BY <1>1, <1>3, <1>4, Zenon DEF Inv, Alone, Serves
<1>8. Attended' BY <1>1, Zenon DEF Inv, Attended, Attends
<1>9. Staged' BY <1>1, <1>3, <1>4, Zenon DEF Staged
<1> QED BY <1>5, <1>6, <1>7, <1>8, <1>9, Zenon DEF Inv

\* A New that fails closes what the stages before it opened.
LEMMA BuildFailsStep ==
    ASSUME Inv, BuildFails PROVE Inv'
<1>1. UNCHANGED <<owned, draining, running, runMu, convergeMu, pc, cancelled, loop, server, stop, calls>>
      /\ built' = "failed" /\ open' = open \ ClosedOnError
  BY Zenon DEF BuildFails, serving
<1>2. built \in {"artifacts", "validator", "engine", "cache", "ids", "agent", "rest"} BY Zenon DEF BuildFails, After
<1>3. \A c \in Callers : pc[c] = "idle" BY <1>2, Zenon DEF Inv, Staged
<1>4. ~running /\ calls = {} /\ owned = {} BY <1>2, <1>3, Zenon DEF Inv, Alone, Serves, Staged, Opened
<1>5. open' = {} BY <1>1, <1>2, Zenon DEF Inv, Opened, ClosedOnError, Resources
<1>6. Types' /\ Opened' BY <1>1, <1>4, <1>5, Zenon DEF Inv, Types, Opened
<1>7. Locks' BY <1>1, Zenon DEF Inv, Locks, Holds, Closes
<1>8. Alone' BY <1>1, <1>3, <1>4, Zenon DEF Inv, Alone, Serves
<1>9. Attended' BY <1>1, Zenon DEF Inv, Attended, Attends
<1>10. Staged' BY <1>1, <1>3, <1>4, Zenon DEF Staged
<1> QED BY <1>6, <1>7, <1>8, <1>9, <1>10, Zenon DEF Inv

\* A background loop begins or ends a pass, or stops.
LEMMA LoopStep ==
    ASSUME Inv, NEW l \in Loops, LoopBegins(l) \/ LoopEnds(l) \/ LoopStops(l) PROVE Inv'
<1>1. UNCHANGED <<built, open, owned, draining, running, runMu, pc, cancelled, server, stop, calls>>
  BY Zenon DEF LoopBegins, LoopEnds, LoopStops, construction
<1>2. PICK p : p \in {"off", "waiting", "working"} /\ loop' = [loop EXCEPT ![l] = p]
  BY Zenon DEF LoopBegins, LoopEnds, LoopStops
<1>3. loop' \in [Loops -> {"off", "waiting", "working"}] /\ loop'[l] = p
      /\ \A k \in Loops \ {l} : loop'[k] = loop[k]
  BY <1>2, Zenon DEF Inv, Types
<1>4. Types' BY <1>1, <1>3, Zenon DEF Inv, Types, LoopBegins, LoopEnds, LoopStops
<1>5. Locks' BY <1>1, <1>3, CallersAssumption
  DEF Inv, Types, Locks, Holds, Closes, Loops, LoopBegins, LoopEnds, LoopStops
<1>6. Alone' BY <1>1, Zenon DEF Inv, Alone, Serves, Live
<1>7. loop[l] # "off" BY Zenon DEF LoopBegins, LoopEnds, LoopStops
<1>8. Attended' BY <1>1, <1>3, <1>7, Zenon DEF Inv, Attended, Attends
<1>9. Opened' /\ Staged' BY <1>1, Zenon DEF Inv, Opened, Staged, Live
<1> QED BY <1>4, <1>5, <1>6, <1>8, <1>9, Zenon DEF Inv

\* A call enters the Agent until the Agent is closing, and nothing it uses is closed
\* before.
LEMMA CallStep ==
    ASSUME Inv, NEW k \in Calls, CallBegins(k) \/ CallEnds(k) PROVE Inv'
<1>1. UNCHANGED <<built, open, owned, draining, running, runMu, convergeMu, pc, cancelled, loop, server, stop>>
      /\ (calls' = calls \cup {k} \/ calls' = calls \ {k})
  BY Zenon DEF CallBegins, CallEnds, construction
<1>2. Types' /\ Locks' BY <1>1, Zenon DEF Inv, Types, Locks, Holds, Closes
<1>3. Alone' BY <1>1, Zenon DEF Inv, Alone, Serves, Live
<1>4. Attended' BY <1>1, Zenon DEF Inv, Attended, Attends
<1>5. Opened' /\ (calls' # {} => built = "runtime" /\ "agent" \in owned)
  <2>1. CASE CallBegins(k)
    <3>1. built = "runtime" /\ "agent" \in open /\ ~draining BY <2>1, Zenon DEF CallBegins
    <3> QED BY <1>1, <3>1, Zenon DEF Inv, Opened
  <2>2. CASE CallEnds(k)
    <3>1. k \in calls /\ calls' = calls \ {k} BY <2>2, Zenon DEF CallEnds
    <3> QED BY <1>1, <3>1, Zenon DEF Inv, Opened, Staged
  <2> QED BY <2>1, <2>2, Zenon
<1>6. Staged' BY <1>1, <1>5, Zenon DEF Inv, Staged, Live
<1> QED BY <1>2, <1>3, <1>4, <1>5, <1>6, Zenon DEF Inv

\* A server fails or is shut down.
LEMMA ServerStep ==
    ASSUME Inv, NEW s \in Servers, ServerFails(s) \/ \E c \in Callers : Shutdown(c, s) PROVE Inv'
<1>1. UNCHANGED <<built, open, owned, draining, running, runMu, convergeMu, pc, cancelled, loop, calls>>
  BY Zenon DEF ServerFails, Shutdown, construction
<1>2. PICK p : p \in {"shut", "failed"} /\ server' = [server EXCEPT ![s] = p] BY Zenon DEF ServerFails, Shutdown
<1>3. server' \in [Servers -> {"off", "on", "shut", "failed"}] /\ server'[s] # "on"
      /\ \A t \in Servers : server'[t] = "on" => server[t] = "on"
  BY <1>2, Zenon DEF Inv, Types
<1>4. stop' \subseteq stop /\ \A t \in stop : t # s => t \in stop' BY Zenon DEF ServerFails, Shutdown
<1>5. Types' /\ Locks' BY <1>1, <1>3, <1>4, Zenon DEF Inv, Types, Locks, Holds, Closes
<1>6. Alone' BY <1>1, Zenon DEF Inv, Alone, Serves, Live
<1>7. Attended' BY <1>1, <1>3, <1>4, Zenon DEF Inv, Attended, Attends
<1>8. Opened' /\ Staged' BY <1>1, Zenon DEF Inv, Opened, Staged, Live
<1> QED BY <1>5, <1>6, <1>7, <1>8, Zenon DEF Inv

\* A stage of Close: its caller holds both mutexes, so nobody else serves,
\* converges or closes, and no call is left when the Agent goes.
LEMMA CloseStageStep ==
    ASSUME Inv, NEW c \in Callers, CloseStage(c) PROVE Inv'
<1>1. pc[c] \in {"agent", "engine", "artifacts"} BY Zenon DEF CloseStage, NextStage
<1>2. PICK p : p \in {"engine", "artifacts", "closed"} /\ pc' = [pc EXCEPT ![c] = p]
               /\ (pc[c] = "agent" => p = "engine") /\ (pc[c] = "engine" => p = "artifacts")
               /\ (pc[c] = "artifacts" => p = "closed")
  <2>1. pc' = [pc EXCEPT ![c] = NextStage[pc[c]]] BY Zenon DEF CloseStage, Goto
  <2>2. NextStage["agent"] = "engine" /\ NextStage["engine"] = "artifacts" /\ NextStage["artifacts"] = "closed"
    BY Zenon DEF NextStage
  <2> QED BY <1>1, <2>1, <2>2, Zenon
<1>3. pc' \in [Callers -> Steps] /\ pc'[c] = p /\ \A d \in Callers \ {c} : pc'[d] = pc[d]
  BY <1>2, Zenon DEF Inv, Types, Steps
<1>4. UNCHANGED <<built, draining, running, runMu, convergeMu, cancelled, loop, server, stop, calls>>
  BY Zenon DEF CloseStage, serving
<1>5. runMu = c /\ convergeMu = c /\ built = "runtime" BY <1>1, Zenon DEF Inv, Locks, Closes, Holds, Staged
<1>6. ~running BY <1>5, CallersAssumption, Zenon DEF Inv, Alone
<1>7. \A d \in Callers \ {c} : ~Holds(d) /\ ~Closes(d) /\ ~Serves(d) BY <1>5, <1>6, Zenon DEF Inv, Locks, Alone
<1>8. Types' BY <1>3, <1>4, Zenon DEF Inv, Types
<1>9. Locks' BY <1>1, <1>2, <1>3, <1>4, <1>5, Zenon DEF Inv, Locks, Holds, Closes
<1>10. Alone' BY <1>1, <1>2, <1>3, <1>4, <1>6, Zenon DEF Inv, Alone, Serves
<1>11. Attended' BY <1>1, <1>2, <1>3, <1>4, Zenon DEF Inv, Attended, Attends
<1>12. owned' = owned \ {pc[c]} /\ (pc[c] = "agent" /\ "agent" \in owned => calls = {})
       /\ open' = IF pc[c] \in owned THEN open \ ({pc[c]} \cup (IF pc[c] = "agent" THEN {"cache"} ELSE {})) ELSE open
  BY Zenon DEF CloseStage
<1>13. Opened' BY <1>1, <1>4, <1>5, <1>12, Zenon DEF Inv, Opened, Resources, Staged
<1>14. Staged'
  <2>1. \A d \in Callers \ {c} : pc'[d] \notin {"first", "converging", "engine", "artifacts", "closed"}
    BY <1>3, <1>7, Zenon DEF Holds
  <2>2. calls' # {} => "agent" \in owned' BY <1>1, <1>4, <1>12, Zenon DEF Inv, Staged
  <2>3. pc'[c] \in {"engine", "artifacts", "closed"} => "agent" \notin owned'
    BY <1>1, <1>2, <1>3, <1>12, Zenon DEF Inv, Staged
  <2>4. pc'[c] \in {"artifacts", "closed"} => "engine" \notin owned'
    BY <1>1, <1>2, <1>3, <1>12, Zenon DEF Inv, Staged
  <2> QED BY <1>2, <1>3, <1>4, <1>5, <2>1, <2>2, <2>3, <2>4, Zenon DEF Staged
<1> QED BY <1>8, <1>9, <1>10, <1>11, <1>13, <1>14, Zenon DEF Inv

\* A process starts with nothing built.
LEMMA RuntimeStart == Init => Inv
<1> SUFFICES ASSUME Init PROVE Inv BY Zenon
<1>1. Types BY Zenon DEF Init, Types, Steps, Loops
<1>2. Locks BY CallersAssumption, Zenon DEF Init, Locks, Holds, Closes, Loops
<1>3. Alone /\ Attended BY Zenon DEF Init, Alone, Serves, Attended
<1>4. Opened /\ Staged BY Zenon DEF Init, Opened, Staged
<1> QED BY <1>1, <1>2, <1>3, <1>4, Zenon DEF Inv

\* The invariant holds of every reachable state: one step per operation.
LEMMA Invariant == Spec => []Inv
<1>1. ASSUME Inv, [Next]_vars PROVE Inv'
  <2>1. CASE Build BY <1>1, <2>1, BuildStep, Zenon
  <2>2. CASE BuildFails BY <1>1, <2>2, BuildFailsStep, Zenon
  <2>3. ASSUME NEW c \in Callers, beginRun(c) \/ Converge(c) \/ ConvergeDone(c) \/ Stop(c) PROVE Inv'
    BY <1>1, <2>3, BeginRunStep, ConvergeStep, ConvergeDoneStep, StopStep, Zenon
  <2>4. ASSUME NEW c \in Callers, Serve(c) PROVE Inv'
    BY <1>1, <2>4, RuntimeStartStep, StartFailsStep, JoinStep, EndRunStep, ServerStep, Zenon DEF Serve
  <2>5. ASSUME NEW c \in Callers, Close(c) \/ Closing(c) PROVE Inv'
    BY <1>1, <2>5, CloseStep, CloseLocksStep, DrainStep, CloseStageStep, CloseFailsStep, CloseDoneStep, Zenon DEF Closing
  <2>6. ASSUME NEW l \in Loops, LoopBegins(l) \/ LoopEnds(l) \/ LoopStops(l) PROVE Inv'
    BY <1>1, <2>6, LoopStep, Zenon
  <2>7. ASSUME NEW k \in Calls, CallBegins(k) \/ CallEnds(k) PROVE Inv' BY <1>1, <2>7, CallStep, Zenon
  <2>8. ASSUME NEW s \in Servers, ServerFails(s) PROVE Inv' BY <1>1, <2>8, ServerStep, Zenon
  <2>9. CASE UNCHANGED vars
    <3>1. Types' /\ Locks' BY <1>1, <2>9, Zenon DEF vars, Inv, Types, Locks, Holds, Closes
    <3>2. Alone' /\ Attended' BY <1>1, <2>9, Zenon DEF vars, Inv, Alone, Serves, Live, Attended, Attends
    <3>3. Opened' /\ Staged' BY <1>1, <2>9, Zenon DEF vars, Inv, Opened, Staged, Live
    <3> QED BY <3>1, <3>2, <3>3, Zenon DEF Inv
  <2> QED BY <1>1, <2>1, <2>2, <2>3, <2>4, <2>5, <2>6, <2>7, <2>8, <2>9, Zenon DEF Next
<1> QED BY <1>1, RuntimeStart, PTL DEF Spec

\* Whoever is inside Serve is alone there.
LEMMA ServesAlone == Inv => ServeAlone
<1> SUFFICES ASSUME Inv PROVE ServeAlone BY Zenon
<1> DEFINE S == {c \in Callers : pc[c] \in {"begun", "first", "serving", "stopping", "end"}}
<1>1. \A c, d \in S : c = d BY Zenon DEF Inv, Alone, Serves
<1>2. (S # {}) <=> running BY Zenon DEF Inv, Alone, Serves
<1>3. (S # {}) = running BY <1>2, Zenon DEF Inv, Types
<1>4. running => runMu = "none" BY Zenon DEF Inv, Alone
<1> QED BY <1>1, <1>3, <1>4, Zenon DEF ServeAlone

\* At every moment, over any number of Serve, Converge and Close calls in any
\* order and any failures of theirs: a failed New leaves nothing open, Close
\* closes Agent, Engine and Artifact Store in that order, nothing is closed under
\* a pass, a loop or a call, and one Serve runs at a time.
THEOREM RuntimeHolds == Spec => []RuntimeInvariant
<1>1. ASSUME Inv PROVE RuntimeInvariant
  <2>1. owned \subseteq open /\ open \subseteq Resources BY <1>1, Zenon DEF Inv, Types, Opened, Resources
  <2>2. TypeOK BY <1>1, <2>1, Zenon DEF Inv, Types, Steps, TypeOK, After
  <2>3. NewUnwinds /\ ClosedInOrder BY <1>1, Zenon DEF Inv, Opened, NewUnwinds, ClosedInOrder, Resources
  <2>0. built = "runtime" /\ Live => PassHasResources
    BY <1>1 DEF Inv, Opened, Live, PassHasResources, Resources
  <2>4. running => PassHasResources BY <1>1, <2>0, Zenon DEF Inv, Alone, Staged, Serves
  <2>5. \A c \in Callers : pc[c] \in {"first", "converging"} => PassHasResources
    BY <1>1, <2>0, Zenon DEF Inv, Staged
  <2>6. \A l \in Loops : loop[l] = "working" => PassHasResources
    BY <1>1, <2>4, Zenon DEF Inv, Attended, Attends, Alone, Serves
  <2>7. calls # {} => {"cache", "engine", "agent"} \subseteq open BY <1>1, Zenon DEF Inv, Staged, Opened, Resources
  <2>8. UsersHaveResources BY <2>5, <2>6, <2>7, Zenon DEF UsersHaveResources
  <2>9. ServeAlone BY <1>1, ServesAlone, Zenon
  <2> QED BY <2>2, <2>3, <2>8, <2>9, Zenon DEF RuntimeInvariant
<1> QED BY <1>1, Invariant, PTL

-----------------------------------------------------------------------------
(***************************************************************************)
(* The stores: Functions, Versions, Routes and placements refer to each    *)
(* other soundly between any two operations and whatever the admissions    *)
(* and the placement pass do meanwhile, and they only move forward.        *)
(***************************************************************************)

USE MaxOpsAssumption, ResumeLimitAssumption

\* The records of the stores.
Lifecycles == {"Active", "Disabled"}
Revisions == Nat \ {0}
FunctionRecord == [lifecycle : Lifecycles, activeRoute : Nat, revision : Revisions, updatedAt : Revisions]
VersionRecord == [function : Functions, state : {"Uploaded", "Validating", "Ready", "Failed"},
                  revision : Revisions, updatedAt : Revisions, fenced : BOOLEAN]
RouteRecord == [revision : Revisions, version : Versions, index : Revisions]
AssignmentRecord == [function : Functions, version : Versions, state : {"Assigned", "Cancelled"},
                     revision : Revisions, lastIndex : Revisions]

\* The operations, by what they carry from their reservation to the store.
CreateFunctionOp == [kind : {"function"}, function : Functions, index : Revisions]
LifecycleOp == [kind : {"lifecycle"}, function : Functions, lifecycle : Lifecycles, expected : Nat,
                index : Revisions]
CreateVersionOp == [kind : {"version"}, function : Functions, version : Versions, index : Revisions,
                    start : Revisions]
PublishOp == [kind : {"publish"}, function : Functions, version : Versions, expected : Nat,
              index : Revisions]

\* The commands an operation reserved are newer than any change of a Function,
\* and what its preparation found of the Function and of the Version still holds.
OperationSound ==
  \/ op = NoOp
  \/ /\ op.index <= index
     /\ \A f \in DOMAIN functions : functions[f].updatedAt < op.index
     /\ \/ op \in CreateFunctionOp /\ op.function \notin DOMAIN functions
        \/ op \in LifecycleOp /\ op.function \in DOMAIN functions
        \/ /\ op \in CreateVersionOp /\ op.function \in DOMAIN functions
           /\ op.version \notin DOMAIN versions /\ op.start <= index /\ op.index < op.start
        \/ op \in PublishOp /\ op.function \in DOMAIN functions

\* Functions and Routes: what the operations under operationMu rely on.
CatalogSound ==
  /\ index \in Nat
  /\ DOMAIN functions \subseteq Functions
  /\ \A f \in DOMAIN functions : functions[f] \in FunctionRecord /\ functions[f].updatedAt <= index
  /\ DOMAIN routes \subseteq DOMAIN functions
  /\ \A f \in DOMAIN routes : routes[f] \in RouteRecord /\ routes[f].index <= index
  /\ ServingStatesSound /\ OperationSound

\* A goroutine that drives an admission, in each of its phases.
Resting == [at : {"idle", "looping"}]
Creating == [at : {"created", "claimed"}, version : Versions, index : Revisions]
Taking == [at : {"taken"}, version : Versions]
Admitting == [at : {"admitting"}, version : Versions, revision : Revisions]
Reporting == [at : {"reported"}, version : Versions, revision : Revisions, valid : BOOLEAN,
              index : Revisions]

\* The phase s of driver d fits the Version it is about.
DriverSound(d, s) ==
  \/ s \in Resting
  \/ /\ s \in Creating /\ s.version = d /\ s.version \in DOMAIN versions /\ s.index <= index
     /\ versions[s.version].state = "Uploaded" /\ versions[s.version].updatedAt < s.index
  \/ s \in Taking /\ s.version \in DOMAIN versions
  \/ /\ s \in Admitting /\ s.version \in DOMAIN versions
     /\ versions[s.version].state = "Validating" /\ versions[s.version].revision = s.revision
  \/ /\ s \in Reporting /\ s.version \in DOMAIN versions /\ s.index <= index
     /\ versions[s.version].state = "Validating" /\ versions[s.version].revision = s.revision
     /\ versions[s.version].updatedAt < s.index

\* Versions, their Deployments and their admissions.
AdmissionSound ==
  /\ DOMAIN versions \subseteq Versions
  /\ \A v \in DOMAIN versions :
        /\ versions[v] \in VersionRecord /\ versions[v].updatedAt <= index
        /\ versions[v].revision = Rank[versions[v].state] + 1
  /\ deployments \subseteq Versions
  /\ claims \subseteq Versions
  /\ pending \subseteq DOMAIN versions /\ processed \in 0..ResumeLimit
  /\ DOMAIN driver = Drivers /\ \A d \in Drivers : DriverSound(d, driver[d])
  /\ ReleasesSound /\ SingleAdmission

\* What the placement pass has listed: targets and live placements.
TargetMaps == UNION {[S -> Versions \cup {NoVersion}] : S \in SUBSET Functions}
LiveMaps == UNION {[S -> Nat] : S \in SUBSET Functions}

\* The placement pass in each of its phases.
Listing == [at : {"listed"}, target : TargetMaps]
Choosing == [at : {"deciding"}, target : TargetMaps, live : LiveMaps, todo : SUBSET Functions]
Cancelling == [at : {"cancelling"}, target : TargetMaps, live : LiveMaps, todo : SUBSET Functions,
               assignment : Revisions, revision : Revisions, index : Revisions]
Placing == [at : {"installing"}, target : TargetMaps, live : LiveMaps, todo : SUBSET Functions,
            function : Functions, version : Versions, index : Revisions]

\* Of a Function it has still to decide, the pass knows the live placement: only
\* the pass changes placements.
StillKnown(target, live, todo) ==
  \A f \in todo : /\ f \in DOMAIN target /\ target[f] \in Versions
                  /\ f \in DOMAIN live
                  /\ live[f] = 0 => Assigned(f) = {}
                  /\ live[f] # 0 => live[f] \in Assigned(f)

\* The placement pass in its phases: what it is about to write is still right.
PassSound ==
  \/ place = Idle
  \/ place \in Listing
  \/ place \in Choosing /\ StillKnown(place.target, place.live, place.todo)
  \/ /\ place \in Cancelling /\ StillKnown(place.target, place.live, place.todo)
     /\ place.assignment \in DOMAIN assignments /\ place.index <= index
     /\ assignments[place.assignment].function \notin place.todo
  \/ /\ place \in Placing /\ StillKnown(place.target, place.live, place.todo)
     /\ place.function \notin place.todo /\ place.index <= index
     /\ Assigned(place.function) = {}

\* A Function has one Assigned placement at most.
OneAssigned == \A f \in Functions : \A a, b \in Assigned(f) : a = b

\* Whether the target has its placement.
Placed(f, v) == \E a \in Assigned(f) : assignments[a].version = v

\* Placements, their counts per Version, and the pass over them.
PlacementSound ==
  /\ assignments \in Seq(AssignmentRecord)
  /\ \A a \in DOMAIN assignments :
        /\ assignments[a].lastIndex <= index
        /\ assignments[a].revision = IF assignments[a].state = "Assigned" THEN 1 ELSE 2
  /\ activeCounts \in [Functions \X Versions -> Nat]
  /\ \A f \in Functions, v \in Versions : activeCounts[<<f, v>>] = IF Placed(f, v) THEN 1 ELSE 0
  /\ OneAssigned /\ PassSound

\* The inductive invariant.
StoresInv == CatalogSound /\ AdmissionSound /\ PlacementSound

-----------------------------------------------------------------------------
(* Functions and Routes.                                                   *)

\* What operation is under way, from its kind.
LEMMA OperationKinds ==
  ASSUME OperationSound, op # NoOp
  PROVE  /\ op.index <= index /\ op.index \in Revisions
         /\ \A f \in DOMAIN functions : functions[f].updatedAt < op.index
         /\ op.kind = "function" => op \in CreateFunctionOp /\ op.function \notin DOMAIN functions
         /\ op.kind = "lifecycle" => op \in LifecycleOp /\ op.function \in DOMAIN functions
         /\ op.kind = "version" =>
              /\ op \in CreateVersionOp /\ op.function \in DOMAIN functions
              /\ op.version \notin DOMAIN versions /\ op.start <= index /\ op.index < op.start
         /\ op.kind = "publish" => op \in PublishOp /\ op.function \in DOMAIN functions
<1>1. /\ \A o \in CreateFunctionOp : o.kind = "function" /\ o.index \in Revisions
      /\ \A o \in LifecycleOp : o.kind = "lifecycle" /\ o.index \in Revisions
      /\ \A o \in CreateVersionOp : o.kind = "version" /\ o.index \in Revisions
      /\ \A o \in PublishOp : o.kind = "publish" /\ o.index \in Revisions
  BY Zenon DEF CreateFunctionOp, LifecycleOp, CreateVersionOp, PublishOp
<1> QED BY <1>1, Zenon DEF OperationSound

\* Routes keep a sound target while Versions only move forward.
LEMMA CatalogFrame ==
  ASSUME CatalogSound, UNCHANGED <<functions, routes, op>>, index' \in Nat, index <= index',
         DOMAIN versions' = DOMAIN versions,
         \A f, v : validateReadyTarget(f, v) => validateReadyTarget(f, v)'
  PROVE  CatalogSound'
<1>1. /\ index \in Nat
      /\ \A f \in DOMAIN functions : functions[f] \in FunctionRecord /\ functions[f].updatedAt <= index
      /\ \A f \in DOMAIN routes : routes[f] \in RouteRecord /\ routes[f].index <= index
  BY Zenon DEF CatalogSound
<1>2. \A f \in DOMAIN functions : functions[f] \in FunctionRecord /\ functions[f].updatedAt <= index'
  BY <1>1 DEF FunctionRecord, Revisions
<1>3. \A f \in DOMAIN routes : routes[f] \in RouteRecord /\ routes[f].index <= index'
  BY <1>1 DEF RouteRecord, Revisions
<1>4. ServingStatesSound'
  <2>1. ASSUME NEW f \in DOMAIN functions
        PROVE  IF f \in DOMAIN routes
               THEN /\ routes[f].revision = functions[f].activeRoute
                    /\ \E t : t = routes[f].version /\ validateReadyTarget(f, t)'
               ELSE functions[f].activeRoute = 0
    <3>1. CASE f \in DOMAIN routes
      <4>1. PICK t : t = routes[f].version BY Zenon
      <4>2. routes[f].revision = functions[f].activeRoute /\ validateReadyTarget(f, t)
        BY <3>1, <4>1, Zenon DEF CatalogSound, ServingStatesSound
      <4> QED BY <3>1, <4>1, <4>2, Zenon
    <3>2. CASE f \notin DOMAIN routes
      BY <3>2, Zenon DEF CatalogSound, ServingStatesSound
    <3> QED BY <3>1, <3>2, Zenon
  <2> QED BY <2>1 DEF ServingStatesSound, validateReadyTarget
<1>5. OperationSound'
  <2>1. CASE op = NoOp BY <2>1, Zenon DEF OperationSound
  <2>2. CASE op # NoOp
    <3>1. op.index <= index' /\ op.start \in Nat => (op.start <= index => op.start <= index')
      BY <1>1
    <3>2. op.index <= index'
      BY <1>1, <2>2, OperationKinds DEF CatalogSound, Revisions
    <3>3. op \in CreateVersionOp => op.start \in Nat
      BY Zenon DEF CreateVersionOp, Revisions
    <3> QED BY <2>2, <3>1, <3>2, <3>3, Zenon DEF CatalogSound, OperationSound
  <2> QED BY <2>1, <2>2, Zenon
<1> QED BY <1>2, <1>3, <1>4, <1>5, Zenon DEF CatalogSound

\* An operation is prepared: its commands are newer than every change.
LEMMA BeginSound ==
  ASSUME CatalogSound, NEW o, NEW n \in Nat, Begin(o, n), o.index = index + 1, n >= 1,
         \/ o \in CreateFunctionOp /\ o.function \notin DOMAIN functions
         \/ o \in LifecycleOp /\ o.function \in DOMAIN functions
         \/ /\ o \in CreateVersionOp /\ o.function \in DOMAIN functions
            /\ o.version \notin DOMAIN versions /\ o.start = index + 2 /\ n = 2
         \/ o \in PublishOp /\ o.function \in DOMAIN functions
  PROVE  CatalogSound' /\ index' \in Nat /\ index <= index' /\ UNCHANGED <<stores, admission, place>>
<1>1. op' = o /\ index' = index + n /\ index \in Nat /\ UNCHANGED <<stores, admission, place>>
  BY Zenon DEF Begin, CatalogSound
<1>2. UNCHANGED <<functions, routes, versions, deployments>> /\ index' \in Nat /\ index <= index'
  BY <1>1 DEF stores
<1>3. /\ \A f \in DOMAIN functions : functions[f] \in FunctionRecord /\ functions[f].updatedAt <= index
      /\ \A f \in DOMAIN routes : routes[f] \in RouteRecord /\ routes[f].index <= index
  BY Zenon DEF CatalogSound
<1>4. \A f \in DOMAIN functions : functions[f] \in FunctionRecord /\ functions[f].updatedAt <= index'
  BY <1>2, <1>1, <1>3 DEF FunctionRecord, Revisions
<1>5. \A f \in DOMAIN routes : routes[f] \in RouteRecord /\ routes[f].index <= index'
  BY <1>2, <1>1, <1>3 DEF RouteRecord, Revisions
<1>6. ServingStatesSound'
  BY <1>2, Zenon DEF CatalogSound, ServingStatesSound, validateReadyTarget
<1>7. OperationSound'
  <2>1. \A f \in DOMAIN functions : functions[f].updatedAt < o.index
    BY <1>1, <1>3 DEF FunctionRecord, Revisions
  <2>2. o.index <= index'
    BY <1>1
  <2>3. o \in CreateVersionOp /\ o.start = index + 2 /\ n = 2 => o.start <= index' /\ o.index < o.start
    BY <1>1
  <2> QED BY <1>1, <1>2, <2>1, <2>2, <2>3, Zenon DEF OperationSound
<1> QED BY <1>1, <1>2, <1>4, <1>5, <1>6, <1>7, Zenon DEF CatalogSound

\* Preparing an operation changes nothing in the stores.
LEMMA OperationStep ==
  ASSUME CatalogSound, DOMAIN versions \subseteq Versions, Operation
  PROVE  CatalogSound' /\ index' \in Nat /\ index <= index' /\ UNCHANGED <<stores, admission, place>>
<1>1. index \in Nat /\ DOMAIN functions \subseteq Functions
      /\ \A f \in DOMAIN functions : functions[f] \in FunctionRecord
  BY Zenon DEF CatalogSound
<1>2. ASSUME NEW f \in Functions \ DOMAIN functions, PrepareCreateFunction(f)
      PROVE  CatalogSound' /\ index' \in Nat /\ index <= index' /\ UNCHANGED <<stores, admission, place>>
  <2> DEFINE o == [kind |-> "function", function |-> f, index |-> index + 1]
  <2>1. o \in CreateFunctionOp /\ o.function \notin DOMAIN functions /\ o.index = index + 1
    BY <1>1, <1>2 DEF CreateFunctionOp, Revisions
  <2>2. Begin(o, 1)
    BY <1>2, Zenon DEF PrepareCreateFunction
  <2> HIDE DEF o
  <2> QED BY <2>1, <2>2, BeginSound
<1>3. ASSUME NEW f \in DOMAIN functions, NEW l \in {"Active", "Disabled"},
             NEW e \in Expected(functions[f].revision), PrepareSetLifecycle(f, l, e)
      PROVE  CatalogSound' /\ index' \in Nat /\ index <= index' /\ UNCHANGED <<stores, admission, place>>
  <2> DEFINE o == [kind |-> "lifecycle", function |-> f, lifecycle |-> l, expected |-> e, index |-> index + 1]
  <2>0. e \in Nat
    BY <1>1, <1>3 DEF Expected, FunctionRecord, Revisions
  <2>1. o \in LifecycleOp /\ o.function \in DOMAIN functions /\ o.index = index + 1
    BY <1>1, <1>3, <2>0 DEF LifecycleOp, Lifecycles, Revisions
  <2>2. Begin(o, 1)
    BY <1>3, Zenon DEF PrepareSetLifecycle
  <2> HIDE DEF o
  <2> QED BY <2>1, <2>2, BeginSound
<1>4. ASSUME NEW f \in DOMAIN functions, NEW v \in Versions, PrepareCreateVersion(f, v)
      PROVE  CatalogSound' /\ index' \in Nat /\ index <= index' /\ UNCHANGED <<stores, admission, place>>
  <2> DEFINE o == [kind |-> "version", function |-> f, version |-> v, index |-> index + 1, start |-> index + 2]
  <2>1. o \in CreateVersionOp /\ o.function \in DOMAIN functions /\ o.version \notin DOMAIN versions
        /\ o.index = index + 1 /\ o.start = index + 2
    BY <1>1, <1>4 DEF CreateVersionOp, Revisions, PrepareCreateVersion
  <2>2. Begin(o, 2)
    BY <1>4, Zenon DEF PrepareCreateVersion
  <2> HIDE DEF o
  <2> QED BY <2>1, <2>2, BeginSound
<1>5. ASSUME NEW f \in DOMAIN functions, NEW v \in Versions,
             NEW e \in Expected(functions[f].activeRoute), PreparePublishRoute(f, v, e)
      PROVE  CatalogSound' /\ index' \in Nat /\ index <= index' /\ UNCHANGED <<stores, admission, place>>
  <2> DEFINE o == [kind |-> "publish", function |-> f, version |-> v, expected |-> e, index |-> index + 1]
  <2>0. e \in Nat
    BY <1>1, <1>5 DEF Expected, FunctionRecord, Revisions
  <2>1. o \in PublishOp /\ o.function \in DOMAIN functions /\ o.index = index + 1
    BY <1>1, <1>5, <2>0 DEF PublishOp, Revisions
  <2>2. Begin(o, 1)
    BY <1>5, Zenon DEF PreparePublishRoute
  <2> HIDE DEF o
  <2> QED BY <2>1, <2>2, BeginSound
<1> QED BY <1>2, <1>3, <1>4, <1>5, Zenon DEF Operation

\* A step keeps every Function and changes one only in the order of the commands.
FunctionsForward ==
  \A f \in DOMAIN functions :
    /\ f \in DOMAIN functions'
    /\ functions'[f] # functions[f] =>
          /\ functions'[f].revision = functions[f].revision + 1
          /\ functions'[f].updatedAt > functions[f].updatedAt
          /\ functions'[f].activeRoute \in {functions[f].activeRoute, functions[f].activeRoute + 1}

\* An operation that leaves Functions and Routes alone is over.
LEMMA OperationOver ==
  ASSUME CatalogSound, UNCHANGED <<functions, routes, index>>, op' = NoOp,
         \A f, v : validateReadyTarget(f, v) => validateReadyTarget(f, v)'
  PROVE  CatalogSound'
<1>4. ServingStatesSound'
  <2>1. ASSUME NEW f \in DOMAIN functions
        PROVE  IF f \in DOMAIN routes
               THEN /\ routes[f].revision = functions[f].activeRoute
                    /\ \E t : t = routes[f].version /\ validateReadyTarget(f, t)'
               ELSE functions[f].activeRoute = 0
    <3>1. CASE f \in DOMAIN routes
      <4>1. PICK t : t = routes[f].version BY Zenon
      <4>2. routes[f].revision = functions[f].activeRoute /\ validateReadyTarget(f, t)
        BY <3>1, <4>1, Zenon DEF CatalogSound, ServingStatesSound
      <4> QED BY <3>1, <4>1, <4>2, Zenon
    <3>2. CASE f \notin DOMAIN routes
      BY <3>2, Zenon DEF CatalogSound, ServingStatesSound
    <3> QED BY <3>1, <3>2, Zenon
  <2> QED BY <2>1 DEF ServingStatesSound, validateReadyTarget
<1>5. OperationSound' BY Zenon DEF OperationSound
<1> QED BY <1>4, <1>5, Zenon DEF CatalogSound

\* A Function's record after a change of lifecycle, and after a publication.
Lifecycled(x, l, i) == [x EXCEPT !.lifecycle = l, !.revision = x.revision + 1, !.updatedAt = i]
Published(x, n, i) == [x EXCEPT !.activeRoute = n, !.revision = x.revision + 1, !.updatedAt = i]

\* What a change leaves of a Function's record.
LEMMA LifecycleRecord ==
  ASSUME NEW x \in FunctionRecord, NEW l \in Lifecycles, NEW i \in Revisions
  PROVE  LET y == Lifecycled(x, l, i)
         IN  /\ y \in FunctionRecord /\ y.updatedAt = i /\ y.revision = x.revision + 1
             /\ y.activeRoute = x.activeRoute
<1>1. x.revision + 1 \in Nat \ {0}
  BY DEF FunctionRecord, Revisions
<1>2. LET u == [x EXCEPT !.lifecycle = l] IN u \in FunctionRecord /\ u.activeRoute = x.activeRoute
  BY Zenon DEF FunctionRecord
<1>3. ASSUME NEW w \in FunctionRecord
      PROVE  LET q == [w EXCEPT !.revision = x.revision + 1, !.updatedAt = i] IN
             /\ q \in FunctionRecord /\ q.updatedAt = i /\ q.revision = x.revision + 1
             /\ q.activeRoute = w.activeRoute
  BY <1>1, Zenon DEF FunctionRecord, Revisions
<1> QED BY <1>2, <1>3, Zenon DEF Lifecycled

\* And what a publication leaves of it.
LEMMA PublishedRecord ==
  ASSUME NEW x \in FunctionRecord, NEW n \in Nat, NEW i \in Revisions
  PROVE  LET z == Published(x, n, i)
         IN  /\ z \in FunctionRecord /\ z.updatedAt = i /\ z.revision = x.revision + 1
             /\ z.activeRoute = n
<1>1. x.revision + 1 \in Nat \ {0}
  BY DEF FunctionRecord, Revisions
<1>2. LET v == [x EXCEPT !.activeRoute = n] IN v \in FunctionRecord /\ v.activeRoute = n
  BY Zenon DEF FunctionRecord
<1>3. ASSUME NEW w \in FunctionRecord
      PROVE  LET q == [w EXCEPT !.revision = x.revision + 1, !.updatedAt = i] IN
             /\ q \in FunctionRecord /\ q.updatedAt = i /\ q.revision = x.revision + 1
             /\ q.activeRoute = w.activeRoute
  BY <1>1, Zenon DEF FunctionRecord, Revisions
<1> QED BY <1>2, <1>3, Zenon DEF Published

\* CreateFunction: the new Function has no Route.
LEMMA CreateFunctionStep ==
  ASSUME CatalogSound, ApplyCreateFunction PROVE CatalogSound' /\ FunctionsForward
<1> DEFINE g == op.function
           r == [lifecycle |-> "Active", activeRoute |-> 0, revision |-> 1, updatedAt |-> op.index]
<1>1. /\ op.kind = "function" /\ functions' = Put(functions, g, r) /\ op' = NoOp
      /\ UNCHANGED <<versions, deployments, routes, index>>
  BY Zenon DEF ApplyCreateFunction
<1>2. op # NoOp
  BY <1>1 DEF NoOp
<1>3. /\ op.index <= index /\ op.index \in Revisions /\ g \in Functions /\ g \notin DOMAIN functions
  BY <1>1, <1>2, OperationKinds, Zenon DEF CatalogSound, CreateFunctionOp
<1>4. r \in FunctionRecord /\ r.updatedAt <= index /\ r.activeRoute = 0
  BY <1>3 DEF FunctionRecord, Lifecycles, Revisions
<1> HIDE DEF g, r
<1>5. /\ DOMAIN functions' = DOMAIN functions \cup {g} /\ functions'[g] = r
      /\ \A f \in DOMAIN functions : functions'[f] = functions[f]
  BY <1>1, <1>3, Zenon DEF Put
<1>6. ServingStatesSound'
  <2>1. ASSUME NEW f \in DOMAIN functions' PROVE
          IF f \in DOMAIN routes THEN /\ routes[f].revision = functions'[f].activeRoute
                                      /\ validateReadyTarget(f, routes[f].version)
                                 ELSE functions'[f].activeRoute = 0
    <3>1. CASE f = g
      BY <1>3, <1>4, <1>5, <3>1, Zenon DEF CatalogSound
    <3>2. CASE f # g
      BY <1>5, <3>2, Zenon DEF CatalogSound, ServingStatesSound
    <3> QED BY <3>1, <3>2, Zenon
  <2> QED BY <1>1, <2>1, Zenon DEF ServingStatesSound, validateReadyTarget
<1>7. OperationSound' BY <1>1, Zenon DEF OperationSound
<1>8. /\ DOMAIN functions' \subseteq Functions /\ DOMAIN routes \subseteq DOMAIN functions'
      /\ \A f \in DOMAIN functions' : functions'[f] \in FunctionRecord /\ functions'[f].updatedAt <= index
  BY <1>3, <1>4, <1>5, Zenon DEF CatalogSound
<1>9. FunctionsForward
  BY <1>5, Zenon DEF FunctionsForward
<1> QED BY <1>1, <1>6, <1>7, <1>8, <1>9, Zenon DEF CatalogSound

\* One Function is replaced by a record of the operation, with its Route or
\* without a change of it.
LEMMA FunctionChanges ==
  ASSUME CatalogSound, op # NoOp, NEW g \in DOMAIN functions, NEW r \in FunctionRecord,
         functions' = [functions EXCEPT ![g] = r], op' = NoOp, UNCHANGED <<versions, deployments, index>>,
         r.updatedAt = op.index, r.revision = functions[g].revision + 1,
         \/ routes' = routes /\ r.activeRoute = functions[g].activeRoute
         \/ \E t \in RouteRecord :
               /\ routes' = Put(routes, g, t) /\ t.index = op.index
               /\ t.revision = r.activeRoute /\ validateReadyTarget(g, t.version)
               /\ r.activeRoute = functions[g].activeRoute + 1
  PROVE  CatalogSound' /\ FunctionsForward
<1>1. op.index <= index /\ op.index \in Revisions /\ \A f \in DOMAIN functions : functions[f].updatedAt < op.index
  BY OperationKinds, Zenon DEF CatalogSound
<1>2. /\ DOMAIN functions' = DOMAIN functions /\ functions'[g] = r
      /\ \A f \in DOMAIN functions : f # g => functions'[f] = functions[f]
  BY Zenon
<1>3. \A f \in DOMAIN functions' : functions'[f] \in FunctionRecord /\ functions'[f].updatedAt <= index
  BY <1>1, <1>2, Zenon DEF CatalogSound
<1>4. FunctionsForward
  BY <1>1, <1>2, Zenon DEF FunctionsForward
<1>5. /\ DOMAIN routes' \subseteq DOMAIN functions
      /\ \A f \in DOMAIN routes' : routes'[f] \in RouteRecord /\ routes'[f].index <= index
  BY <1>1, Zenon DEF CatalogSound, Put
<1>6. ServingStatesSound'
  <2>1. ASSUME NEW f \in DOMAIN functions PROVE
          IF f \in DOMAIN routes' THEN /\ routes'[f].revision = functions'[f].activeRoute
                                       /\ validateReadyTarget(f, routes'[f].version)
                                  ELSE functions'[f].activeRoute = 0
    <3>1. CASE f # g
      <4>1. (f \in DOMAIN routes' <=> f \in DOMAIN routes) /\ (f \in DOMAIN routes => routes'[f] = routes[f])
        BY <3>1, Zenon DEF Put
      <4> QED BY <1>2, <3>1, <4>1, Zenon DEF CatalogSound, ServingStatesSound
    <3>2. CASE f = g /\ routes' = routes /\ r.activeRoute = functions[g].activeRoute
      BY <1>2, <3>2, Zenon DEF CatalogSound, ServingStatesSound
    <3>3. CASE f = g /\ \E t \in RouteRecord :
               /\ routes' = Put(routes, g, t) /\ t.revision = r.activeRoute /\ validateReadyTarget(g, t.version)
      BY <1>2, <3>3, Zenon DEF Put
    <3> QED BY <3>1, <3>2, <3>3, Zenon
  <2> QED BY <1>2, <2>1, Zenon DEF ServingStatesSound, validateReadyTarget
<1>7. OperationSound' BY Zenon DEF OperationSound
<1> QED BY <1>2, <1>3, <1>4, <1>5, <1>6, <1>7, Zenon DEF CatalogSound

\* SetFunctionLifecycle, applied or refused.
LEMMA SetLifecycleStep ==
  ASSUME CatalogSound, ApplySetLifecycle PROVE CatalogSound' /\ FunctionsForward
<1> DEFINE g == op.function
           r == Lifecycled(functions[g], op.lifecycle, op.index)
<1>1. /\ op.kind = "lifecycle" /\ op' = NoOp /\ UNCHANGED <<versions, deployments, routes, index>>
      /\ functions' = functions \/ functions' = [functions EXCEPT ![g] = r]
  BY Zenon DEF ApplySetLifecycle, Lifecycled
<1>2. op # NoOp
  BY <1>1 DEF NoOp
<1>3. op.index \in Revisions /\ g \in DOMAIN functions /\ op.lifecycle \in Lifecycles
  BY <1>1, <1>2, OperationKinds, Zenon DEF CatalogSound, LifecycleOp
<1>4. /\ r \in FunctionRecord /\ r.updatedAt = op.index /\ r.revision = functions[g].revision + 1
      /\ r.activeRoute = functions[g].activeRoute
  <2>2. functions[g] \in FunctionRecord
    BY <1>3, Zenon DEF CatalogSound
  <2> QED BY <1>3, <2>2, LifecycleRecord, Zenon
<1> HIDE DEF g, r
<1>5. CASE functions' = functions
  <2>1. \A f, v : validateReadyTarget(f, v) => validateReadyTarget(f, v)'
    BY <1>1, Zenon DEF validateReadyTarget
  <2> QED BY <1>1, <1>5, <2>1, OperationOver, Zenon DEF FunctionsForward
<1>6. CASE functions' = [functions EXCEPT ![g] = r]
  BY <1>1, <1>2, <1>3, <1>4, <1>6, FunctionChanges, Zenon
<1> QED BY <1>1, <1>5, <1>6, Zenon

\* Publish moves the Route and the Function's pointer together, or neither.
LEMMA PublishRouteStep ==
  ASSUME CatalogSound, ApplyPublishRoute PROVE CatalogSound' /\ FunctionsForward
<1> DEFINE g == op.function
           r == Published(functions[g], op.expected + 1, op.index)
           t == [revision |-> op.expected + 1, version |-> op.version, index |-> op.index]
<1>1. /\ op.kind = "publish" /\ op' = NoOp /\ UNCHANGED <<versions, deployments, index>>
      /\ \/ functions' = functions /\ routes' = routes
         \/ /\ functions' = [functions EXCEPT ![g] = r] /\ routes' = Put(routes, g, t)
            /\ op.expected = functions[g].activeRoute /\ validateReadyTarget(g, op.version)
  BY Zenon DEF ApplyPublishRoute, Published
<1>2. op # NoOp
  BY <1>1 DEF NoOp
<1>3. op.index \in Revisions /\ g \in DOMAIN functions /\ op.expected \in Nat /\ op.version \in Versions
  BY <1>1, <1>2, OperationKinds, Zenon DEF CatalogSound, PublishOp
<1>4. /\ r \in FunctionRecord /\ r.updatedAt = op.index /\ r.revision = functions[g].revision + 1
      /\ r.activeRoute = op.expected + 1
  <2>1. op.expected + 1 \in Nat
    BY <1>3
  <2>2. functions[g] \in FunctionRecord
    BY <1>3, Zenon DEF CatalogSound
  <2> QED BY <1>3, <2>1, <2>2, PublishedRecord, ZenonT(40)
<1>5. t \in RouteRecord /\ t.index = op.index /\ t.revision = op.expected + 1 /\ t.version = op.version
  BY <1>3 DEF RouteRecord, Revisions
<1> HIDE DEF g, r, t
<1>6. CASE functions' = functions /\ routes' = routes
  <2>1. \A f, v : validateReadyTarget(f, v) => validateReadyTarget(f, v)'
    BY <1>1, Zenon DEF validateReadyTarget
  <2> QED BY <1>1, <1>6, <2>1, OperationOver, Zenon DEF FunctionsForward
<1>7. CASE /\ functions' = [functions EXCEPT ![g] = r] /\ routes' = Put(routes, g, t)
           /\ op.expected = functions[g].activeRoute /\ validateReadyTarget(g, op.version)
  BY <1>1, <1>2, <1>3, <1>4, <1>5, <1>7, FunctionChanges, Zenon
<1> QED BY <1>1, <1>6, <1>7, Zenon

-----------------------------------------------------------------------------
(* Versions and their admissions.                                          *)

\* A step keeps every Version, and one that changes moves forward.
VersionsForward ==
  \A v \in DOMAIN versions :
    /\ v \in DOMAIN versions'
    /\ versions'[v] # versions[v] =>
          /\ Rank[versions'[v].state] = Rank[versions[v].state] + 1
          /\ versions'[v].revision = versions[v].revision + 1
          /\ versions'[v].updatedAt > versions[v].updatedAt

\* In these phases a driver holds the claim on its Version.
Holding(s) == s.at \in {"claimed", "taken", "admitting", "reported"}

\* What a driver is about, from its phase.
LEMMA DriverPhases ==
  ASSUME NEW d, NEW s, DriverSound(d, s)
  PROVE  /\ s.at \in {"idle", "looping", "created", "claimed", "taken", "admitting", "reported"}
         /\ s.at \notin {"idle", "looping"} => s.version \in Versions /\ s.version \in DOMAIN versions
         /\ s.at \in {"created", "claimed"} =>
              /\ s \in Creating /\ s.version = d /\ s.index <= index
              /\ versions[s.version].state = "Uploaded" /\ versions[s.version].updatedAt < s.index
         /\ s.at = "taken" => s \in Taking
         /\ s.at = "admitting" =>
              /\ s \in Admitting
              /\ versions[s.version].state = "Validating" /\ versions[s.version].revision = s.revision
         /\ s.at = "reported" =>
              /\ s \in Reporting /\ s.index <= index
              /\ versions[s.version].state = "Validating" /\ versions[s.version].revision = s.revision
              /\ versions[s.version].updatedAt < s.index
<1>1. /\ \A x \in Resting : x.at \in {"idle", "looping"}
      /\ \A x \in Creating : x.at \in {"created", "claimed"} /\ x.version \in Versions
      /\ \A x \in Taking : x.at = "taken" /\ x.version \in Versions
      /\ \A x \in Admitting : x.at = "admitting" /\ x.version \in Versions
      /\ \A x \in Reporting : x.at = "reported" /\ x.version \in Versions
  BY Zenon DEF Resting, Creating, Taking, Admitting, Reporting
<1> QED BY <1>1, Zenon DEF DriverSound

\* A driver whose Version a step leaves alone stays sound.
LEMMA DriverFrame ==
  ASSUME NEW d, NEW s, DriverSound(d, s), index \in Nat, index' \in Nat, index <= index',
         s.at \notin {"idle", "looping"} => s.version \in DOMAIN versions',
         s.at \notin {"idle", "looping", "taken"} => versions'[s.version] = versions[s.version]
  PROVE  DriverSound(d, s)'
<1>1. /\ \A x \in Creating : x.index <= index => x.index <= index'
      /\ \A x \in Reporting : x.index <= index => x.index <= index'
  BY DEF Creating, Reporting, Revisions
<1>2. (\A x \in Resting : x.at \in {"idle", "looping"}) /\ (\A x \in Taking : x.at = "taken")
  BY Zenon DEF Resting, Taking
<1>3. CASE s.at \in {"idle", "looping"}
  <2>1. s \in Resting
    BY <1>3, Zenon DEF DriverSound, Resting, Creating, Taking, Admitting, Reporting
  <2> QED BY <2>1, Zenon DEF DriverSound
<1>4. CASE s.at = "taken"
  <2>1. s \in Taking
    BY <1>4, Zenon DEF DriverSound, Resting, Creating, Taking, Admitting, Reporting
  <2> QED BY <1>4, <2>1, Zenon DEF DriverSound
<1>5. CASE s.at \notin {"idle", "looping", "taken"}
  BY <1>1, <1>2, <1>5, Zenon DEF DriverSound
<1> QED BY <1>3, <1>4, <1>5, Zenon

\* Each driver's phase, named.
LEMMA DriversAre ==
  ASSUME \A d \in Drivers : \E s : s = driver'[d] /\ DriverSound(d, s)'
  PROVE  \A d \in Drivers : DriverSound(d, driver[d])'
BY Zenon DEF DriverSound

\* A claim is taken free, handed on or given back: two drivers never share one.
LEMMA ClaimsKept ==
  ASSUME SingleAdmission, DOMAIN driver = Drivers, NEW d \in Drivers, NEW s, driver' = [driver EXCEPT ![d] = s],
         \/ Holding(s) /\ Holding(driver[d]) /\ s.version = driver[d].version /\ claims' = claims
         \/ Holding(s) /\ s.version \notin claims /\ claims' = claims \cup {s.version}
         \/ ~Holding(s) /\ claims' = claims
         \/ ~Holding(s) /\ Holding(driver[d]) /\ claims' = claims \ {driver[d].version}
  PROVE  SingleAdmission'
<1>1. \A e \in Drivers : Holding(driver[e]) =>
         /\ driver[e].version \in claims
         /\ \A f \in Drivers : f # e /\ Holding(driver[f]) => driver[f].version # driver[e].version
  BY Zenon DEF SingleAdmission, Holding
<1>2. driver'[d] = s /\ \A e \in Drivers : e # d => driver'[e] = driver[e]
  BY Zenon
<1>3. \A e \in Drivers : Holding(driver'[e]) =>
         /\ driver'[e].version \in claims'
         /\ \A f \in Drivers : f # e /\ Holding(driver'[f]) => driver'[f].version # driver'[e].version
  <2> TAKE e \in Drivers
  <2> HAVE Holding(driver'[e])
  <2>1. CASE e = d
    BY <1>1, <1>2, <2>1
  <2>2. CASE e # d
    BY <1>1, <1>2, <2>2
  <2> QED BY <2>1, <2>2, Zenon
<1> QED BY <1>3, Zenon DEF SingleAdmission, Holding

\* Nothing of the admissions changes.
LEMMA AdmissionFrame ==
  ASSUME AdmissionSound, UNCHANGED <<versions, deployments, claims, driver, pending, processed>>,
         index \in Nat, index' \in Nat, index <= index'
  PROVE  AdmissionSound' /\ VersionsForward
<1>1. \A d \in Drivers : DriverSound(d, driver[d])'
  <2>1. ASSUME NEW d \in Drivers PROVE \E s : s = driver'[d] /\ DriverSound(d, s)'
    <3>1. PICK s : s = driver[d] BY Zenon
    <3>2. DriverSound(d, s)
      BY <3>1, Zenon DEF AdmissionSound
    <3>3. DriverSound(d, s)'
      BY <3>2, DriverFrame, DriverPhases, Zenon
    <3> QED BY <3>1, <3>3, Zenon
  <2> QED BY <2>1, DriversAre, Zenon
<1>2. \A v \in DOMAIN versions : versions[v] \in VersionRecord /\ versions[v].updatedAt <= index'
  BY DEF AdmissionSound, VersionRecord, Revisions
<1>3. ReleasesSound' /\ SingleAdmission'
  BY Zenon DEF AdmissionSound, ReleasesSound, SingleAdmission
<1> QED BY <1>1, <1>2, <1>3, Zenon DEF AdmissionSound, VersionsForward

\* A driver moves on and leaves the Versions alone.
LEMMA DriverMoves ==
  ASSUME AdmissionSound, NEW d \in Drivers, NEW s, driver' = [driver EXCEPT ![d] = s], DriverSound(d, s)',
         UNCHANGED <<versions, deployments>>, index \in Nat, index' \in Nat, index <= index',
         pending' \subseteq DOMAIN versions, processed' \in 0..ResumeLimit,
         \/ Holding(s) /\ Holding(driver[d]) /\ s.version = driver[d].version /\ claims' = claims
         \/ Holding(s) /\ s.version \notin claims /\ claims' = claims \cup {s.version}
         \/ ~Holding(s) /\ claims' = claims
         \/ ~Holding(s) /\ Holding(driver[d]) /\ claims' = claims \ {driver[d].version}
  PROVE  AdmissionSound' /\ VersionsForward
<1>1. \A e \in Drivers : DriverSound(e, driver[e])'
  <2>1. ASSUME NEW e \in Drivers PROVE \E t : t = driver'[e] /\ DriverSound(e, t)'
    <3>1. CASE e = d
      BY <3>1, Zenon DEF AdmissionSound
    <3>2. CASE e # d
      <4>1. PICK t : t = driver[e] BY Zenon
      <4>2. DriverSound(e, t)
        BY <4>1, Zenon DEF AdmissionSound
      <4>3. DriverSound(e, t)'
        BY <4>2, DriverFrame, DriverPhases, Zenon
      <4> QED BY <3>2, <4>1, <4>3, Zenon DEF AdmissionSound
    <3> QED BY <3>1, <3>2, Zenon
  <2> QED BY <2>1, DriversAre, Zenon
<1>2. \A v \in DOMAIN versions : versions[v] \in VersionRecord /\ versions[v].updatedAt <= index'
  BY DEF AdmissionSound, VersionRecord, Revisions
<1>3. ReleasesSound'
  BY Zenon DEF AdmissionSound, ReleasesSound
<1>4. SingleAdmission'
  BY ClaimsKept, Zenon DEF AdmissionSound
<1>5. claims' \subseteq Versions
  <2>1. Holding(s) => s.version \in Versions
    BY Zenon DEF Holding, DriverSound, Resting, Creating, Taking, Admitting, Reporting
  <2> QED BY <2>1 DEF AdmissionSound
<1>6. DOMAIN driver' = Drivers
  BY Zenon DEF AdmissionSound
<1> QED BY <1>1, <1>2, <1>3, <1>4, <1>5, <1>6, Zenon DEF AdmissionSound, VersionsForward

\* A Version that may be a Route's target stays one.
TargetsKept ==
  /\ \A f, v : validateReadyTarget(f, v) => validateReadyTarget(f, v)'

\* A driver moves its Version one phase on: nobody else drives it.
LEMMA VersionChanges ==
  ASSUME AdmissionSound, NEW v \in DOMAIN versions, NEW r \in VersionRecord,
         versions' = [versions EXCEPT ![v] = r],
         r.revision = versions[v].revision + 1, Rank[r.state] = Rank[versions[v].state] + 1,
         versions[v].updatedAt < r.updatedAt, r.updatedAt <= index, r.fenced <=> r.state = "Validating",
         deployments' = IF r.state = "Ready" THEN deployments \cup {v} ELSE deployments,
         index \in Nat, UNCHANGED <<index, pending, processed>>,
         NEW d \in Drivers, NEW s, driver' = [driver EXCEPT ![d] = s], DriverSound(d, s)',
         \A e \in Drivers \ {d} : driver[e].at \notin {"idle", "looping", "taken"} => driver[e].version # v,
         SingleAdmission', claims' \subseteq claims
  PROVE  AdmissionSound' /\ VersionsForward /\ TargetsKept /\ DOMAIN versions' = DOMAIN versions
<1>1. /\ DOMAIN versions' = DOMAIN versions /\ versions'[v] = r
      /\ \A w \in DOMAIN versions : w # v => versions'[w] = versions[w]
  BY Zenon
<1>2. /\ versions[v] \in VersionRecord /\ versions[v].revision = Rank[versions[v].state] + 1
      /\ v \in Versions
  BY Zenon DEF AdmissionSound
<1>3. r.revision = Rank[r.state] + 1
  BY <1>2, Zenon
<1>4. r.state \in {"Validating", "Ready", "Failed"} /\ versions[v].state \in {"Uploaded", "Validating"}
  BY <1>2 DEF VersionRecord, Rank
<1>5. VersionsForward
  BY <1>1, Zenon DEF VersionsForward
<1>6. TargetsKept
  BY <1>1, <1>4, Zenon DEF TargetsKept, validateReadyTarget
<1>7. ReleasesSound'
  <2>1. ASSUME NEW w \in Versions
        PROVE  /\ w \in deployments' <=> w \in DOMAIN versions' /\ versions'[w].state = "Ready"
               /\ w \in DOMAIN versions' => (versions'[w].fenced <=> versions'[w].state = "Validating")
    <3>1. CASE w = v
      BY <1>1, <1>2, <1>4, <3>1, Zenon DEF AdmissionSound, ReleasesSound
    <3>2. CASE w # v
      BY <1>1, <3>2, Zenon DEF AdmissionSound, ReleasesSound
    <3> QED BY <3>1, <3>2, Zenon
  <2> QED BY <2>1, Zenon DEF ReleasesSound
<1>8. \A e \in Drivers : DriverSound(e, driver[e])'
  <2>1. ASSUME NEW e \in Drivers PROVE \E t : t = driver'[e] /\ DriverSound(e, t)'
    <3>1. CASE e = d
      BY <3>1, Zenon DEF AdmissionSound
    <3>2. CASE e # d
      <4>1. PICK t : t = driver[e] BY Zenon
      <4>2. DriverSound(e, t)
        BY <4>1, Zenon DEF AdmissionSound
      <4>3. /\ t.at \notin {"idle", "looping"} => t.version \in DOMAIN versions'
            /\ t.at \notin {"idle", "looping", "taken"} => versions'[t.version] = versions[t.version]
        BY <1>1, <3>2, <4>1, <4>2, DriverPhases, Zenon
      <4>4. DriverSound(e, t)'
        BY <4>2, <4>3, DriverFrame
      <4> QED BY <3>2, <4>1, <4>4, Zenon DEF AdmissionSound
    <3> QED BY <3>1, <3>2, Zenon
  <2> QED BY <2>1, DriversAre, Zenon
<1>9. \A w \in DOMAIN versions' :
        /\ versions'[w] \in VersionRecord /\ versions'[w].updatedAt <= index'
        /\ versions'[w].revision = Rank[versions'[w].state] + 1
  BY <1>1, <1>3, Zenon DEF AdmissionSound
<1>10. DOMAIN driver' = Drivers /\ deployments' \subseteq Versions
  BY <1>2, Zenon DEF AdmissionSound
<1> QED BY <1>1, <1>5, <1>6, <1>7, <1>8, <1>9, <1>10, Zenon DEF AdmissionSound

\* A Version's record after the start and after the completion of a validation.
Started(x, i) == [x EXCEPT !.state = "Validating", !.revision = 2, !.updatedAt = i, !.fenced = TRUE]
Completed(x, valid, i) ==
  [x EXCEPT !.state = IF valid THEN "Ready" ELSE "Failed", !.revision = x.revision + 1,
            !.updatedAt = i, !.fenced = FALSE]

\* What the start and the completion of a validation leave of a Version's record.
LEMMA StartedRecord ==
  ASSUME NEW x \in VersionRecord, NEW i \in Revisions
  PROVE  LET y == Started(x, i) IN
         /\ y \in VersionRecord /\ y.state = "Validating" /\ y.revision = 2
         /\ y.updatedAt = i /\ y.fenced = TRUE
<1>1. LET u == [x EXCEPT !.state = "Validating", !.revision = 2] IN
        u \in VersionRecord /\ u.state = "Validating" /\ u.revision = 2
  <2>1. ASSUME NEW st \in {"Uploaded", "Validating", "Ready", "Failed"}, NEW n \in Revisions
        PROVE  LET u == [x EXCEPT !.state = st, !.revision = n] IN
               u \in VersionRecord /\ u.state = st /\ u.revision = n
    BY Zenon DEF VersionRecord
  <2>2. 2 \in Revisions
    BY DEF Revisions
  <2> QED BY <2>1, <2>2, Zenon
<1>2. ASSUME NEW w \in VersionRecord
      PROVE  LET q == [w EXCEPT !.updatedAt = i, !.fenced = TRUE] IN
             /\ q \in VersionRecord /\ q.state = w.state /\ q.revision = w.revision
             /\ q.updatedAt = i /\ q.fenced = TRUE
  BY Zenon DEF VersionRecord, Revisions
<1> QED BY <1>1, <1>2, Zenon DEF Started

\* And the completion, with either verdict.
LEMMA CompletedRecord ==
  ASSUME NEW x \in VersionRecord, NEW valid \in BOOLEAN, NEW i \in Revisions
  PROVE  LET y == Completed(x, valid, i) IN
         /\ y \in VersionRecord /\ y.state = (IF valid THEN "Ready" ELSE "Failed")
         /\ y.revision = x.revision + 1 /\ y.updatedAt = i /\ y.fenced = FALSE
<1> DEFINE st == IF valid THEN "Ready" ELSE "Failed"
<1>1. x.revision + 1 \in Revisions /\ st \in {"Uploaded", "Validating", "Ready", "Failed"}
  BY DEF VersionRecord, Revisions
<1> HIDE DEF st
<1>2. LET u == [x EXCEPT !.state = st, !.revision = x.revision + 1] IN
        u \in VersionRecord /\ u.state = st /\ u.revision = x.revision + 1
  BY <1>1, Zenon DEF VersionRecord
<1>3. ASSUME NEW w \in VersionRecord
      PROVE  LET q == [w EXCEPT !.updatedAt = i, !.fenced = FALSE] IN
             /\ q \in VersionRecord /\ q.state = w.state /\ q.revision = w.revision
             /\ q.updatedAt = i /\ q.fenced = FALSE
  BY Zenon DEF VersionRecord, Revisions
<1> QED BY <1>2, <1>3, Zenon DEF Completed, st

\* The creator of a Version claims it, or leaves it to whoever has the claim.
LEMMA ClaimStep ==
  ASSUME AdmissionSound, index \in Nat, NEW v \in Versions, ClaimValidation(v)
  PROVE  AdmissionSound' /\ VersionsForward
<1>1. /\ driver[v].at = "created" /\ UNCHANGED <<stores, index, pending, processed>>
      /\ \/ v \in claims /\ driver' = [driver EXCEPT ![v] = Idle] /\ claims' = claims
         \/ /\ v \notin claims /\ claims' = claims \cup {v}
            /\ driver' = [driver EXCEPT ![v] = [driver[v] EXCEPT !.at = "claimed"]]
  BY Zenon DEF ClaimValidation, Set
<1>2. UNCHANGED <<versions, deployments, index>> /\ index' \in Nat /\ index <= index'
      /\ pending' \subseteq DOMAIN versions /\ processed' \in 0..ResumeLimit /\ v \in Drivers
  BY <1>1 DEF stores, AdmissionSound, Drivers
<1>3. PICK c : c = driver[v] BY Zenon
<1>4. DriverSound(v, c) /\ c.at = "created"
  BY <1>1, <1>2, <1>3, Zenon DEF AdmissionSound
<1>5. /\ c \in Creating /\ c.version = v /\ v \in DOMAIN versions /\ c.index <= index
      /\ versions[v].state = "Uploaded" /\ versions[v].updatedAt < c.index
  BY <1>4, DriverPhases, Zenon
<1>6. CASE v \in claims /\ driver' = [driver EXCEPT ![v] = Idle] /\ claims' = claims
  <2>1. Idle \in Resting /\ ~Holding(Idle)
    BY Zenon DEF Idle, Resting, Holding
  <2>2. DriverSound(v, Idle)'
    BY <2>1, Zenon DEF DriverSound, Idle
  <2>3. PICK s : s = Idle BY Zenon
  <2> QED BY <1>2, <1>6, <2>1, <2>2, <2>3, DriverMoves, Zenon
<1>7. CASE /\ v \notin claims /\ claims' = claims \cup {v}
           /\ driver' = [driver EXCEPT ![v] = [driver[v] EXCEPT !.at = "claimed"]]
  <2>1. PICK s : s = [c EXCEPT !.at = "claimed"] BY Zenon
  <2>2. s \in Creating /\ s.version = v /\ s.index = c.index /\ Holding(s)
    BY <1>5, <2>1, Zenon DEF Creating, Holding
  <2>3. DriverSound(v, s)'
    BY <1>2, <1>5, <2>2, Zenon DEF DriverSound
  <2>4. driver' = [driver EXCEPT ![v] = s]
    BY <1>3, <1>7, <2>1, Zenon
  <2> QED BY <1>2, <1>7, <2>2, <2>3, <2>4, DriverMoves, Zenon
<1> QED BY <1>1, <1>6, <1>7, Zenon

\* StartValidation puts up the fence, at the revision the driver goes on with.
LEMMA StartStep ==
  ASSUME AdmissionSound, index \in Nat, NEW v \in Versions, StartValidation(v)
  PROVE  AdmissionSound' /\ VersionsForward /\ TargetsKept /\ DOMAIN versions' = DOMAIN versions
<1>1. /\ driver[v].at = "claimed" /\ UNCHANGED <<index, pending, processed, deployments>>
      /\ versions[v].state = "Uploaded" /\ versions[v].revision = 1 =>
            /\ versions' = [versions EXCEPT ![v] = Started(versions[v], driver[v].index)]
            /\ driver' = [driver EXCEPT ![v] = [at |-> "admitting", version |-> v, revision |-> 2]]
            /\ claims' = claims
  BY Zenon DEF StartValidation, Set, Started
<1>2. v \in Drivers
  BY Zenon DEF Drivers
<1>3. PICK c : c = driver[v] BY Zenon
<1>4. DriverSound(v, c) /\ c.at = "claimed"
  BY <1>1, <1>2, <1>3, Zenon DEF AdmissionSound
<1>5. /\ c \in Creating /\ c.version = v /\ v \in DOMAIN versions /\ c.index <= index
      /\ versions[v].state = "Uploaded" /\ versions[v].updatedAt < c.index
  BY <1>4, DriverPhases, Zenon
<1>6. versions[v] \in VersionRecord /\ versions[v].revision = 1 /\ c.index \in Revisions
  BY <1>5 DEF AdmissionSound, Rank, Creating
<1>7. PICK s : s = [at |-> "admitting", version |-> v, revision |-> 2] BY Zenon
<1>8. PICK r : r = Started(versions[v], c.index) BY Zenon
<1>9. /\ versions' = [versions EXCEPT ![v] = r] /\ driver' = [driver EXCEPT ![v] = s] /\ claims' = claims
  BY <1>1, <1>3, <1>5, <1>6, <1>7, <1>8, Zenon
<1>10. /\ r \in VersionRecord /\ r.state = "Validating" /\ r.revision = 2
       /\ r.updatedAt = c.index /\ r.fenced = TRUE
  BY <1>6, <1>8, StartedRecord, Zenon
<1>11. s \in Admitting /\ s.version = v /\ s.revision = 2 /\ Holding(s)
  BY <1>7 DEF Admitting, Holding, Revisions
<1>12. versions'[v] = r /\ DOMAIN versions' = DOMAIN versions
  BY <1>5, <1>9, Zenon
<1>13. DriverSound(v, s)'
  BY <1>5, <1>10, <1>11, <1>12, Zenon DEF DriverSound
<1>14. Holding(driver[v]) /\ driver[v].version = v
  BY <1>1, <1>3, <1>5, Zenon DEF Holding
<1>15. SingleAdmission'
  BY <1>2, <1>9, <1>11, <1>14, ClaimsKept, Zenon DEF AdmissionSound
<1>16. ASSUME NEW e \in Drivers \ {v}, driver[e].at \notin {"idle", "looping", "taken"}, driver[e].version = v
       PROVE  FALSE
  <2>1. PICK t : t = driver[e] BY Zenon
  <2>2. DriverSound(e, t)
    BY <2>1, Zenon DEF AdmissionSound
  <2> QED BY <1>5, <1>16, <2>1, <2>2, DriverPhases
<1>17. Rank[r.state] = Rank[versions[v].state] + 1 /\ r.revision = versions[v].revision + 1
  BY <1>5, <1>6, <1>10 DEF Rank
<1> QED BY <1>1, <1>2, <1>5, <1>9, <1>10, <1>13, <1>15, <1>16, <1>17, VersionChanges, Zenon

\* The admission of a driver ends and gives its claim back.
LEMMA ReleaseStep ==
  ASSUME AdmissionSound, index \in Nat, NEW d \in Drivers, Holding(driver[d]),
         driver' = [driver EXCEPT ![d] = AfterAdmission(d)], claims' = claims \ {driver[d].version},
         UNCHANGED <<versions, deployments, index, pending, processed>>
  PROVE  AdmissionSound' /\ VersionsForward
<1>1. PICK s : s = AfterAdmission(d) BY Zenon
<1>2. s \in Resting /\ ~Holding(s)
  BY <1>1, Zenon DEF AfterAdmission, Idle, Resting, Holding
<1>3. DriverSound(d, s)'
  BY <1>2, Zenon DEF DriverSound
<1>4. pending' \subseteq DOMAIN versions /\ processed' \in 0..ResumeLimit /\ index' \in Nat /\ index <= index'
  BY DEF AdmissionSound
<1> QED BY <1>1, <1>2, <1>3, <1>4, DriverMoves, Zenon

\* A validator that reports nothing leaves the fence up.
LEMMA FailsStep ==
  ASSUME AdmissionSound, index \in Nat, NEW d \in Drivers, ValidatorFails(d)
  PROVE  AdmissionSound' /\ VersionsForward
BY ReleaseStep, Zenon DEF ValidatorFails, Set, Holding, stores

\* The report keeps the revision the driver read, with a later command.
LEMMA ReportsStep ==
  ASSUME AdmissionSound, index \in Nat, NEW d \in Drivers, NEW valid \in BOOLEAN, ValidatorReports(d, valid)
  PROVE  AdmissionSound' /\ VersionsForward
<1>1. PICK c : c = driver[d] BY Zenon
<1>2. PICK s : s = [at |-> "reported", version |-> c.version, revision |-> c.revision, valid |-> valid,
                    index |-> index + 1] BY Zenon
<1>3. /\ c.at = "admitting" /\ index' = index + 1 /\ driver' = [driver EXCEPT ![d] = s]
      /\ UNCHANGED <<versions, deployments, claims, pending, processed>>
  BY <1>1, <1>2, Zenon DEF ValidatorReports, Set, stores
<1>4. DriverSound(d, c)
  BY <1>1, Zenon DEF AdmissionSound
<1>5. /\ c \in Admitting /\ c.version \in DOMAIN versions
      /\ versions[c.version].state = "Validating" /\ versions[c.version].revision = c.revision
  BY <1>3, <1>4, DriverPhases, Zenon
<1>6. /\ s \in Reporting /\ s.version = c.version /\ s.revision = c.revision /\ s.index = index + 1
      /\ Holding(s)
  BY <1>2, <1>5 DEF Admitting, Reporting, Holding, Revisions
<1>7. versions[c.version].updatedAt < s.index
  BY <1>5, <1>6 DEF AdmissionSound, VersionRecord, Revisions
<1>8. DriverSound(d, s)'
  <2>1. s.index <= index'
    BY <1>3, <1>6
  <2> QED BY <1>3, <1>5, <1>6, <1>7, <2>1, Zenon DEF DriverSound
<1>9. Holding(driver[d]) /\ driver[d].version = s.version
  BY <1>1, <1>3, <1>6, Zenon DEF Holding
<1>10. pending' \subseteq DOMAIN versions /\ processed' \in 0..ResumeLimit /\ index' \in Nat /\ index <= index'
  BY <1>3 DEF AdmissionSound
<1> QED BY <1>3, <1>6, <1>8, <1>9, <1>10, DriverMoves, Zenon

\* A verdict is final: the Version is Ready with its Deployment, or Failed.
LEMMA CompleteStep ==
  ASSUME AdmissionSound, index \in Nat, NEW d \in Drivers, CompleteValidation(d)
  PROVE  AdmissionSound' /\ VersionsForward /\ TargetsKept /\ DOMAIN versions' = DOMAIN versions
<1>1. PICK c : c = driver[d] BY Zenon
<1>2. PICK v : v = c.version BY Zenon
<1>3. PICK s : s = AfterAdmission(d) BY Zenon
<1>4. /\ c.at = "reported" /\ UNCHANGED <<index, pending, processed>>
      /\ driver' = [driver EXCEPT ![d] = s] /\ claims' = claims \ {v}
      /\ versions[v].revision = c.revision /\ versions[v].state = "Validating"
         /\ c.index >= versions[v].updatedAt =>
            /\ versions' = [versions EXCEPT ![v] = Completed(versions[v], c.valid, c.index)]
            /\ deployments' = IF c.valid THEN deployments \cup {v} ELSE deployments
  BY <1>1, <1>2, <1>3, Zenon DEF CompleteValidation, Set, Completed
<1>5. DriverSound(d, c)
  BY <1>1, Zenon DEF AdmissionSound
<1>6. /\ c \in Reporting /\ v \in DOMAIN versions /\ c.index <= index
      /\ versions[v].state = "Validating" /\ versions[v].revision = c.revision
      /\ versions[v].updatedAt < c.index
  BY <1>2, <1>4, <1>5, DriverPhases, Zenon
<1>7. versions[v] \in VersionRecord /\ c.index \in Revisions /\ c.valid \in BOOLEAN
  BY <1>6, Zenon DEF AdmissionSound, Reporting
<1>8. PICK r : r = Completed(versions[v], c.valid, c.index) BY Zenon
<1>9. /\ r \in VersionRecord /\ r.state = (IF c.valid THEN "Ready" ELSE "Failed")
      /\ r.revision = versions[v].revision + 1 /\ r.updatedAt = c.index /\ r.fenced = FALSE
  <2>1. LET y == Completed(versions[v], c.valid, c.index) IN
        /\ y \in VersionRecord /\ y.state = (IF c.valid THEN "Ready" ELSE "Failed")
        /\ y.revision = versions[v].revision + 1 /\ y.updatedAt = c.index /\ y.fenced = FALSE
    BY <1>7, CompletedRecord, ZenonT(40)
  <2> QED BY <1>8, <2>1, Zenon
<1>10. /\ versions' = [versions EXCEPT ![v] = r]
       /\ deployments' = IF r.state = "Ready" THEN deployments \cup {v} ELSE deployments
  <2>1. c.index >= versions[v].updatedAt
    BY <1>6, <1>7 DEF VersionRecord, Revisions
  <2> QED BY <1>4, <1>6, <1>8, <1>9, <2>1, Zenon
<1>11. s \in Resting /\ ~Holding(s)
  BY <1>3, Zenon DEF AfterAdmission, Idle, Resting, Holding
<1>12. DriverSound(d, s)'
  BY <1>11, Zenon DEF DriverSound
<1>13. Holding(driver[d]) /\ driver[d].version = v
  BY <1>1, <1>2, <1>4, Zenon DEF Holding
<1>14. SingleAdmission'
  BY <1>4, <1>11, <1>13, ClaimsKept, Zenon DEF AdmissionSound
<1>15. ASSUME NEW e \in Drivers \ {d}, driver[e].at \notin {"idle", "looping", "taken"}, driver[e].version = v
       PROVE  FALSE
  <2>1. PICK t : t = driver[e] BY Zenon
  <2>2. DriverSound(e, t)
    BY <2>1, Zenon DEF AdmissionSound
  <2>3. t.at \in {"admitting", "reported"}
    BY <1>6, <1>15, <2>1, <2>2, DriverPhases, Zenon
  <2> QED BY <1>13, <1>15, <2>1, <2>3, Zenon DEF AdmissionSound, SingleAdmission, Holding
<1>16. Rank[r.state] = Rank[versions[v].state] + 1 /\ (r.fenced <=> r.state = "Validating")
  BY <1>6, <1>7, <1>9 DEF Rank
<1> QED BY <1>4, <1>6, <1>9, <1>10, <1>12, <1>14, <1>15, <1>16, VersionChanges, Zenon

\* CreateVersion: a new Version nobody drives but its creator.
LEMMA CreateVersionStep ==
  ASSUME CatalogSound, AdmissionSound, ApplyCreateVersion
  PROVE  CatalogSound' /\ AdmissionSound' /\ VersionsForward
<1>1. PICK v : v = op.version BY Zenon
<1>2. PICK r : r = [function |-> op.function, state |-> "Uploaded", revision |-> 1,
                    updatedAt |-> op.index, fenced |-> FALSE] BY Zenon
<1>3. PICK s : s = [at |-> "created", version |-> v, index |-> op.start] BY Zenon
<1>4. /\ op.kind = "version" /\ op' = NoOp /\ versions' = Put(versions, v, r)
      /\ driver' = [driver EXCEPT ![v] = s]
      /\ UNCHANGED <<functions, routes, deployments, index, claims, pending, processed>>
  BY <1>1, <1>2, <1>3, Zenon DEF ApplyCreateVersion
<1>5. /\ op \in CreateVersionOp /\ op.function \in DOMAIN functions
      /\ v \notin DOMAIN versions /\ op.start <= index /\ op.index < op.start /\ op.index <= index
  BY <1>1, <1>4, OperationKinds DEF CatalogSound, NoOp
<1>6. /\ v \in Versions /\ op.index \in Revisions /\ op.start \in Revisions /\ op.function \in Functions
      /\ index \in Nat /\ v \in Drivers
  BY <1>1, <1>5, Zenon DEF CreateVersionOp, CatalogSound, Drivers
<1>7. /\ r \in VersionRecord /\ r.state = "Uploaded" /\ r.updatedAt = op.index /\ r.fenced = FALSE
      /\ r.revision = 1
  BY <1>2, <1>6 DEF VersionRecord, Revisions
<1>8. /\ DOMAIN versions' = DOMAIN versions \cup {v} /\ versions'[v] = r
      /\ \A w \in DOMAIN versions : versions'[w] = versions[w]
  BY <1>4, <1>5, Zenon DEF Put
<1>9. TargetsKept
  BY <1>4, <1>8, Zenon DEF TargetsKept, validateReadyTarget
<1>10. CatalogSound'
  BY <1>4, <1>9, OperationOver, Zenon DEF TargetsKept
<1>11. s \in Creating /\ s.version = v /\ s.index = op.start /\ ~Holding(s)
  BY <1>3, <1>6, Zenon DEF Creating, Holding
<1>12. DriverSound(v, s)'
  BY <1>4, <1>5, <1>7, <1>8, <1>11, Zenon DEF DriverSound
<1>13. \A e \in Drivers : DriverSound(e, driver[e])'
  <2>1. ASSUME NEW e \in Drivers PROVE \E t : t = driver'[e] /\ DriverSound(e, t)'
    <3>1. CASE e = v
      BY <1>4, <1>12, <3>1, ZenonT(40) DEF AdmissionSound
    <3>2. CASE e # v
      <4>1. PICK t : t = driver[e] BY Zenon
      <4>2. DriverSound(e, t)
        BY <4>1, Zenon DEF AdmissionSound
      <4>3. /\ t.at \notin {"idle", "looping"} => t.version \in DOMAIN versions'
            /\ t.at \notin {"idle", "looping", "taken"} => versions'[t.version] = versions[t.version]
        BY <1>8, <4>2, DriverPhases, Zenon
      <4>4. DriverSound(e, t)'
        BY <1>4, <1>6, <4>2, <4>3, DriverFrame
      <4> QED BY <1>4, <3>2, <4>1, <4>4, Zenon DEF AdmissionSound
    <3> QED BY <3>1, <3>2, Zenon
  <2> QED BY <2>1, DriversAre, Zenon
<1>14. SingleAdmission'
  BY <1>4, <1>6, <1>11, ClaimsKept, Zenon DEF AdmissionSound
<1>15. ReleasesSound'
  <2>1. ASSUME NEW w \in Versions
        PROVE  /\ w \in deployments <=> w \in DOMAIN versions' /\ versions'[w].state = "Ready"
               /\ w \in DOMAIN versions' => (versions'[w].fenced <=> versions'[w].state = "Validating")
    <3>1. CASE w = v
      BY <1>5, <1>7, <1>8, <3>1, Zenon DEF AdmissionSound, ReleasesSound
    <3>2. CASE w # v
      BY <1>8, <3>2, Zenon DEF AdmissionSound, ReleasesSound
    <3> QED BY <3>1, <3>2, Zenon
  <2> QED BY <1>4, <2>1, Zenon DEF ReleasesSound
<1>16. \A w \in DOMAIN versions' :
        /\ versions'[w] \in VersionRecord /\ versions'[w].updatedAt <= index'
        /\ versions'[w].revision = Rank[versions'[w].state] + 1
  <2>1. r.revision = Rank[r.state] + 1
    BY <1>7 DEF Rank
  <2> QED BY <1>4, <1>5, <1>7, <1>8, <2>1, ZenonT(40) DEF AdmissionSound
<1>17. /\ DOMAIN versions' \subseteq Versions /\ DOMAIN driver' = Drivers
       /\ pending' \subseteq DOMAIN versions' /\ VersionsForward
  BY <1>4, <1>6, <1>8, Zenon DEF AdmissionSound, VersionsForward
<1> QED BY <1>4, <1>10, <1>13, <1>14, <1>15, <1>16, <1>17, Zenon DEF AdmissionSound

\* The resume loop reads the list of the Versions with a fence.
LEMMA SnapshotStep ==
  ASSUME AdmissionSound, index \in Nat, ResumeSnapshot PROVE AdmissionSound' /\ VersionsForward
<1>1. PICK s : s = [at |-> "looping"] BY Zenon
<1>2. /\ UNCHANGED <<versions, deployments, index, claims>> /\ driver' = [driver EXCEPT ![Resume] = s]
      /\ pending' = PendingValidations /\ processed' = 0 /\ Resume \in Drivers
  BY <1>1, Zenon DEF ResumeSnapshot, Set, stores, Drivers
<1>3. s \in Resting /\ ~Holding(s)
  BY <1>1, Zenon DEF Resting, Holding
<1>4. DriverSound(Resume, s)'
  BY <1>3, Zenon DEF DriverSound
<1>5. pending' \subseteq DOMAIN versions /\ processed' \in 0..ResumeLimit /\ index' \in Nat /\ index <= index'
  BY <1>2 DEF PendingValidations
<1> QED BY <1>2, <1>3, <1>4, <1>5, DriverMoves, Zenon

\* The pass takes the next Version of its list unless somebody admits it already.
LEMMA NextStep ==
  ASSUME AdmissionSound, index \in Nat, ResumeNext PROVE AdmissionSound' /\ VersionsForward
<1>1. UNCHANGED <<versions, deployments, index>> /\ Resume \in Drivers /\ index' \in Nat /\ index <= index'
  BY DEF ResumeNext, stores, Drivers
<1>2. CASE driver' = [driver EXCEPT ![Resume] = Idle] /\ pending' = {} /\ processed' = 0 /\ UNCHANGED claims
  <2>1. PICK s : s = Idle BY Zenon
  <2>2. s \in Resting /\ ~Holding(s)
    BY <2>1, Zenon DEF Idle, Resting, Holding
  <2>3. DriverSound(Resume, s)'
    BY <2>2, Zenon DEF DriverSound
  <2>4. pending' \subseteq DOMAIN versions /\ processed' \in 0..ResumeLimit
    BY <1>2
  <2> QED BY <1>1, <1>2, <2>1, <2>2, <2>3, <2>4, DriverMoves, Zenon
<1>3. CASE pending' \subseteq pending /\ UNCHANGED <<driver, claims, processed>>
  <2>1. \A d \in Drivers : DriverSound(d, driver[d])'
    BY <1>1, <1>3 DEF AdmissionSound, DriverSound
  <2>2. ReleasesSound' /\ SingleAdmission'
    BY <1>1, <1>3, Zenon DEF AdmissionSound, ReleasesSound, SingleAdmission
  <2> QED BY <1>1, <1>3, <2>1, <2>2, Zenon DEF AdmissionSound, VersionsForward
<1>4. ASSUME NEW v \in pending, v \notin claims, processed < ResumeLimit, pending' = pending \ {v},
             claims' = claims \cup {v}, processed' = processed + 1,
             driver' = [driver EXCEPT ![Resume] = [at |-> "taken", version |-> v]]
      PROVE  AdmissionSound' /\ VersionsForward
  <2>1. PICK s : s = [at |-> "taken", version |-> v] BY ZenonT(40)
  <2>2. v \in DOMAIN versions /\ v \in Versions
    BY <1>4, Zenon DEF AdmissionSound
  <2>3. s \in Taking /\ Holding(s) /\ s.version = v
    BY <2>1, <2>2, Zenon DEF Taking, Holding
  <2>4. DriverSound(Resume, s)'
    BY <1>1, <2>2, <2>3, Zenon DEF DriverSound
  <2>5. pending' \subseteq DOMAIN versions /\ processed' \in 0..ResumeLimit
    BY <1>4 DEF AdmissionSound
  <2> QED BY <1>1, <1>4, <2>1, <2>3, <2>4, <2>5, DriverMoves, Zenon
<1>5. \/ driver' = [driver EXCEPT ![Resume] = Idle] /\ pending' = {} /\ processed' = 0 /\ UNCHANGED claims
      \/ pending' \subseteq pending /\ UNCHANGED <<driver, claims, processed>>
      \/ \E v \in pending :
            /\ v \notin claims /\ processed < ResumeLimit /\ pending' = pending \ {v}
            /\ claims' = claims \cup {v} /\ processed' = processed + 1
            /\ driver' = [driver EXCEPT ![Resume] = [at |-> "taken", version |-> v]]
  BY Zenon DEF ResumeNext, Set
<1> QED BY <1>2, <1>3, <1>4, <1>5, Zenon

\* A Version that was decided since the list was read is left alone.
LEMMA LoadStep ==
  ASSUME AdmissionSound, index \in Nat, ResumeLoad PROVE AdmissionSound' /\ VersionsForward
<1>1. PICK c : c = driver[Resume] BY Zenon
<1>2. PICK v : v = c.version BY Zenon
<1>3. /\ c.at = "taken" /\ UNCHANGED <<versions, deployments, index, pending, processed>>
      /\ Resume \in Drivers /\ index' \in Nat /\ index <= index'
      /\ \/ /\ versions[v].state = "Validating" /\ UNCHANGED claims
            /\ driver' = [driver EXCEPT ![Resume] =
                             [at |-> "admitting", version |-> v, revision |-> versions[v].revision]]
         \/ driver' = [driver EXCEPT ![Resume] = [at |-> "looping"]] /\ claims' = claims \ {v}
  BY <1>1, <1>2 DEF ResumeLoad, Set, stores, Drivers
<1>4. DriverSound(Resume, c)
  BY <1>1, <1>3, Zenon DEF AdmissionSound
<1>5. c \in Taking /\ v \in DOMAIN versions /\ v \in Versions /\ versions[v] \in VersionRecord
  BY <1>2, <1>3, <1>4, DriverPhases, Zenon DEF AdmissionSound
<1>6. Holding(driver[Resume]) /\ driver[Resume].version = v
  BY <1>1, <1>2, <1>3, Zenon DEF Holding
<1>7. pending' \subseteq DOMAIN versions /\ processed' \in 0..ResumeLimit
  BY <1>3, Zenon DEF AdmissionSound
<1>8. ASSUME versions[v].state = "Validating", UNCHANGED claims,
             driver' = [driver EXCEPT ![Resume] =
                           [at |-> "admitting", version |-> v, revision |-> versions[v].revision]]
      PROVE  AdmissionSound' /\ VersionsForward
  <2>1. PICK s : s = [at |-> "admitting", version |-> v, revision |-> versions[v].revision] BY Zenon
  <2>2. s \in Admitting /\ Holding(s) /\ s.version = v /\ s.revision = versions[v].revision
    BY <1>5, <2>1, Zenon DEF Admitting, Holding, VersionRecord
  <2>3. DriverSound(Resume, s)'
    BY <1>3, <1>5, <1>8, <2>2, Zenon DEF DriverSound
  <2> QED BY <1>3, <1>6, <1>7, <1>8, <2>1, <2>2, <2>3, DriverMoves, Zenon
<1>9. ASSUME driver' = [driver EXCEPT ![Resume] = [at |-> "looping"]], claims' = claims \ {v}
      PROVE  AdmissionSound' /\ VersionsForward
  <2>1. PICK s : s = [at |-> "looping"] BY Zenon
  <2>2. s \in Resting /\ ~Holding(s)
    BY <2>1, Zenon DEF Resting, Holding
  <2>3. DriverSound(Resume, s)'
    BY <2>2, Zenon DEF DriverSound
  <2> QED BY <1>3, <1>6, <1>7, <1>9, <2>1, <2>2, <2>3, DriverMoves, ZenonT(40)
<1> QED BY <1>3, <1>8, <1>9, Zenon

-----------------------------------------------------------------------------
(* Placements.                                                             *)

\* What the pass carries, from its phase.
LEMMA PassPhases ==
  ASSUME PassSound
  PROVE  /\ place.at = "listed" => place \in Listing
         /\ place.at = "deciding" => place \in Choosing /\ StillKnown(place.target, place.live, place.todo)
         /\ place.at = "cancelling" =>
              /\ place \in Cancelling /\ StillKnown(place.target, place.live, place.todo)
              /\ place.assignment \in DOMAIN assignments /\ place.index <= index
              /\ assignments[place.assignment].function \notin place.todo
         /\ place.at = "installing" =>
              /\ place \in Placing /\ StillKnown(place.target, place.live, place.todo)
              /\ place.function \notin place.todo /\ place.index <= index
              /\ Assigned(place.function) = {}
<1>1. /\ Idle.at = "idle" /\ \A p \in Listing : p.at = "listed"
      /\ \A p \in Choosing : p.at = "deciding"
      /\ \A p \in Cancelling : p.at = "cancelling"
      /\ \A p \in Placing : p.at = "installing"
  BY Zenon DEF Idle, Listing, Choosing, Cancelling, Placing
<1> QED BY <1>1, Zenon DEF PassSound

\* What is live follows from the records.
LEMMA AssignedSame ==
  ASSUME UNCHANGED assignments
  PROVE  /\ \A f : Assigned(f)' = Assigned(f)
         /\ \A f, v : Placed(f, v)' <=> Placed(f, v)
         /\ \A t, l, u : StillKnown(t, l, u)' <=> StillKnown(t, l, u)
<1>1. \A f : Assigned(f)' = Assigned(f)
  BY Zenon DEF Assigned
<1>2. \A f, v : Placed(f, v)' <=> Placed(f, v)
  BY <1>1, Zenon DEF Placed
<1>3. \A t, l, u : StillKnown(t, l, u)' <=> StillKnown(t, l, u)
  BY <1>1, Zenon DEF StillKnown
<1> QED BY <1>1, <1>2, <1>3, Zenon

\* The placements stay and the pass moves on.
LEMMA PassMoves ==
  ASSUME PlacementSound, UNCHANGED <<assignments, activeCounts>>,
         index \in Nat, index' \in Nat, index <= index', PassSound'
  PROVE  PlacementSound'
<1>1. \A a \in DOMAIN assignments : assignments[a] \in AssignmentRecord /\ assignments[a].lastIndex <= index
  <2>1. assignments \in Seq(AssignmentRecord)
    BY Zenon DEF PlacementSound
  <2>2. \A a \in DOMAIN assignments : assignments[a] \in AssignmentRecord
    BY <2>1
  <2> QED BY <2>2, Zenon DEF PlacementSound
<1>2. \A a \in DOMAIN assignments : assignments[a].lastIndex <= index'
  BY <1>1 DEF AssignmentRecord, Revisions
<1>3. \A f \in Functions, v \in Versions : activeCounts'[<<f, v>>] = IF Placed(f, v)' THEN 1 ELSE 0
  BY AssignedSame, Zenon DEF PlacementSound
<1>4. OneAssigned'
  BY AssignedSame, ZenonT(40) DEF PlacementSound, OneAssigned
<1> QED BY <1>2, <1>3, <1>4, Zenon DEF PlacementSound

\* Nothing of the placements changes.
LEMMA PlacementFrame ==
  ASSUME PlacementSound, UNCHANGED <<assignments, activeCounts, place>>,
         index \in Nat, index' \in Nat, index <= index'
  PROVE  PlacementSound'
<1>1. /\ \A p \in Cancelling : p.index <= index => p.index <= index'
      /\ \A p \in Placing : p.index <= index => p.index <= index'
  BY DEF Cancelling, Placing, Revisions
<1>2. StillKnown(place.target, place.live, place.todo)' <=> StillKnown(place.target, place.live, place.todo)
  BY Zenon DEF StillKnown, Assigned
<1>3. Assigned(place.function)' = Assigned(place.function)
  BY ZenonT(40) DEF Assigned
<1>4. PassSound'
  BY <1>1, <1>2, <1>3, Zenon DEF PlacementSound, PassSound
<1> QED BY <1>4, PassMoves, Zenon

\* The pass reads the targets.
LEMMA ListTargetsStep ==
  ASSUME CatalogSound, PlacementSound, ListServingStates PROVE PlacementSound'
<1> DEFINE t == [f \in DOMAIN functions |-> ServableTarget(f)]
<1>1. /\ place' = [at |-> "listed", target |-> t] /\ UNCHANGED <<assignments, activeCounts, index>>
      /\ index \in Nat
  BY Zenon DEF ListServingStates, stores, CatalogSound
<1>2. \A f \in DOMAIN functions : ServableTarget(f) \in Versions \cup {NoVersion}
  BY Zenon DEF ServableTarget, CatalogSound, RouteRecord
<1>3. t \in TargetMaps
  BY <1>2 DEF TargetMaps, CatalogSound
<1> HIDE DEF t
<1>4. place' \in Listing
  BY <1>1, <1>3, Zenon DEF Listing
<1>5. PassSound'
  BY <1>4, Zenon DEF PassSound
<1> QED BY <1>1, <1>5, PassMoves

\* The live placement a pass finds is the one the Function has.
LEMMA ListAssignmentsStep ==
  ASSUME CatalogSound, PlacementSound, ListAssignments PROVE PlacementSound'
<1> DEFINE S == DOMAIN place.target
           l == [f \in S |-> IF Assigned(f) = {} THEN 0 ELSE Max(Assigned(f))]
           u == {f \in S : place.target[f] # NoVersion}
<1>1. /\ place.at = "listed" /\ UNCHANGED <<assignments, activeCounts, index>> /\ index \in Nat
      /\ place' = [at |-> "deciding", target |-> place.target, live |-> l, todo |-> u]
  BY Zenon DEF ListAssignments, stores, CatalogSound
<1>2. place \in Listing
  BY <1>1, PassPhases, Zenon DEF PlacementSound
<1>3. /\ place.target \in TargetMaps /\ S \subseteq Functions
      /\ \A f \in S : place.target[f] \in Versions \cup {NoVersion}
  BY <1>2 DEF Listing, TargetMaps
<1>4. ASSUME NEW f \in S, Assigned(f) # {}
      PROVE  Max(Assigned(f)) \in Assigned(f) /\ Max(Assigned(f)) \in Nat /\ Max(Assigned(f)) # 0
  <2>1. PICK a \in Assigned(f) : TRUE
    BY <1>4, Zenon
  <2>2. Assigned(f) \subseteq Nat \ {0}
    <3>1. assignments \in Seq(AssignmentRecord)
      BY Zenon DEF PlacementSound
    <3>2. DOMAIN assignments \subseteq Nat \ {0}
      BY <3>1
    <3> QED BY <3>2, Zenon DEF Assigned
  <2>3. \A y \in Assigned(f) : a >= y
    <3>1. \A y \in Assigned(f) : y = a
      BY <1>3, <1>4, <2>1, Zenon DEF PlacementSound, OneAssigned
    <3>2. a \in Int
      BY <2>2
    <3> QED BY <3>1, <3>2
  <2>4. Max(Assigned(f)) \in Assigned(f)
    BY <2>1, <2>3, Zenon DEF Max
  <2> QED BY <2>2, <2>4, Zenon
<1>5. l \in [S -> Nat]
  <2>1. \A f \in S : (IF Assigned(f) = {} THEN 0 ELSE Max(Assigned(f))) \in Nat
    BY <1>4, Zenon
  <2> QED BY <2>1, Zenon
<1>6. l \in LiveMaps
  BY <1>3, <1>5, Zenon DEF LiveMaps
<1>7. u \subseteq S /\ StillKnown(place.target, l, u)
  <2>1. \A f \in u : f \in S /\ place.target[f] \in Versions
    BY <1>3, Zenon
  <2>2. \A f \in S : l[f] = 0 => Assigned(f) = {}
    BY <1>4, Zenon
  <2>3. \A f \in S : l[f] # 0 => l[f] \in Assigned(f)
    BY <1>4, Zenon
  <2>4. DOMAIN l = S BY Zenon
  <2> QED BY <2>1, <2>2, <2>3, <2>4, Zenon DEF StillKnown
<1> HIDE DEF l, u
<1>8. PICK t, m, w : t = place.target /\ m = l /\ w = u BY Zenon
<1>9. place' \in Choosing /\ place'.target = t /\ place'.live = m /\ place'.todo = w
  BY <1>1, <1>3, <1>6, <1>7, <1>8, Zenon DEF Choosing
<1>10. StillKnown(t, m, w)'
  BY <1>1, <1>7, <1>8, AssignedSame, Zenon
<1>11. StillKnown(place.target, place.live, place.todo)'
  BY <1>9, <1>10, ZenonT(40) DEF StillKnown
<1>12. PassSound'
  BY <1>9, <1>11, Zenon DEF PassSound
<1> QED BY <1>1, <1>12, PassMoves

\* The pass is done with a Function and has reserved nothing.
LEMMA SkipStep ==
  ASSUME PlacementSound, index \in Nat, NEW f \in Functions, Skip(f) PROVE PlacementSound'
<1>1. /\ place.at = "deciding" /\ place' = [place EXCEPT !.todo = @ \ {f}]
      /\ UNCHANGED <<assignments, activeCounts, index>>
  BY Zenon DEF Skip, stores
<1>2. place \in Choosing /\ StillKnown(place.target, place.live, place.todo)
  BY <1>1, PassPhases, Zenon DEF PlacementSound
<1>3. PICK t, l, u : t = place.target /\ l = place.live /\ u = place.todo \ {f} BY Zenon
<1>4. place' \in Choosing /\ place'.target = t /\ place'.live = l /\ place'.todo = u
  BY <1>1, <1>2, <1>3, Zenon DEF Choosing
<1>5. StillKnown(t, l, u)
  BY <1>2, <1>3, Zenon DEF StillKnown
<1>6. StillKnown(t, l, u)'
  BY <1>1, <1>5, AssignedSame, Zenon
<1>7. StillKnown(place.target, place.live, place.todo)'
  BY <1>4, <1>6, Zenon DEF StillKnown
<1>8. PassSound'
  BY <1>4, <1>7, Zenon DEF PassSound
<1> QED BY <1>1, <1>8, PassMoves

\* The pass reserves the cancellation of the live placement, of another target.
LEMMA ReserveCancelStep ==
  ASSUME PlacementSound, index \in Nat, NEW f \in Functions, ReserveCancel(f)
  PROVE  PlacementSound' /\ index' \in Nat /\ index <= index'
<1>1. PICK t, l, u, a : /\ t = place.target /\ l = place.live /\ u = place.todo \ {f}
                        /\ a = place.live[f]
  BY Zenon
<1>2. /\ place.at = "deciding" /\ f \in place.todo /\ a # 0 /\ index' = index + 1
      /\ place' = [at |-> "cancelling", target |-> t, live |-> l, todo |-> u, assignment |-> a,
                   revision |-> assignments[a].revision, index |-> index + 1]
      /\ UNCHANGED <<assignments, activeCounts>>
  BY <1>1, Zenon DEF ReserveCancel, stores
<1>3. place \in Choosing /\ StillKnown(place.target, place.live, place.todo)
  BY <1>2, PassPhases, Zenon DEF PlacementSound
<1>4. StillKnown(t, l, u) /\ a \in Assigned(f)
  BY <1>1, <1>2, <1>3, Zenon DEF StillKnown
<1>5. /\ a \in DOMAIN assignments /\ assignments[a].function = f /\ a \in Nat \ {0}
      /\ assignments[a] \in AssignmentRecord
  <2>1. assignments \in Seq(AssignmentRecord)
    BY Zenon DEF PlacementSound
  <2> QED BY <1>4, <2>1 DEF Assigned
<1>6. /\ place' \in Cancelling /\ place'.target = t /\ place'.live = l /\ place'.todo = u
      /\ place'.assignment = a /\ place'.index = index + 1
  BY <1>1, <1>2, <1>3, <1>5 DEF Choosing, Cancelling, Revisions, AssignmentRecord
<1>7. StillKnown(t, l, u)'
  BY <1>2, <1>4, AssignedSame, Zenon
<1>8. StillKnown(place.target, place.live, place.todo)'
  BY <1>6, <1>7, Zenon DEF StillKnown
<1>9. PassSound'
  <2>1. place'.assignment \in DOMAIN assignments' /\ place'.index <= index'
        /\ assignments'[place'.assignment].function \notin place'.todo
    BY <1>1, <1>2, <1>5, <1>6, SMTT(30)
  <2> QED BY <1>6, <1>8, <2>1, Zenon DEF PassSound
<1>10. index' \in Nat /\ index <= index'
  BY <1>2
<1> QED BY <1>2, <1>9, <1>10, PassMoves, Zenon

\* The pass reserves a placement for a Function that has none.
LEMMA ReserveCommitStep ==
  ASSUME PlacementSound, index \in Nat, NEW f \in Functions, ReserveCommit(f)
  PROVE  PlacementSound' /\ index' \in Nat /\ index <= index'
<1>1. PICK t, l, u, v : /\ t = place.target /\ l = place.live /\ u = place.todo \ {f}
                        /\ v = place.target[f]
  BY Zenon
<1>2. /\ place.at = "deciding" /\ f \in place.todo /\ place.live[f] = 0 /\ index' = index + 1
      /\ place' = [at |-> "installing", target |-> t, live |-> l, todo |-> u, function |-> f,
                   version |-> v, index |-> index + 1]
      /\ UNCHANGED <<assignments, activeCounts>>
  BY <1>1, Zenon DEF ReserveCommit, Installing, stores
<1>3. place \in Choosing /\ StillKnown(place.target, place.live, place.todo)
  BY <1>2, PassPhases, Zenon DEF PlacementSound
<1>4. StillKnown(t, l, u) /\ Assigned(f) = {} /\ v \in Versions
  BY <1>1, <1>2, <1>3, ZenonT(40) DEF StillKnown
<1>6. /\ place' \in Placing /\ place'.target = t /\ place'.live = l /\ place'.todo = u
      /\ place'.function = f /\ place'.index = index + 1
  BY <1>1, <1>2, <1>3, <1>4 DEF Choosing, Placing, Revisions
<1>7. StillKnown(t, l, u)' /\ Assigned(f)' = {}
  BY <1>2, <1>4, AssignedSame, Zenon
<1>8. StillKnown(place.target, place.live, place.todo)' /\ Assigned(place.function)' = {}
  BY <1>6, <1>7, Zenon DEF StillKnown, Assigned
<1>9. PassSound'
  <2>1. place'.function \notin place'.todo /\ place'.index <= index'
    BY <1>1, <1>2, <1>6, SMTT(30)
  <2> QED BY <1>6, <1>8, <2>1, Zenon DEF PassSound
<1>10. index' \in Nat /\ index <= index'
  BY <1>2
<1> QED BY <1>2, <1>9, <1>10, PassMoves, Zenon

\* The pass ends.
LEMMA EndPassStep ==
  ASSUME PlacementSound, index \in Nat, EndPass PROVE PlacementSound'
<1>1. place' = Idle /\ UNCHANGED <<assignments, activeCounts, index>>
  BY Zenon DEF EndPass, stores
<1>2. PassSound'
  BY <1>1, Zenon DEF PassSound, Idle
<1> QED BY <1>1, <1>2, PassMoves

\* The pass goes on with the Functions it has still to decide.
LEMMA DecidingAgain ==
  ASSUME PlacementSound, place.at \in {"cancelling", "installing"}, place' = Deciding,
         \A f \in place.todo : Assigned(f)' = Assigned(f)
  PROVE  PassSound'
<1>1. PICK t, l, u : t = place.target /\ l = place.live /\ u = place.todo BY Zenon
<1>2. StillKnown(t, l, u) /\ t \in TargetMaps /\ l \in LiveMaps /\ u \in SUBSET Functions
  BY <1>1, PassPhases, Zenon DEF PlacementSound, Cancelling, Placing
<1>3. place' = [at |-> "deciding", target |-> t, live |-> l, todo |-> u]
  BY <1>1, Zenon DEF Deciding
<1>4. place' \in Choosing /\ place'.target = t /\ place'.live = l /\ place'.todo = u
  BY <1>2, <1>3 DEF Choosing
<1>5. \A f \in u : /\ f \in DOMAIN t /\ t[f] \in Versions /\ f \in DOMAIN l
                   /\ l[f] = 0 => Assigned(f)' = {}
                   /\ l[f] # 0 => l[f] \in Assigned(f)'
  BY <1>1, <1>2, Zenon DEF StillKnown
<1>6. StillKnown(place.target, place.live, place.todo)'
  BY <1>4, <1>5, Zenon DEF StillKnown
<1> QED BY <1>4, <1>6, Zenon DEF PassSound

\* A placement's record after its cancellation.
Cancelled(x, i) == [x EXCEPT !.state = "Cancelled", !.revision = x.revision + 1, !.lastIndex = i]

\* What a cancellation leaves of the record.
LEMMA CancelledRecord ==
  ASSUME NEW x \in AssignmentRecord, NEW i \in Revisions
  PROVE  LET y == Cancelled(x, i) IN
         /\ y \in AssignmentRecord /\ y.function = x.function /\ y.version = x.version
         /\ y.state = "Cancelled" /\ y.revision = x.revision + 1 /\ y.lastIndex = i
<1>1. x.revision + 1 \in Revisions
  BY DEF AssignmentRecord, Revisions
<1>2. LET u == [x EXCEPT !.state = "Cancelled"] IN
        /\ u \in AssignmentRecord /\ u.state = "Cancelled" /\ u.function = x.function
        /\ u.version = x.version
  BY Zenon DEF AssignmentRecord
<1>3. ASSUME NEW w \in AssignmentRecord
      PROVE  LET q == [w EXCEPT !.revision = x.revision + 1, !.lastIndex = i] IN
             /\ q \in AssignmentRecord /\ q.state = w.state /\ q.revision = x.revision + 1
             /\ q.lastIndex = i /\ q.function = w.function /\ q.version = w.version
  BY <1>1, Zenon DEF AssignmentRecord
<1> QED BY <1>2, <1>3, Zenon DEF Cancelled

\* A superseded placement goes, and its Function has none until a later pass.
LEMMA CancelStep ==
  ASSUME PlacementSound, index \in Nat, Cancel PROVE PlacementSound'
<1>1. PICK a : a = place.assignment BY Zenon
<1>2. PICK r : r = assignments[a] BY Zenon
<1>3. PICK i : i = place.index BY Zenon
<1>4. PICK g, v : g = r.function /\ v = r.version BY Zenon
<1>5. /\ place.at = "cancelling" /\ place' = Deciding /\ UNCHANGED index
      /\ \/ UNCHANGED <<assignments, activeCounts>>
         \/ /\ r.state = "Assigned"
            /\ assignments' = [assignments EXCEPT ![a] = Cancelled(r, i)]
            /\ activeCounts' = [activeCounts EXCEPT ![<<g, v>>] = @ - 1]
  BY <1>1, <1>2, <1>3, <1>4, ZenonT(40) DEF Cancel, Cancelled
<1>6. /\ place \in Cancelling /\ a \in DOMAIN assignments /\ i <= index /\ g \notin place.todo
  BY <1>1, <1>2, <1>3, <1>4, <1>5, PassPhases, Zenon DEF PlacementSound
<1>7. assignments \in Seq(AssignmentRecord) /\ r \in AssignmentRecord /\ i \in Revisions
      /\ g \in Functions /\ v \in Versions
  <2>1. assignments \in Seq(AssignmentRecord)
    BY Zenon DEF PlacementSound
  <2>2. i \in Revisions
    BY <1>3, <1>6, Zenon DEF Cancelling
  <2>3. r \in AssignmentRecord
    BY <1>2, <1>6, <2>1
  <2> QED BY <1>4, <2>1, <2>2, <2>3, Zenon DEF AssignmentRecord
<1>8. CASE UNCHANGED <<assignments, activeCounts>>
  BY <1>5, <1>8, AssignedSame, DecidingAgain, PassMoves
<1>9. CASE /\ r.state = "Assigned"
           /\ assignments' = [assignments EXCEPT ![a] = Cancelled(r, i)]
           /\ activeCounts' = [activeCounts EXCEPT ![<<g, v>>] = @ - 1]
  <2>1. PICK n : n = Cancelled(r, i) BY Zenon
  <2>2. /\ n \in AssignmentRecord /\ n.state = "Cancelled" /\ n.revision = r.revision + 1
        /\ n.lastIndex = i
    BY <1>7, <2>1, CancelledRecord, Zenon
  <2>3. /\ DOMAIN assignments' = DOMAIN assignments /\ assignments'[a] = n
        /\ \A b \in DOMAIN assignments : b # a => assignments'[b] = assignments[b]
        /\ assignments' \in Seq(AssignmentRecord)
    BY <1>6, <1>7, <1>9, <2>1, <2>2
  <2>4. \A f : Assigned(f)' = Assigned(f) \ {a}
    BY <2>2, <2>3, Zenon DEF Assigned
  <2>5. a \in Assigned(g) /\ \A f : f # g => a \notin Assigned(f)
    BY <1>2, <1>4, <1>6, <1>9, Zenon DEF Assigned
  <2>6. \A f : f # g => Assigned(f)' = Assigned(f)
    BY <2>4, <2>5, Zenon
  <2>7. Assigned(g) = {a} /\ Assigned(g)' = {}
    BY <1>7, <2>4, <2>5 DEF PlacementSound, OneAssigned
  <2>8. OneAssigned'
    BY <2>4, Zenon DEF PlacementSound, OneAssigned
  <2>9. PassSound'
    <3>1. \A f \in place.todo : f # g
      BY <1>6, Zenon
    <3> QED BY <1>5, <2>6, <3>1, DecidingAgain, Zenon
  <2>10. \A b \in DOMAIN assignments' :
           /\ assignments'[b].lastIndex <= index'
           /\ assignments'[b].revision = IF assignments'[b].state = "Assigned" THEN 1 ELSE 2
    <3>1. r.revision = 1
      BY <1>2, <1>6, <1>9, Zenon DEF PlacementSound
    <3> QED BY <1>5, <1>6, <2>2, <2>3, <3>1 DEF PlacementSound
  <2>11. activeCounts[<<g, v>>] = 1 /\ \A w \in Versions : w # v => activeCounts[<<g, w>>] = 0
    <3>1. Placed(g, v) /\ \A w : w # v => ~Placed(g, w)
      BY <1>2, <1>4, <2>7, Zenon DEF Placed
    <3> QED BY <1>7, <3>1, Zenon DEF PlacementSound
  <2>12. activeCounts' \in [Functions \X Versions -> Nat]
    BY <1>7, <1>9, <2>11 DEF PlacementSound
  <2>13. ASSUME NEW f \in Functions, NEW w \in Versions
         PROVE  activeCounts'[<<f, w>>] = IF Placed(f, w)' THEN 1 ELSE 0
    <3>1. CASE f = g
      <4>1. ~Placed(f, w)'
        BY <2>7, <3>1, Zenon DEF Placed
      <4>2. activeCounts'[<<f, w>>] = 0
        BY <1>7, <1>9, <2>11, <3>1 DEF PlacementSound
      <4> QED BY <4>1, <4>2, Zenon
    <3>2. CASE f # g
      <4>1. activeCounts'[<<f, w>>] = activeCounts[<<f, w>>]
        BY <1>7, <1>9, <3>2, Zenon DEF PlacementSound
      <4>2. Placed(f, w)' <=> Placed(f, w)
        <5>1. \A b \in Assigned(f) : assignments'[b] = assignments[b]
          BY <2>3, <2>5, <3>2, Zenon DEF Assigned
        <5> QED BY <2>6, <3>2, <5>1, Zenon DEF Placed
      <4> QED BY <4>1, <4>2, Zenon DEF PlacementSound
    <3> QED BY <3>1, <3>2, Zenon
  <2> QED BY <2>3, <2>8, <2>9, <2>10, <2>12, <2>13, Zenon DEF PlacementSound
<1> QED BY <1>5, <1>8, <1>9, Zenon

\* A placement is installed for a Function that has none.
LEMMA InstallStep ==
  ASSUME PlacementSound, index \in Nat, Install PROVE PlacementSound'
<1>1. PICK g, v, i : g = place.function /\ v = place.version /\ i = place.index BY Zenon
<1>2. PICK n : n = [function |-> g, version |-> v, state |-> "Assigned", revision |-> 1, lastIndex |-> i]
  BY Zenon
<1>3. /\ place.at = "installing" /\ place' = Deciding /\ UNCHANGED index
      /\ \/ UNCHANGED <<assignments, activeCounts>>
         \/ /\ assignments' = Append(assignments, n)
            /\ activeCounts' = [activeCounts EXCEPT ![<<g, v>>] = @ + 1]
  BY <1>1, <1>2, ZenonT(40) DEF Install
<1>4. /\ place \in Placing /\ g \notin place.todo /\ i <= index /\ Assigned(g) = {}
  BY <1>1, <1>3, PassPhases, Zenon DEF PlacementSound
<1>5. g \in Functions /\ v \in Versions /\ i \in Revisions
  BY <1>1, <1>4, Zenon DEF Placing
<1>6. assignments \in Seq(AssignmentRecord)
  BY Zenon DEF PlacementSound
<1>7. CASE UNCHANGED <<assignments, activeCounts>>
  BY <1>3, <1>7, AssignedSame, DecidingAgain, PassMoves
<1>8. CASE /\ assignments' = Append(assignments, n)
           /\ activeCounts' = [activeCounts EXCEPT ![<<g, v>>] = @ + 1]
  <2>1. PICK m : m = Len(assignments) + 1 BY Zenon
  <2>2. /\ n \in AssignmentRecord /\ n.state = "Assigned" /\ n.revision = 1 /\ n.lastIndex = i
        /\ n.function = g /\ n.version = v
    BY <1>2, <1>5 DEF AssignmentRecord, Revisions
  <2>3. /\ DOMAIN assignments' = DOMAIN assignments \cup {m} /\ m \notin DOMAIN assignments
        /\ assignments'[m] = n
        /\ \A b \in DOMAIN assignments : assignments'[b] = assignments[b]
        /\ assignments' \in Seq(AssignmentRecord)
    BY <1>6, <1>8, <2>1, <2>2
  <2>4. Assigned(g)' = {m} /\ \A f : f # g => Assigned(f)' = Assigned(f)
    BY <1>4, <2>2, <2>3 DEF Assigned
  <2>5. OneAssigned'
    BY <2>4 DEF PlacementSound, OneAssigned
  <2>6. PassSound'
    <3>1. \A f \in place.todo : f # g
      BY <1>4, Zenon
    <3> QED BY <1>3, <2>4, <3>1, DecidingAgain, Zenon
  <2>7. \A b \in DOMAIN assignments' :
           /\ assignments'[b].lastIndex <= index'
           /\ assignments'[b].revision = IF assignments'[b].state = "Assigned" THEN 1 ELSE 2
    BY <1>3, <1>4, <2>2, <2>3 DEF PlacementSound
  <2>8. \A w \in Versions : activeCounts[<<g, w>>] = 0
    <3>1. \A w : ~Placed(g, w)
      BY <1>4, Zenon DEF Placed
    <3> QED BY <1>5, <3>1, Zenon DEF PlacementSound
  <2>9. activeCounts' \in [Functions \X Versions -> Nat]
    BY <1>5, <1>8, <2>8 DEF PlacementSound
  <2>10. ASSUME NEW f \in Functions, NEW w \in Versions
         PROVE  activeCounts'[<<f, w>>] = IF Placed(f, w)' THEN 1 ELSE 0
    <3>1. CASE f = g
      <4>1. Placed(f, w)' <=> w = v
        BY <2>2, <2>3, <2>4, <3>1, Zenon DEF Placed
      <4>2. activeCounts'[<<f, w>>] = IF w = v THEN 1 ELSE 0
        BY <1>5, <1>8, <2>8, <3>1 DEF PlacementSound
      <4> QED BY <4>1, <4>2, Zenon
    <3>2. CASE f # g
      <4>1. activeCounts'[<<f, w>>] = activeCounts[<<f, w>>]
        BY <1>5, <1>8, <3>2, Zenon DEF PlacementSound
      <4>2. Placed(f, w)' <=> Placed(f, w)
        <5>1. \A b \in Assigned(f) : assignments'[b] = assignments[b]
          BY <2>3, Zenon DEF Assigned
        <5> QED BY <2>4, <3>2, <5>1, Zenon DEF Placed
      <4> QED BY <4>1, <4>2, Zenon DEF PlacementSound
    <3> QED BY <3>1, <3>2, Zenon
  <2> QED BY <2>3, <2>5, <2>6, <2>7, <2>9, <2>10, Zenon DEF PlacementSound
<1> QED BY <1>3, <1>7, <1>8, Zenon

-----------------------------------------------------------------------------
(* The stores together.                                                    *)

\* The stores start empty, or as admitted Versions leave them.
LEMMA StoresStart == ControlPlaneInit => StoresInv
<1> SUFFICES ASSUME ControlPlaneInit PROVE StoresInv
  BY Zenon
<1>1. NoAssignments /\ (EmptyInit \/ AdmittedInit)
  BY Zenon DEF ControlPlaneInit
<1>2. PlacementSound
  <2>1. assignments = <<>> /\ activeCounts = [t \in Functions \X Versions |-> 0] /\ place = Idle
    BY <1>1, Zenon DEF NoAssignments
  <2>2. assignments \in Seq(AssignmentRecord) /\ DOMAIN assignments = {}
    BY <2>1
  <2>3. \A f : Assigned(f) = {}
    BY <2>2, Zenon DEF Assigned
  <2>4. OneAssigned /\ \A f, v : ~Placed(f, v)
    BY <2>3, Zenon DEF OneAssigned, Placed
  <2>5. /\ activeCounts \in [Functions \X Versions -> Nat]
        /\ \A f \in Functions, v \in Versions : activeCounts[<<f, v>>] = 0
    BY <2>1, Zenon
  <2> QED BY <2>1, <2>2, <2>4, <2>5, Zenon DEF PlacementSound, PassSound
<1>3. /\ DOMAIN driver = Drivers /\ \A d \in Drivers : driver[d] \in Resting /\ ~Holding(driver[d])
      /\ driver[Resume].at = "idle"
      /\ claims = {} /\ pending = {} /\ processed = 0 /\ DOMAIN routes = {} /\ op = NoOp
  BY <1>1 DEF NoAssignments, Idle, Resting, Holding, Drivers
<1>4. SingleAdmission /\ \A d \in Drivers : DriverSound(d, driver[d])
  BY <1>3, Zenon DEF SingleAdmission, Holding, DriverSound
<1>5. OperationSound
  BY <1>3, Zenon DEF OperationSound
<1>6. CASE EmptyInit
  <2>1. DOMAIN functions = {} /\ DOMAIN versions = {} /\ deployments = {} /\ index = 0
    BY <1>6 DEF EmptyInit
  <2>2. ServingStatesSound /\ ReleasesSound
    BY <2>1, Zenon DEF ServingStatesSound, ReleasesSound
  <2>3. CatalogSound
    BY <1>3, <1>5, <2>1, <2>2, Zenon DEF CatalogSound
  <2>4. AdmissionSound
    BY <1>3, <1>4, <2>1, <2>2 DEF AdmissionSound
  <2> QED BY <1>2, <2>3, <2>4, Zenon DEF StoresInv
<1>7. CASE AdmittedInit
  <2>1. PICK f \in Functions, v \in Versions :
          /\ functions = [g \in {f} |->
                 [lifecycle |-> "Active", activeRoute |-> 0, revision |-> 1, updatedAt |-> 1]]
          /\ versions = [w \in {v} |->
                 [function |-> f, state |-> "Ready", revision |-> 3, updatedAt |-> 4,
                  fenced |-> FALSE]]
          /\ deployments = {v} /\ index = 4
    BY <1>7, Zenon DEF AdmittedInit
  <2>2. /\ DOMAIN functions = {f} /\ functions[f] \in FunctionRecord /\ functions[f].updatedAt = 1
        /\ functions[f].activeRoute = 0
    BY <2>1 DEF FunctionRecord, Lifecycles, Revisions
  <2>3. /\ DOMAIN versions = {v} /\ versions[v] \in VersionRecord /\ versions[v].updatedAt = 4
        /\ versions[v].state = "Ready" /\ versions[v].revision = 3 /\ versions[v].fenced = FALSE
    BY <2>1 DEF VersionRecord, Revisions
  <2>4. ServingStatesSound
    BY <1>3, <2>2, Zenon DEF ServingStatesSound
  <2>5. ReleasesSound
    BY <2>1, <2>3, Zenon DEF ReleasesSound
  <2>6. CatalogSound
    BY <1>3, <1>5, <2>1, <2>2, <2>4, SMTT(30) DEF CatalogSound
  <2>7. AdmissionSound
    BY <1>3, <1>4, <2>1, <2>3, <2>5 DEF AdmissionSound, Rank
  <2> QED BY <1>2, <2>6, <2>7, Zenon DEF StoresInv
<1> QED BY <1>1, <1>6, <1>7, Zenon

\* A step that leaves the placements, the Functions and the Routes alone, and
\* moves Versions forward.
LEMMA AdmissionOnly ==
  ASSUME StoresInv, AdmissionSound', VersionsForward, TargetsKept, DOMAIN versions' = DOMAIN versions,
         index' \in Nat, index <= index',
         UNCHANGED <<functions, routes, op, assignments, activeCounts, place>>
  PROVE  StoresInv' /\ VersionsForward /\ FunctionsForward
<1>1. index \in Nat
  BY Zenon DEF StoresInv, CatalogSound
<1>2. CatalogSound'
  BY CatalogFrame, Zenon DEF StoresInv, TargetsKept
<1>3. PlacementSound'
  BY <1>1, PlacementFrame, Zenon DEF StoresInv
<1>4. FunctionsForward
  BY Zenon DEF FunctionsForward
<1> QED BY <1>2, <1>3, <1>4, Zenon DEF StoresInv

\* A step that only moves the pass.
LEMMA PlacementOnly ==
  ASSUME StoresInv, PlacementSound', index' \in Nat, index <= index',
         UNCHANGED <<functions, routes, op, versions, deployments, claims, driver, pending, processed>>
  PROVE  StoresInv' /\ VersionsForward /\ FunctionsForward
<1>1. index \in Nat
  BY Zenon DEF StoresInv, CatalogSound
<1>2. \A f, v : validateReadyTarget(f, v) => validateReadyTarget(f, v)'
  BY Zenon DEF validateReadyTarget
<1>3. CatalogSound'
  BY <1>2, CatalogFrame, Zenon DEF StoresInv
<1>4. AdmissionSound' /\ VersionsForward
  BY <1>1, AdmissionFrame, Zenon DEF StoresInv
<1>5. FunctionsForward
  BY Zenon DEF FunctionsForward
<1> QED BY <1>3, <1>4, <1>5, Zenon DEF StoresInv

\* A step that leaves the admissions and the placements alone.
LEMMA CatalogOnly ==
  ASSUME StoresInv, CatalogSound', FunctionsForward, index' \in Nat, index <= index',
         UNCHANGED <<versions, deployments, claims, driver, pending, processed,
                     assignments, activeCounts, place>>
  PROVE  StoresInv' /\ VersionsForward /\ FunctionsForward
<1>1. index \in Nat
  BY Zenon DEF StoresInv, CatalogSound
<1>2. AdmissionSound' /\ VersionsForward
  BY <1>1, AdmissionFrame, Zenon DEF StoresInv
<1>3. PlacementSound'
  BY <1>1, PlacementFrame, Zenon DEF StoresInv
<1> QED BY <1>2, <1>3, Zenon DEF StoresInv

\* Every step keeps the stores sound, and moves Versions and Functions forward.
LEMMA StoresStep ==
  ASSUME StoresInv, ControlPlaneNext PROVE StoresInv' /\ VersionsForward /\ FunctionsForward
<1> USE DEF stores, admission
<1>1. index \in Nat /\ index <= index /\ CatalogSound /\ AdmissionSound /\ PlacementSound
      /\ DOMAIN versions \subseteq Versions
  BY DEF StoresInv, CatalogSound, AdmissionSound
<1>2. UNCHANGED <<versions, deployments>> => TargetsKept /\ DOMAIN versions' = DOMAIN versions
  BY Zenon DEF TargetsKept, validateReadyTarget
<1>3. ASSUME Operation PROVE StoresInv' /\ VersionsForward /\ FunctionsForward
  <2>1. CatalogSound' /\ index' \in Nat /\ index <= index' /\ UNCHANGED <<stores, admission, place>>
    BY <1>1, <1>3, OperationStep, Zenon
  <2>2. FunctionsForward
    BY <2>1, Zenon DEF FunctionsForward
  <2> QED BY <2>1, <2>2, CatalogOnly, Zenon
<1>4. ASSUME ApplyCreateFunction PROVE StoresInv' /\ VersionsForward /\ FunctionsForward
  <2>1. CatalogSound' /\ FunctionsForward
    BY <1>1, <1>4, CreateFunctionStep, Zenon
  <2> QED BY <1>1, <1>4, <2>1, CatalogOnly, Zenon DEF ApplyCreateFunction
<1>5. ASSUME ApplySetLifecycle PROVE StoresInv' /\ VersionsForward /\ FunctionsForward
  <2>1. CatalogSound' /\ FunctionsForward
    BY <1>1, <1>5, SetLifecycleStep, Zenon
  <2> QED BY <1>1, <1>5, <2>1, CatalogOnly, Zenon DEF ApplySetLifecycle
<1>6. ASSUME ApplyPublishRoute PROVE StoresInv' /\ VersionsForward /\ FunctionsForward
  <2>1. CatalogSound' /\ FunctionsForward
    BY <1>1, <1>6, PublishRouteStep, Zenon
  <2> QED BY <1>1, <1>6, <2>1, CatalogOnly, Zenon DEF ApplyPublishRoute
<1>7. ASSUME ApplyCreateVersion PROVE StoresInv' /\ VersionsForward /\ FunctionsForward
  <2>1. CatalogSound' /\ AdmissionSound' /\ VersionsForward
    BY <1>1, <1>7, CreateVersionStep, Zenon
  <2>2. PlacementSound' /\ FunctionsForward
    BY <1>1, <1>7, PlacementFrame, Zenon DEF ApplyCreateVersion, FunctionsForward
  <2> QED BY <2>1, <2>2, Zenon DEF StoresInv
<1>8. ASSUME NEW v \in Versions, ClaimValidation(v)
      PROVE  StoresInv' /\ VersionsForward /\ FunctionsForward
  <2>1. AdmissionSound' /\ VersionsForward
    BY <1>1, <1>8, ClaimStep, Zenon
  <2> QED BY <1>1, <1>2, <1>8, <2>1, AdmissionOnly, Zenon DEF ClaimValidation
<1>9. ASSUME NEW v \in Versions, StartValidation(v)
      PROVE  StoresInv' /\ VersionsForward /\ FunctionsForward
  <2>1. AdmissionSound' /\ VersionsForward /\ TargetsKept /\ DOMAIN versions' = DOMAIN versions
    BY <1>1, <1>9, StartStep, Zenon
  <2> QED BY <1>1, <1>9, <2>1, AdmissionOnly, Zenon DEF StartValidation
<1>10. ASSUME NEW d \in Drivers, ValidatorFails(d)
       PROVE  StoresInv' /\ VersionsForward /\ FunctionsForward
  <2>1. AdmissionSound' /\ VersionsForward
    BY <1>1, <1>10, FailsStep, Zenon
  <2> QED BY <1>1, <1>2, <1>10, <2>1, AdmissionOnly, Zenon DEF ValidatorFails
<1>11. ASSUME NEW d \in Drivers, NEW valid \in BOOLEAN, ValidatorReports(d, valid)
       PROVE  StoresInv' /\ VersionsForward /\ FunctionsForward
  <2>1. AdmissionSound' /\ VersionsForward
    BY <1>1, <1>11, ReportsStep, Zenon
  <2>2. index' \in Nat /\ index <= index'
    BY <1>1, <1>11 DEF ValidatorReports
  <2> QED BY <1>2, <1>11, <2>1, <2>2, AdmissionOnly, Zenon DEF ValidatorReports
<1>12. ASSUME NEW d \in Drivers, CompleteValidation(d)
       PROVE  StoresInv' /\ VersionsForward /\ FunctionsForward
  <2>1. AdmissionSound' /\ VersionsForward /\ TargetsKept /\ DOMAIN versions' = DOMAIN versions
    BY <1>1, <1>12, CompleteStep, Zenon
  <2> QED BY <1>1, <1>12, <2>1, AdmissionOnly, Zenon DEF CompleteValidation
<1>13. ASSUME ResumeSnapshot PROVE StoresInv' /\ VersionsForward /\ FunctionsForward
  <2>1. AdmissionSound' /\ VersionsForward
    BY <1>1, <1>13, SnapshotStep, Zenon
  <2> QED BY <1>1, <1>2, <1>13, <2>1, AdmissionOnly, Zenon DEF ResumeSnapshot
<1>14. ASSUME ResumeNext PROVE StoresInv' /\ VersionsForward /\ FunctionsForward
  <2>1. AdmissionSound' /\ VersionsForward
    BY <1>1, <1>14, NextStep, Zenon
  <2> QED BY <1>1, <1>2, <1>14, <2>1, AdmissionOnly, Zenon DEF ResumeNext
<1>15. ASSUME ResumeLoad PROVE StoresInv' /\ VersionsForward /\ FunctionsForward
  <2>1. AdmissionSound' /\ VersionsForward
    BY <1>1, <1>15, LoadStep, Zenon
  <2> QED BY <1>1, <1>2, <1>15, <2>1, AdmissionOnly, Zenon DEF ResumeLoad
<1>16. ASSUME ListServingStates PROVE StoresInv' /\ VersionsForward /\ FunctionsForward
  BY <1>1, <1>16, ListTargetsStep, PlacementOnly, Zenon DEF ListServingStates
<1>17. ASSUME ListAssignments PROVE StoresInv' /\ VersionsForward /\ FunctionsForward
  BY <1>1, <1>17, ListAssignmentsStep, PlacementOnly, Zenon DEF ListAssignments
<1>18. ASSUME Cancel PROVE StoresInv' /\ VersionsForward /\ FunctionsForward
  BY <1>1, <1>18, CancelStep, PlacementOnly, Zenon DEF Cancel
<1>19. ASSUME Install PROVE StoresInv' /\ VersionsForward /\ FunctionsForward
  BY <1>1, <1>19, InstallStep, PlacementOnly, Zenon DEF Install
<1>20. ASSUME EndPass PROVE StoresInv' /\ VersionsForward /\ FunctionsForward
  BY <1>1, <1>20, EndPassStep, PlacementOnly, Zenon DEF EndPass
<1>21. ASSUME NEW f \in Functions, Skip(f) PROVE StoresInv' /\ VersionsForward /\ FunctionsForward
  BY <1>1, <1>21, SkipStep, PlacementOnly, Zenon DEF Skip
<1>22. ASSUME NEW f \in Functions, ReserveCancel(f)
       PROVE  StoresInv' /\ VersionsForward /\ FunctionsForward
  <2>1. PlacementSound' /\ index' \in Nat /\ index <= index'
    BY <1>1, <1>22, ReserveCancelStep, Zenon
  <2> QED BY <1>22, <2>1, PlacementOnly, Zenon DEF ReserveCancel
<1>23. ASSUME NEW f \in Functions, ReserveCommit(f)
       PROVE  StoresInv' /\ VersionsForward /\ FunctionsForward
  <2>1. PlacementSound' /\ index' \in Nat /\ index <= index'
    BY <1>1, <1>23, ReserveCommitStep, Zenon
  <2> QED BY <1>23, <2>1, PlacementOnly, Zenon DEF ReserveCommit
<1>24. ASSUME Apply PROVE StoresInv' /\ VersionsForward /\ FunctionsForward
  BY <1>4, <1>5, <1>6, <1>7, <1>24, Zenon DEF Apply
<1>25. ASSUME ResumeLoop PROVE StoresInv' /\ VersionsForward /\ FunctionsForward
  BY <1>13, <1>14, <1>15, <1>25, Zenon DEF ResumeLoop
<1>26. ASSUME Place PROVE StoresInv' /\ VersionsForward /\ FunctionsForward
  BY <1>16, <1>17, <1>18, <1>19, <1>20, <1>21, <1>22, <1>23, <1>26, Zenon DEF Place
<1>27. ASSUME NEW v \in Versions, Drive(v) PROVE StoresInv' /\ VersionsForward /\ FunctionsForward
  BY <1>8, <1>9, <1>27, Zenon DEF Drive
<1>28. ASSUME NEW d \in Drivers, Validator(d) PROVE StoresInv' /\ VersionsForward /\ FunctionsForward
  BY <1>10, <1>11, <1>28, Zenon DEF Validator
<1> QED BY <1>3, <1>12, <1>24, <1>25, <1>26, <1>27, <1>28, Zenon DEF ControlPlaneNext

\* The inductive invariant holds of every reachable state.
LEMMA StoresAlways == ControlPlaneSpec => []StoresInv
<1>1. ControlPlaneInit => StoresInv BY StoresStart, Zenon
<1>2. StoresInv /\ [ControlPlaneNext]_controlPlaneVars => StoresInv'
  <2> SUFFICES ASSUME StoresInv, [ControlPlaneNext]_controlPlaneVars PROVE StoresInv'
    BY Zenon
  <2>1. CASE ControlPlaneNext BY <2>1, StoresStep, Zenon
  <2>2. CASE UNCHANGED controlPlaneVars
    <3>1. /\ UNCHANGED <<functions, routes, op, versions, deployments, claims, driver, pending, processed>>
          /\ UNCHANGED <<assignments, activeCounts, place>> /\ index' = index
      BY <2>2, Zenon DEF controlPlaneVars
    <3>2. index' \in Nat /\ index <= index' /\ index \in Nat
      BY <3>1 DEF StoresInv, CatalogSound
    <3>3. PlacementSound'
      BY <3>1, <3>2, PlacementFrame, Zenon DEF StoresInv
    <3> QED BY <3>1, <3>2, <3>3, PlacementOnly, Zenon
  <2> QED BY <2>1, <2>2, Zenon
<1> QED BY <1>1, <1>2, PTL DEF ControlPlaneSpec

\* The count of a target's placements is the number of its records.
LEMMA CountsAre ==
  ASSUME PlacementSound PROVE OneLivePlacement /\ CountsAgree
<1>1. OneLivePlacement
  BY Zenon DEF PlacementSound, OneAssigned, OneLivePlacement
<1>2. ASSUME NEW f \in Functions, NEW v \in Versions
      PROVE  /\ activeCounts[<<f, v>>] = IF \E a \in Assigned(f) : assignments[a].version = v THEN 1 ELSE 0
             /\ activeCounts[<<f, v>>] <= 1
  BY DEF PlacementSound, Placed
<1>3. CountsAgree
  BY <1>2, Zenon DEF CountsAgree, DesiredReplicas
<1> QED BY <1>1, <1>3, Zenon

\* What a reader of the stores relies on follows from the invariant.
LEMMA InvAgrees ==
  ASSUME StoresInv PROVE StoresAgree
<1>1. CatalogSound /\ AdmissionSound /\ PlacementSound /\ index \in Nat
  BY Zenon DEF StoresInv, CatalogSound
<1>2. \A f \in DOMAIN functions : functions[f] \in
          [lifecycle : {"Active", "Disabled"}, activeRoute : Nat, revision : Nat \ {0},
           updatedAt : 1..index]
  <2>1. \A x \in FunctionRecord : x.updatedAt <= index =>
           x \in [lifecycle : {"Active", "Disabled"}, activeRoute : Nat, revision : Nat \ {0},
                  updatedAt : 1..index]
    BY <1>1 DEF FunctionRecord, Lifecycles, Revisions
  <2> QED BY <1>1, <2>1, Zenon DEF CatalogSound
<1>3. \A v \in DOMAIN versions : versions[v] \in
          [function : Functions, state : {"Uploaded", "Validating", "Ready", "Failed"},
           revision : 1..3, updatedAt : 1..index, fenced : BOOLEAN]
  <2>1. \A x \in VersionRecord : x.updatedAt <= index /\ x.revision = Rank[x.state] + 1 =>
           x \in [function : Functions, state : {"Uploaded", "Validating", "Ready", "Failed"},
                  revision : 1..3, updatedAt : 1..index, fenced : BOOLEAN]
    <3> TAKE x \in VersionRecord
    <3> HAVE x.updatedAt <= index /\ x.revision = Rank[x.state] + 1
    <3>1. x.revision \in 1..3
      BY DEF VersionRecord, Rank
    <3>2. x.updatedAt \in 1..index
      BY <1>1 DEF VersionRecord, Revisions
    <3> QED BY <3>1, <3>2, Zenon DEF VersionRecord
  <2> QED BY <1>1, <2>1, Zenon DEF AdmissionSound
<1>4. \A f \in DOMAIN routes : routes[f] \in
          [revision : Nat \ {0}, version : Versions, index : 1..index]
  <2>1. \A x \in RouteRecord : x.index <= index =>
           x \in [revision : Nat \ {0}, version : Versions, index : 1..index]
    BY <1>1 DEF RouteRecord, Revisions
  <2> QED BY <1>1, <2>1, Zenon DEF CatalogSound
<1>5. \A a \in DOMAIN assignments : assignments[a] \in
          [function : Functions, version : Versions, state : {"Assigned", "Cancelled"},
           revision : 1..2, lastIndex : 1..index]
  <2>1. \A x \in AssignmentRecord :
           x.lastIndex <= index /\ x.revision = (IF x.state = "Assigned" THEN 1 ELSE 2) =>
           x \in [function : Functions, version : Versions, state : {"Assigned", "Cancelled"},
                  revision : 1..2, lastIndex : 1..index]
    <3> TAKE x \in AssignmentRecord
    <3> HAVE x.lastIndex <= index /\ x.revision = (IF x.state = "Assigned" THEN 1 ELSE 2)
    <3>1. x.revision \in 1..2
      OBVIOUS
    <3>2. x.lastIndex \in 1..index
      BY <1>1 DEF AssignmentRecord, Revisions
    <3> QED BY <3>1, <3>2, Zenon DEF AssignmentRecord
  <2>2. assignments \in Seq(AssignmentRecord)
    BY <1>1, Zenon DEF PlacementSound
  <2>3. \A a \in DOMAIN assignments : assignments[a] \in AssignmentRecord
    BY <2>2
  <2> QED BY <1>1, <2>1, <2>3, Zenon DEF PlacementSound
<1>6. ControlPlaneTypeOK
  BY <1>1, <1>2, <1>3, <1>4, <1>5, Zenon
  DEF ControlPlaneTypeOK, CatalogSound, AdmissionSound, PlacementSound
<1>7. VerdictFits
  <2>1. ASSUME NEW d \in Drivers, driver[d].at = "reported"
        PROVE  /\ versions[driver[d].version].state = "Validating"
               /\ versions[driver[d].version].revision = driver[d].revision
               /\ driver[d].index > versions[driver[d].version].updatedAt
    <3>1. PICK s : s = driver[d] BY Zenon
    <3>2. DriverSound(d, s)
      BY <1>1, <3>1, Zenon DEF AdmissionSound
    <3>3. /\ s \in Reporting /\ s.version \in DOMAIN versions
          /\ versions[s.version].state = "Validating" /\ versions[s.version].revision = s.revision
          /\ versions[s.version].updatedAt < s.index
      BY <2>1, <3>1, <3>2, DriverPhases, ZenonT(40)
    <3>4. versions[s.version] \in VersionRecord
      BY <1>1, <3>3, Zenon DEF AdmissionSound
    <3>5. s.index > versions[s.version].updatedAt
      BY <3>3, <3>4, Zenon DEF Reporting, VersionRecord, Revisions
    <3> QED BY <3>1, <3>3, <3>5, Zenon
  <2> QED BY <2>1, Zenon DEF VerdictFits
<1> QED BY <1>1, <1>6, <1>7, CountsAre, Zenon DEF StoresAgree, CatalogSound, AdmissionSound

\* The four stores always agree, for any number of Functions, Versions and
\* operations: Routes point at Ready Versions of their Function, a Version has a
\* Deployment exactly when it is Ready, no two goroutines admit one Version, no
\* verdict is thrown away, and no Function has two live placements (Catalog,
\* ReleaseStore, RouteStore, AssignmentStore).
THEOREM StoresAlwaysAgree == ControlPlaneSpec => []StoresAgree
<1>1. StoresInv => StoresAgree BY InvAgrees, Zenon
<1> QED BY <1>1, StoresAlways, PTL

\* Versions and Functions only move forward, one revision with each change and in
\* the order their commands were reserved (ReleaseStore, Catalog, Publish).
THEOREM StoresAlwaysMoveForward == ControlPlaneSpec => StoresMoveForward
<1>1. StoresInv /\ [ControlPlaneNext]_controlPlaneVars =>
        [VersionsForward /\ FunctionsForward]_controlPlaneVars
  <2> SUFFICES ASSUME StoresInv, ControlPlaneNext PROVE VersionsForward /\ FunctionsForward
    BY Zenon
  <2> QED BY StoresStep, Zenon
<1>2. ControlPlaneSpec => [][VersionsForward /\ FunctionsForward]_controlPlaneVars
  BY <1>1, StoresAlways, PTL DEF ControlPlaneSpec
<1> QED BY <1>2, PTL DEF StoresMoveForward, VersionsForward, FunctionsForward
=============================================================================
