---------------------------- MODULE AgentSandbox ------------------------------
(***************************************************************************)
(* One task on one container: r2e_task.py (RaySafeDockerSandbox and        *)
(* R2EGymTask.run), with the same frame in swe_bench_task.py and           *)
(* deepswe_task.py, and the command part of codex_agent.py.                *)
(*                                                                         *)
(* The task is one asyncio coroutine.  Every podman client runs in a       *)
(* worker thread that no cancellation can stop, and the command it started *)
(* is a process of its own inside the container.  The task is cancelled by *)
(* asyncio.wait_for(agent.run, agent_timeout), and from outside.           *)
(***************************************************************************)
EXTENDS Integers

CONSTANTS
  Agents,          \* which agents the task may run: "react", "codex"
  MaxCommands,     \* agent.max_steps: commands a ReAct agent issues
  MaxExpirations   \* bound: client calls the container runtime never answers

ASSUME SandboxAssumption ==
  /\ Agents \subseteq {"react", "codex"} /\ Agents # {}
  /\ MaxCommands \in Nat \ {0} /\ MaxExpirations \in Nat

VARIABLES
  agent,       \* the agent of this task, fixed
  pc,          \* the part of the task that runs
  wait,        \* what its coroutine awaits in the sandbox
  call,        \* the podman client of the current _exec
  process,     \* the agent's command inside the container
  container,
  named,       \* sandbox._container_name is set
  removing,    \* an `rm -f` is under way
  cancelled,   \* who has cancelled the task so far
  raising,     \* CancelledError is on its way through the Codex finally clause
  commands, expirations

vars == <<agent, pc, wait, call, process, container, named, removing,
          cancelled, raising, commands, expirations>>

\* The Codex CLI: one long command, then a cleanup.
Codex == agent = "codex"

\* Commands of the shell tool carry a timeout into the container; the command
\* that launches Codex is called without one.  So are set-up and cleanup.
Timed == pc # "agent" \/ ~ Codex

-------------------------------------------------------------------------------
(* RaySafeDockerSandbox.  An operator marked "Fault" is a plausible bug in the
   definition that follows it; no specification here uses it. *)

\* stop: the name is taken before the await, so one caller removes.
Stop ==
  IF named
    THEN named' = FALSE /\ removing' = TRUE
    ELSE UNCHANGED <<named, removing>>

\* `rm -f --time 0` ends: the container is gone, and every process in it.
Removed ==
  /\ removing
  /\ removing' = FALSE
  /\ container' = "removed"
  /\ process' = IF process = "running" THEN "over" ELSE process
  /\ UNCHANGED <<agent, pc, wait, call, named, cancelled, raising, commands, expirations>>

\* start: `podman run -d` has ended.
Started ==
  /\ pc = "start"
  /\ \/ container' = "up" /\ named' = TRUE /\ pc' = "agent"
     \/ pc' = "ended" /\ UNCHANGED <<container, named>>
  /\ UNCHANGED <<agent, wait, call, process, removing, cancelled, raising, commands,
                 expirations>>

\* The client of a cancelled start goes on, and nobody knows the container.
StartedUnnoticed ==
  /\ pc = "ended" /\ wait = "run"
  /\ container' = "up" /\ wait' = "none"
  /\ UNCHANGED <<agent, pc, call, process, named, removing, cancelled, raising, commands,
                 expirations>>

\* _exec creates the client task and awaits it behind asyncio.shield.
Exec ==
  /\ wait = "none" /\ named
  /\ wait' = "shield" /\ call' = "running"

\* The command ends by itself ...
ProcessEnds ==
  /\ process = "running"
  /\ process' = "over"
  /\ UNCHANGED <<agent, pc, wait, call, container, named, removing, cancelled, raising,
                 commands, expirations>>

\* Fault: the timeout ends the podman client only.
ClientTimeoutOnly == FALSE

\* `timeout --signal=KILL` runs inside the container, next to the command.
InContainerTimeout == process = "running" /\ ~ Codex

\* ... or is killed with its process group.
ProcessKilled == InContainerTimeout /\ ProcessEnds

\* The client returns once the command is over.  It can only run into its own
\* timeout (15 s later than the command's) when the runtime does not answer.
CallEnds ==
  /\ call = "running"
  /\ pc = "agent" => process # "running"
  /\ \/ call' = "returned" /\ UNCHANGED expirations
     \/ /\ Timed /\ expirations < MaxExpirations
        /\ call' = "expired" /\ expirations' = expirations + 1
  /\ UNCHANGED <<agent, pc, wait, process, container, named, removing, cancelled, raising,
                 commands>>

\* TimeoutError, also out of the drain: remove the sandbox before raising.
ClientTimedOut ==
  /\ wait \in {"shield", "drain"} /\ call = "expired"
  /\ wait' = "remove" /\ call' = "none"
  /\ Stop
  /\ UNCHANGED <<agent, pc, process, container, cancelled, raising, commands, expirations>>

-------------------------------------------------------------------------------
(* The task around it. *)

\* What follows agent.run once CancelledError leaves it: wait_for turns its own
\* cancellation into TimeoutError, which is logged; any other ends the task.
AfterCancelledAgent(who) == IF "outer" \in who THEN "leave" ELSE "collect"

\* A CancelledError is raised in the part that runs, which stops awaiting.
RaiseCancelled(who) ==
  /\ wait' = "none" /\ call' = "none"
  /\ \/ /\ pc = "agent" /\ Codex /\ commands > 0
        /\ pc' = "cleanup" /\ raising' = TRUE
     \/ /\ pc = "cleanup" \/ (pc = "agent" /\ ~ (Codex /\ commands > 0))
        /\ pc' = AfterCancelledAgent(who) /\ raising' = FALSE
     \/ /\ pc \in {"collect", "leave"}
        /\ pc' = "leave" /\ UNCHANGED raising

AgentCommand ==
  /\ pc = "agent" /\ Exec
  /\ commands < (IF Codex THEN 1 ELSE MaxCommands)
  /\ commands' = commands + 1
  /\ process' = "running"
  /\ UNCHANGED <<agent, pc, container, named, removing, cancelled, raising, expirations>>

\* A tool call on a removed sandbox fails; the agent may go on or give up.
AgentCommandFails ==
  /\ pc = "agent" /\ wait = "none" /\ ~ named
  /\ commands < MaxCommands
  /\ commands' = commands + 1
  /\ UNCHANGED <<agent, pc, wait, call, process, container, named, removing, cancelled,
                 raising, expirations>>

AgentEnds ==
  /\ pc = "agent" /\ wait = "none"
  /\ pc' = IF Codex /\ commands > 0 THEN "cleanup" ELSE "collect"
  /\ UNCHANGED <<agent, wait, call, process, container, named, removing, cancelled, raising,
                 commands, expirations>>

\* The Codex finally clause and the patch collection or test run after it.
HostCommand ==
  /\ pc \in {"cleanup", "collect"} /\ Exec
  /\ UNCHANGED <<agent, pc, process, container, named, removing, cancelled, raising,
                 commands, expirations>>

\* What comes after the command of a part, whether it returned or raised.
Continue ==
  CASE pc = "agent"   -> pc' = pc /\ UNCHANGED raising
    [] pc = "cleanup" -> /\ pc' = IF raising THEN AfterCancelledAgent(cancelled) ELSE "collect"
                         /\ raising' = FALSE
    [] pc = "collect" -> pc' = "leave" /\ UNCHANGED raising

ExecReturns ==
  /\ wait = "shield" /\ call = "returned"
  /\ wait' = "none" /\ call' = "none"
  /\ process' = IF pc = "cleanup" /\ process = "running" THEN "over" ELSE process
  /\ Continue
  /\ UNCHANGED <<agent, container, named, removing, cancelled, commands, expirations>>

\* TimeoutError leaves _exec: a tool error, a logged one, or the end.
ExecTimesOut ==
  /\ wait = "remove" /\ ~ removing
  /\ wait' = "none"
  /\ Continue
  /\ UNCHANGED <<agent, call, process, container, named, removing, cancelled, commands,
                 expirations>>

\* Without a container the host commands raise as well.
HostCommandFails ==
  /\ pc \in {"cleanup", "collect"} /\ wait = "none" /\ ~ named
  /\ Continue
  /\ UNCHANGED <<agent, wait, call, process, container, named, removing, cancelled,
                 commands, expirations>>

\* Fault: a cancelled command deletes the sandbox.
DrainedAndStopped == Stop

\* The cancelled command has ended: the sandbox stays, for the patch.
Drained == UNCHANGED <<named, removing>>

ExecDrained ==
  /\ wait = "drain" /\ call = "returned"
  /\ RaiseCancelled(cancelled)
  /\ Drained
  /\ UNCHANGED <<agent, process, container, cancelled, commands, expirations>>

\* Fault: no shield, so the first cancellation raises at once ...
NoShield(who) == RaiseCancelled(who)

\* The first cancellation of a command only starts to wait for its end.
CancelShielded(who) == wait' = "drain" /\ UNCHANGED <<pc, call, raising>>

\* task.cancel() reaches the coroutine at whatever it awaits (an agent outside
\* _exec awaits its model).
Cancelled(by) ==
  /\ by \notin cancelled
  /\ cancelled' = cancelled \cup {by}
  /\ \/ wait = "shield" /\ CancelShielded(cancelled')
     \/ wait \in {"drain", "remove"} /\ RaiseCancelled(cancelled')
     \/ wait = "none" /\ pc = "agent" /\ RaiseCancelled(cancelled')
     \/ /\ pc = "start"
        /\ pc' = "ended" /\ wait' = "run" /\ UNCHANGED <<call, raising>>
  /\ UNCHANGED <<agent, process, container, named, removing, commands, expirations>>

AgentTimeout == pc \in {"agent", "cleanup"} /\ Cancelled("deadline")

OuterCancel == pc \notin {"leave", "ended"} /\ Cancelled("outer")

\* Fault: the sandbox is stopped on the normal path only.
LeaveWhenCancelled ==
  IF cancelled = {} THEN Stop ELSE UNCHANGED <<named, removing>>

\* __aexit__ of `async with self.build_sandbox()`.
Leave == Stop

TaskEnds ==
  /\ pc = "leave"
  /\ Leave
  /\ pc' = "ended"
  /\ UNCHANGED <<agent, wait, call, process, container, cancelled, raising, commands, expirations>>

-------------------------------------------------------------------------------
Init ==
  /\ agent \in Agents
  /\ pc = "start" /\ wait = "none" /\ call = "none"
  /\ process = "none" /\ container = "none"
  /\ named = FALSE /\ removing = FALSE
  /\ cancelled = {} /\ raising = FALSE
  /\ commands = 0 /\ expirations = 0

Coroutine ==
  \/ Started \/ AgentCommand \/ AgentCommandFails \/ AgentEnds \/ HostCommand
  \/ HostCommandFails \/ ExecReturns \/ ExecTimesOut \/ ExecDrained
  \/ ClientTimedOut \/ TaskEnds

Runtime == Removed \/ StartedUnnoticed \/ CallEnds

Next == Coroutine \/ Runtime \/ ProcessEnds \/ ProcessKilled \/ AgentTimeout \/ OuterCancel

Spec == Init /\ [][Next]_vars

\* The event loop runs; the runtime answers or a client timeout ends the wait;
\* the in-container timeout fires.  A command need not end by itself.
Fairness ==
  /\ WF_vars(Coroutine)
  /\ WF_vars(Removed) /\ WF_vars(CallEnds) /\ WF_vars(ProcessKilled)
  /\ WF_vars(AgentTimeout)

FairSpec == Spec /\ Fairness

-------------------------------------------------------------------------------
(* Properties. *)

\* While the patch is collected, or the tests run, no command of the agent is
\* alive in the container, whichever await the timeout of the agent hit
\* ("Let it finish before patch collection", r2e_task.py:116).
SnapshotIsQuiet == pc = "collect" /\ container = "up" => process # "running"

\* As long as the runtime answers, the agent's work survives its timeout: the
\* sandbox is there when the patch is collected (r2e_task.py:116-117).
TimeoutKeepsSandbox == pc = "collect" /\ expirations = 0 => named /\ container = "up"

\* A container the task knows is removed on every path, and the task ends,
\* provided the command of the agent does not run for ever: only Codex's can.
KnownContainerIsRemoved ==
  []<>(process # "running") => (named ~> (container = "removed" /\ pc = "ended"))

\* agent_timeout is a limit: soon after it has fired the agent has left.
AgentTimeoutIsEnforced == "deadline" \in cancelled ~> pc \notin {"agent", "cleanup"}

\* For an agent whose commands carry their own timeout the drain is bounded
\* ("The in-container timeout bounds tool execution", r2e_task.py:116).
ToolAgentTimeoutIsEnforced ==
  "deadline" \in cancelled /\ ~ Codex ~> pc \notin {"agent", "cleanup"}

===============================================================================
