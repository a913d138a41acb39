----------------------------- MODULE Subagents ------------------------------
(***************************************************************************)
(* core/subagent/tool.py and registry.py under the retry loop of           *)
(* core/tools/invocation.py: the agents that one run starts, and the ones  *)
(* these start.                                                            *)
(*                                                                         *)
(* An agent is its loop (module AgentLoop), seen from the calls of         *)
(* spawn_agent and agent_result: it is "thinking" between them.  A         *)
(* foreground agent runs inside its caller's tool call, hence within the   *)
(* 120 seconds of that call and within its caller's task; a background     *)
(* agent has a task of its own, which nothing but the registry knows.  A   *)
(* child that fails, or cannot be started, is a failed attempt:            *)
(* invoke_tool starts another child.  Runs do not share their registries,  *)
(* so the model is of one run.                                             *)
(***************************************************************************)
EXTENDS Naturals, FiniteSetsExt

CONSTANTS
    MaxAgents,   \* bound: agents started in a run
    Attempts     \* how often invoke_tool invokes a tool that fails

ASSUME SubagentAssumption == MaxAgents \in Nat /\ Attempts \in Nat \ {0}

Root == 0                   \* the run itself
Agents == 1..MaxAgents      \* in the order of their run ids
All == 0..MaxAgents

VARIABLES
    pc,          \* agent -> where it is
    mode,        \* agent -> how it was started
    parent,      \* agent -> its _parent_run_id
    status,      \* agent -> context.status
    child,       \* agent -> the child of its present call
    attempt,     \* agent -> the attempt of its present call
    next,        \* agents so far
    registry,    \* _tasks
    finished,    \* history: agents whose end was published
    told         \* history: agents that agent_result reported as over

vars == <<pc, mode, parent, status, child, attempt, next, registry, finished, told>>

Live == {"announced", "thinking", "calling", "backoff", "finishing"}
Gone == {"over", "cancelled", "broken"}

TypeOK ==
    /\ pc \in [All -> {"unborn"} \cup Live \cup Gone]
    /\ mode \in [All -> {"none", "foreground", "background"}]
    /\ parent \in [All -> All]
    /\ status \in [All -> {"running", "success", "failed"}]
    /\ child \in [All -> All]
    /\ attempt \in [All -> 1..Attempts]
    /\ next \in All
    /\ registry \subseteq Agents
    /\ finished \subseteq All
    /\ told \subseteq Agents

Init ==
    /\ pc = [a \in All |-> IF a = Root THEN "thinking" ELSE "unborn"]
    /\ mode = [a \in All |-> "none"]
    /\ parent = [a \in All |-> Root]
    /\ status = [a \in All |-> "running"]
    /\ child = [a \in All |-> Root]
    /\ attempt = [a \in All |-> 1]
    /\ next = 0
    /\ registry = {}
    /\ finished = {}
    /\ told = {}

-----------------------------------------------------------------------------
\* Only the run and its children get the tools of this module: an agent at depth 2
\* starts no others.
HasAgentTools(a) == a = Root \/ parent[a] = Root

\* Bound: every call that has begun can make all of its attempts.
Room ==
    next + Attempts + MapThenSumSet(LAMBDA a : Attempts - attempt[a],
                                    {a \in All : pc[a] \in {"calling", "backoff"}})
      <= MaxAgents

\* An attempt of invoke: a new run id, and the publication of SubagentStarted begins.
Announce(a, how) ==
    LET c == next + 1 IN
    /\ c \in Agents                     \* bound; there is Room
    /\ next' = c
    /\ pc' = [pc EXCEPT ![a] = "calling", ![c] = "announced"]
    /\ mode' = [mode EXCEPT ![c] = how]
    /\ parent' = [parent EXCEPT ![c] = a]
    /\ child' = [child EXCEPT ![a] = c]
    /\ UNCHANGED <<status, registry, finished, told>>

Spawn(a, how) ==
    /\ pc[a] = "thinking"
    /\ HasAgentTools(a)
    /\ Room
    /\ UNCHANGED attempt
    /\ Announce(a, how)

\* After the pause that follows a failed attempt.
Retry(a) ==
    /\ pc[a] = "backoff"
    /\ attempt' = [attempt EXCEPT ![a] = @ + 1]
    /\ Announce(a, mode[child[a]])

Waits(a, c) == pc[a] = "calling" /\ child[a] = c

\* Fault: one attempt too many.
AfterFailureOnceMore(a) == IF attempt[a] <= Attempts THEN "backoff" ELSE "thinking"

\* What becomes of the caller when an attempt ends in an error.
AfterFailure(a) == IF attempt[a] < Attempts THEN "backoff" ELSE "thinking"

\* A call that is over has no child and no attempts.
Forget(a) ==
    /\ child' = [child EXCEPT ![a] = IF pc'[a] = "backoff" THEN @ ELSE Root]
    /\ attempt' = [attempt EXCEPT ![a] = IF pc'[a] = "backoff" THEN @ ELSE 1]

\* SubagentStarted is out; the call goes on in the child's loop.
StartForeground(a) ==
    LET c == child[a] IN
    /\ pc[a] = "calling" /\ pc[c] = "announced"
    /\ mode[c] = "foreground"
    /\ pc' = [pc EXCEPT ![c] = "thinking"]
    /\ UNCHANGED <<mode, parent, status, child, attempt, next, registry, finished, told>>

\* The task is created and registered in one step, and the call returns. The task
\* ends at once when its events file cannot be opened.
StartBackground(a) ==
    LET c == child[a] IN
    /\ pc[a] = "calling" /\ pc[c] = "announced"
    /\ mode[c] = "background"
    /\ \E first \in {"thinking", "broken"} :
          pc' = [pc EXCEPT ![a] = "thinking", ![c] = first]
    /\ registry' = registry \cup {c}
    /\ Forget(a)
    /\ UNCHANGED <<mode, parent, status, next, finished, told>>

\* The child's directory, or a foreground child's events file, cannot be made.
StartFails(a) ==
    LET c == child[a] IN
    /\ pc[a] = "calling" /\ pc[c] = "announced"
    /\ pc' = [pc EXCEPT ![a] = AfterFailure(a), ![c] = "broken"]
    /\ Forget(a)
    /\ UNCHANGED <<mode, parent, status, next, registry, finished, told>>

\* The loop ends by itself; the publication of the end begins.
LoopEnds(a, how) ==
    /\ pc[a] = "thinking"
    /\ status' = [status EXCEPT ![a] = how]
    /\ pc' = [pc EXCEPT ![a] = "finishing"]
    /\ UNCHANGED <<mode, parent, child, attempt, next, registry, finished, told>>

\* The end is out. A foreground child's caller goes on in the same step.
Finish(a) ==
    /\ pc[a] = "finishing"
    /\ finished' = finished \cup {a}
    /\ pc' = IF mode[a] # "foreground" THEN [pc EXCEPT ![a] = "over"]
             ELSE [pc EXCEPT ![a] = "over",
                             ![parent[a]] = IF status[a] = "success" THEN "thinking"
                                            ELSE AfterFailure(parent[a])]
    /\ IF mode[a] = "foreground" THEN Forget(parent[a]) ELSE UNCHANGED <<child, attempt>>
    /\ UNCHANGED <<mode, parent, status, next, registry, told>>

\* Fault: only the child of the call is stopped, and not the one it waits for.
BelowOne(a) == {c \in Agents : Waits(a, c)}

\* The agents that run inside a's tool call.
Below(a) ==
    {c \in Agents : Waits(a, c) \/ \E b \in Agents : Waits(a, b) /\ Waits(b, c)}

\* Fault: the agent, not its task, decides whether there is a result.
AgentResultEarly(a, b) ==
    /\ pc[a] = "thinking"
    /\ HasAgentTools(a)
    /\ b \in registry
    /\ told' = IF status[b] = "running" /\ pc[b] # "broken" THEN told ELSE told \cup {b}
    /\ UNCHANGED <<pc, mode, parent, status, child, attempt, next, registry, finished>>

\* agent_result: unknown ids get an error; else the task says whether it is over.
AgentResult(a, b) ==
    /\ pc[a] = "thinking"
    /\ HasAgentTools(a)
    /\ b \in registry
    /\ told' = IF pc[b] \in Live THEN told ELSE told \cup {b}
    /\ UNCHANGED <<pc, mode, parent, status, child, attempt, next, registry, finished>>

\* Fault: the timer covers the start of the child only.
ToolTimeoutEarly(a) ==
    /\ pc[a] = "calling"
    /\ mode[a] # "foreground"
    /\ pc[child[a]] = "announced"
    /\ pc' = [b \in All |-> IF b = a THEN "thinking"
                            ELSE IF b \in Below(a) THEN "cancelled" ELSE pc[b]]
    /\ Forget(a)
    /\ UNCHANGED <<mode, parent, status, next, registry, finished, told>>

\* The call's 120 seconds are over: everything that runs inside it is cancelled, and
\* the call is not tried again. Calls inside of it began later and have as long.
ToolTimeout(a) ==
    /\ pc[a] = "calling"
    /\ mode[a] # "foreground"
    /\ pc' = [b \in All |-> IF b = a THEN "thinking"
                            ELSE IF b \in Below(a) THEN "cancelled" ELSE pc[b]]
    /\ Forget(a)
    /\ UNCHANGED <<mode, parent, status, next, registry, finished, told>>

\* The run's task is cancelled: not so the tasks in the registry.
CancelRun ==
    /\ pc[Root] \in {"thinking", "calling", "backoff"}
    /\ pc' = [b \in All |-> IF b \in {Root} \cup Below(Root) THEN "cancelled" ELSE pc[b]]
    /\ UNCHANGED <<mode, parent, status, child, attempt, next, registry, finished, told>>

-----------------------------------------------------------------------------
Start(a) == StartForeground(a) \/ StartBackground(a) \/ StartFails(a)

Next ==
    \/ \E a \in All, how \in {"foreground", "background"} : Spawn(a, how)
    \/ \E a \in All : Retry(a) \/ Start(a) \/ Finish(a) \/ ToolTimeout(a)
    \/ \E a \in All, how \in {"success", "failed"} : LoopEnds(a, how)
    \/ \E a \in All, b \in Agents : AgentResult(a, b)
    \/ CancelRun

\* Publications and pauses end and timers fire. Nothing is asked of the agents, whose
\* loops wait for their LLM.
Fairness == \A a \in All :
    WF_vars(Retry(a)) /\ WF_vars(Start(a)) /\ WF_vars(Finish(a)) /\ WF_vars(ToolTimeout(a))

Spec == Init /\ [][Next]_vars /\ Fairness

-----------------------------------------------------------------------------
(* Properties.                                                              *)

\* A foreground agent only runs while its caller waits for it and no other: nothing
\* of a call that timed out or was cancelled goes on, at no depth, and the attempts
\* of a call do not overlap. The same holds for an agent that is being announced.
Nested ==
    \A c \in Agents :
        pc[c] \in Live /\ (mode[c] = "foreground" \/ pc[c] = "announced") =>
            Waits(parent[c], c)

\* A background agent can be asked for from the moment its id is told, also when its
\* caller is gone; and agent_result gives a result only after the agent's end was
\* published, or if there was none because it could not begin.
BackgroundKnown ==
    \A b \in Agents :
        /\ mode[b] = "background" /\ pc[b] \in {"thinking", "calling", "backoff", "finishing"} =>
             b \in registry
        /\ b \in told => b \in finished \/ pc[b] = "broken"

\* Every foreground agent comes to an end, also if its LLM never answers, and so does
\* every call of spawn_agent that is not part of another one.
ForegroundEnds ==
    \A a \in All :
        /\ (pc[a] \in Live /\ mode[a] = "foreground") ~> pc[a] \in Gone
        /\ (pc[a] = "calling" /\ mode[a] # "foreground") ~> pc[a] # "calling"

-----------------------------------------------------------------------------
(* The inductive invariant behind Nested and BackgroundKnown.               *)

\* Agents are born in the order of their ids, and after their parents.
Born ==
    /\ \A c \in Agents : c > next => pc[c] = "unborn"
    /\ \A c \in Agents : pc[c] # "unborn" => mode[c] # "none" /\ parent[c] < c
    /\ mode[Root] = "none"

\* Who calls has a live child that is its own and runs inside the call.
CallsPaired ==
    \A a \in All :
        /\ pc[a] = "calling" =>
             /\ child[a] \in Agents
             /\ parent[child[a]] = a
             /\ pc[child[a]] \in Live
             /\ pc[child[a]] = "announced" \/ mode[child[a]] = "foreground"
             /\ HasAgentTools(a)
        /\ pc[a] = "backoff" =>
             child[a] \in Agents /\ pc[child[a]] \in Gone /\ attempt[a] < Attempts
             /\ HasAgentTools(a)

\* A registered task has begun and is never cancelled; a task that is over has
\* published its end.
Registered ==
    /\ \A b \in registry :
          mode[b] = "background" /\ pc[b] \notin {"unborn", "announced", "cancelled"}
    /\ \A b \in All : pc[b] = "over" => b \in finished

IInv == TypeOK /\ Nested /\ BackgroundKnown /\ Born /\ CallsPaired /\ Registered
=============================================================================
