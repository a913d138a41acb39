----------------------------- MODULE AgentLoop -----------------------------
(***************************************************************************)
(* core/loop.py and core/context.py: the plan-act-observe loop of one      *)
(* agent run over its ExecutionContext, and Compactor.compact, which it    *)
(* calls when the context fills up.                                        *)
(*                                                                         *)
(* A step ends where the coroutine awaits the LLM, a tool or a summary;    *)
(* the publishing of events in between touches nothing the loop reads.     *)
(* Each run is named by the request that starts it.                        *)
(***************************************************************************)
EXTENDS Thread

CONSTANTS
    Request,      \* requests of clients, each of which starts at most one run
    MaxSteps,     \* agent.max_steps
    MaxCalls,     \* bound: tool calls in one reply
    Reply,        \* bound: the replies of the LLM, <<stop_reason, tool calls>>
    AutoCompact   \* compaction.auto_threshold > 0: context_pct may reach it

ASSUME LoopAssumption ==
    /\ MaxSteps \in Nat \ {0}
    /\ MaxCalls \in Nat
    /\ Reply \subseteq {"end_turn", "tool_use", "max_tokens", "other"} \X (0..MaxCalls)
    /\ AutoCompact \in BOOLEAN

VARIABLES
    messages,   \* context.messages
    prefill,    \* prefill_len: how many of them come from the session
    step,       \* context.step
    todo,       \* the tool calls of this step still to be invoked
    phase,      \* what the loop awaits; "ended" when it is left
    outcome     \* context.status

loopVars == <<messages, prefill, step, todo, phase, outcome>>

ToolId == Request \X (1..MaxSteps) \X (1..MaxCalls)
Message ==
    [turn : Request, role : {"user", "assistant"}, text : {"message", "summary", "other"},
     uses : SUBSET ToolId, results : SUBSET ToolId]

LoopTypeOK ==
    /\ messages \in [Request -> Seq(Message)]
    /\ prefill \in [Request -> Nat]
    /\ step \in [Request -> 0..MaxSteps]
    /\ todo \in [Request -> Seq(ToolId)]
    /\ phase \in [Request -> {"none", "planning", "acting", "condensing", "ended"}]
    /\ outcome \in [Request -> {"none", "running", "success", "failed"}]

LoopInit ==
    /\ messages = [r \in Request |-> <<>>]
    /\ prefill = [r \in Request |-> 0]
    /\ step = [r \in Request |-> 0]
    /\ todo = [r \in Request |-> <<>>]
    /\ phase = [r \in Request |-> "none"]
    /\ outcome = [r \in Request |-> "none"]

\* The context starts as the session's history, or as the goal alone.
StartLoop(r, history) ==
    /\ messages' = [messages EXCEPT ![r] = IF history = <<>> THEN <<UserText(r)>> ELSE history]
    /\ prefill' = [prefill EXCEPT ![r] = Len(history)]
    /\ step' = [step EXCEPT ![r] = 1]
    /\ phase' = [phase EXCEPT ![r] = "planning"]
    /\ outcome' = [outcome EXCEPT ![r] = "running"]
    /\ UNCHANGED todo

\* The context goes with the run.
DropContext(r) ==
    /\ messages' = [messages EXCEPT ![r] = <<>>]
    /\ prefill' = [prefill EXCEPT ![r] = 0]
    /\ step' = [step EXCEPT ![r] = 0]
    /\ todo' = [todo EXCEPT ![r] = <<>>]
    /\ phase' = [phase EXCEPT ![r] = "none"]
    /\ outcome' = [outcome EXCEPT ![r] = "none"]

EndLoop(r, status) ==
    /\ phase' = [phase EXCEPT ![r] = "ended"]
    /\ outcome' = [outcome EXCEPT ![r] = status]
    /\ UNCHANGED step

NextStep(r) ==
    /\ step' = [step EXCEPT ![r] = @ + 1]
    /\ phase' = [phase EXCEPT ![r] = "planning"]
    /\ UNCHANGED outcome

LimitPassed(r) == step[r] > MaxSteps

LimitReached(r) == step[r] >= MaxSteps

\* The termination check, then the compaction check.
EndStep(r, stop) ==
    IF stop = "end_turn" THEN EndLoop(r, "success")
    ELSE IF LimitReached(r) THEN EndLoop(r, "failed")
    ELSE \/ NextStep(r)
         \/ /\ AutoCompact
            /\ stop = "tool_use"
            /\ phase' = [phase EXCEPT ![r] = "condensing"]
            /\ UNCHANGED <<step, outcome>>

CallIds(r, n) == [i \in 1..n |-> <<r, step[r], i>>]
IdSet(r, n) == {<<r, step[r], i>> : i \in 1..n}

CutShortUnanswered(r, n) == Append(messages[r], Assistant(r, IdSet(r, n)))

\* A reply cut by max_tokens inside its tool calls gets an error result for each.
CutShort(r, n) ==
    messages[r] \o <<Assistant(r, IdSet(r, n)), ResultsOf(r, IdSet(r, n))>>

\* The LLM replies with tool calls to execute. The API refuses a list of
\* messages in which calls and results are not paired.
PlansTools(r, n) ==
    /\ phase[r] = "planning"
    /\ Paired(messages[r])
    /\ <<"tool_use", n>> \in Reply
    /\ n > 0
    /\ messages' = [messages EXCEPT ![r] = Append(@, Assistant(r, IdSet(r, n)))]
    /\ todo' = [todo EXCEPT ![r] = CallIds(r, n)]
    /\ phase' = [phase EXCEPT ![r] = "acting"]
    /\ UNCHANGED <<prefill, step, outcome>>

\* It replies with nothing to execute: the step is over.
PlansNothing(r, stop, n) ==
    /\ phase[r] = "planning"
    /\ Paired(messages[r])
    /\ <<stop, n>> \in Reply
    /\ stop # "tool_use" \/ n = 0
    /\ messages' = [messages EXCEPT ![r] =
                      IF stop = "max_tokens" /\ n > 0 THEN CutShort(r, n)
                      ELSE Append(@, Assistant(r, IdSet(r, n)))]
    /\ EndStep(r, stop)
    /\ UNCHANGED <<prefill, todo>>

\* chat raises, after its own retries: the loop breaks with llm_error.
PlanFails(r) ==
    /\ phase[r] = "planning"
    /\ EndLoop(r, "failed")
    /\ UNCHANGED <<messages, prefill, todo>>

\* invoke_tool returned; calls of one reply are executed one after the other.
ToolReturns(r) ==
    /\ phase[r] = "acting"
    /\ messages' = [messages EXCEPT ![r] = AddResult(@, r, Head(todo[r]))]
    /\ todo' = [todo EXCEPT ![r] = Tail(@)]
    /\ IF todo'[r] = <<>> THEN EndStep(r, "tool_use") ELSE UNCHANGED <<step, phase, outcome>>
    /\ UNCHANGED prefill

\* Compactor.compact replaces the whole context by a summary, or gives up.
Condenses(r) ==
    /\ phase[r] = "condensing"
    /\ \/ messages' = [messages EXCEPT ![r] = Condensed(r)]
       \/ UNCHANGED messages
    /\ NextStep(r)
    /\ UNCHANGED <<prefill, todo>>

\* An exception or a cancellation leaves the loop where it awaits.
LeaveLoop(r) ==
    /\ phase[r] \in {"planning", "acting", "condensing"}
    /\ EndLoop(r, "failed")
    /\ UNCHANGED <<messages, prefill, todo>>

LoopStep(r) ==
    \/ \E n \in 0..MaxCalls : PlansTools(r, n)
    \/ \E reply \in Reply : PlansNothing(r, reply[1], reply[2])
    \/ PlanFails(r) \/ ToolReturns(r) \/ Condenses(r)
=============================================================================
