# KamaClaude in TLA+

KamaClaude is a coding agent: a daemon (`kama-core`, one asyncio event loop) that runs
agent sessions against an LLM, and thin clients (CLI, TUI) that talk JSON-RPC to it over
a local TCP socket. This directory holds its formal model: TLA+ modules translated from
the Python source, TLC configurations that check them on small instances, and theorems
about them that TLAPS checks. Paths below are relative to `src/src/kama_claude/`.

Run things here:

    tlc -workers 2 -config ToolCallsConcurrent.cfg MCToolInvocation
    tlc -workers 2 -config SessionTurns.cfg MCSession
    tlc -workers 2 -config TuiClient.cfg MCTuiClient
    tlapm ToolInvocationProofs.tla

Every run of section 3 and every proof module of section 4 is called the same way.

## 1. The system

| Component | State it keeps | Operations | Interacts with |
|---|---|---|---|
| `core/permissions` PermissionManager | `_pending` futures by tool_use_id, `_session_always`, `_persistent_always`, `policy.toml` | `check_and_wait`, `respond`, `cancel_session`, load/save | every `invoke_tool`, `permission.respond` of any client, event bus |
| `core/tools/invocation.py` | the retry loop of a call | `invoke_tool` | registry, PermissionManager, event bus |
| `core/session/manager.py` | sessions, one lock each, status | `create`, `send_message`, `close`, `compact` | store, runner, bus |
| `core/session/store.py` | `thread.jsonl`, `meta.json`, `notes.md` | append, read with trimming of orphans, rewrite | manager, runner |
| `core/loop.py`, `core/context.py` | the ExecutionContext of a run | plan, act, observe, terminate, compact | provider, `invoke_tool`, compactor |
| `core/runner.py`, `core/runs.py` | per run: history, prefill_len, tool registry | `run_and_capture` | store, loop, bus |
| `core/compact` | none | `compact`, `compact_messages` | loop, manager, provider |
| `core/events` bus, writer | subscribers; `events.jsonl` per run | `publish`, `subscribe`, `write` | everyone publishes |
| `core/transport` socket server, broadcaster | connections, subscriptions with topics and scope | dispatch, push, unsubscribe | CoreApp, bus |
| `core/app.py` CoreApp | running tasks, the wiring | one handler per JSON-RPC method, start, stop | all of the above |
| `core/subagent` | background tasks and results per run | `spawn_agent`, `agent_result` | loop, `invoke_tool`, bus |
| `core/task` TaskManager | one JSON file per task | create, update, list, get | tools |
| `core/mcp` client | stream, lock, request ids | connect, list, call, close | MCP tools |
| `core/llm` provider | none | `chat` with streaming and retries | loop, compactor |
| `core/trace` writer | queue, drain task | write, stop | tracing provider |
| `core/skills`, `core/agents`, `core/memory` | none | load and resolve files | manager, runner |
| built-in tools | the user's files and processes | read, write, bash, list, note | `invoke_tool` |
| `cli`, `transport/socket_client.py` | pending futures, chat prompt | run, chat, ping, trace | socket |
| `tui` | busy flag, widgets per request | render events, send, answer | socket |
| `core/bus` types, `core/config.py` | none | parse | all |

How they interact. Every JSON-RPC request line becomes a task of its own
(`socket_server.py:139`), so handlers of one client and of several interleave at every
`await`. `session.send_message` runs a whole agent run inside its handler, under the
session's lock. The run calls the LLM, then each tool call in turn through `invoke_tool`,
which may suspend for a permission that *another* handler (`permission.respond`)
delivers through a future. Everything publishes on one `EventBus`, whose subscribers (event files, the
broadcaster) are awaited one after the other.

What is hard about it:

* **interleaving** of handlers, runs, subagents and timers over shared caches, futures,
  locks and files;
* **races of an answer with its timer, with a cancellation, or with the publication of
  its own request**;
* **partial failure**: runs that raise, are cancelled or are cut by `max_tokens` in the
  middle of tool calls, saves that stop half way, writes of the policy file that fail;
* **crash and restart** of the daemon between two steps, with only the policy file reloaded;
* **index arithmetic over a list another component replaces** (`prefill_len` and compaction);
* **liveness**: no wait may hang for ever, no exit may keep a lock.

`PROJECT.json` lists these hazards one by one at the lines where they bite, with the
property that would catch each, or why none does yet.

### What makes each component correct

* PermissionManager: nothing runs unauthorised; deny patterns and the outside-directory rule
  beat every cached rule; the answer that was given is the one returned; rules come only
  from applied answers; the file is what memory holds; a request that is waited for can be
  answered; no wait lasts for ever.
* `invoke_tool`: bounded executions per permission; every call returns.
* Session, store, runner: one request at a time; a run sees the message it answers; nothing
  accepted is lost; the thread always pairs tool calls with results; a closed session
  stays closed; the lock is always given back.
* AgentLoop: what is sent to the LLM is well formed whatever the replies; at most
  `max_steps` steps.
* Event stream: no client and no file gets an event of a run twice or out of order; from its
  registration on a client misses nothing; a subscription nobody will remove is dropped; no
  connection stops a run. (There is no promise about the time between replay and registration:
  see section 3.)
* Subagents: a foreground agent lives only inside the call that waits for it; a background agent
  stays reachable and is reported over only when it is; calls return although no LLM answers.
* MCP client: a result is the server's answer to the very attempt that reports it; one reader at a
  time; every call ends.
* TaskManager: completing a task frees all that wait for it; what the files say is what the results
  said, also when writes fail and are tried again.
* TUI: the prompt follows the run; a request that waits can be answered; nothing of a run that is
  over stays on the screen as open; a message that was sent gives the prompt back.

## 2. Modules and how they correspond to the code

The common convention: **a step is the code between two awaits of one coroutine**, because
asyncio switches coroutines only there. `pc`, `loc`, `phase` and `check` say at
which await a coroutine stands. `PROJECT.json` "map" gives the source lines of every
definition.

### A. Permissions and tool calls

* `PermissionManager.tla` - `core/permissions/{manager,policy,storage}.py`. `pending`,
  `future`, `sessionAlways`, `persistentAlways`, `policyFile` are the attributes and the file
  of the same names; `check[c]` is where `check_and_wait` of call `c` is; `expired[c]` says
  that its `wait_for` timer fired. `StaticVerdict` is the tiers in the order of their early
  returns. `answer`, `givenFile` and `saveLost` are history variables.
* `ToolInvocation.tla` EXTENDS it with `invoke_tool`: `pc`, the loop variable `attempt`,
  the returned `result`; `execs` counts entries of `tool.invoke`. It also has the rest
  of the world: clients that answer or leave, cancellation of a task, restart.
* `PermissionGate.tla` - the abstract promise about one call, without caches, futures
  or timers: it runs only while it holds a permit, at most so many times, and a permit
  that was asked for is given only by an allowing answer to that call.
* `MCToolInvocation.tla` - instances for TLC. `ToolInvocationProofs.tla` - the theorems.

Abstractions. A command is the set of pattern lists it matches (deny, outside the working
directory, allow); regular expressions and the path heuristics are data. What a tool does is
its outcome (ok, a retried failure, a final failure). Every call has its own tool_use_id, as
the API gives them. The variant without a permission manager and without a policy file (used
by tests) is left out. `Crash` may fall inside `save_policy_file`, which truncates before
it writes, and `ApplyResponse` may fail to write, before or after the truncation.

### B. Sessions and the agent loop

* `Thread.tla` - message lists as far as pairing is concerned: `AddResult` is
  `add_tool_result`, `TrimOrphans` is `_trim_orphan_tool_use`; `Paired` is what the
  Anthropic API accepts (external).
* `AgentLoop.tla` - `core/loop.py`, `core/context.py` and `Compactor.compact`, one loop per
  run; `phase[r]` is what run `r` awaits. Replies are pairs of a stop reason and a number of
  tool calls.
* `Session.tla` EXTENDS it - one session: `send_message`, `close`, `compact` of
  `core/session/manager.py`, its `thread.jsonl` and `meta.json`, `run_and_capture` of
  `core/runner.py`, and the cancellation of `agent.run` tasks when the daemon stops
  (`core/app.py`). `covered` is a history variable.
* `Dialogue.tla` - the abstract promise of a session to its clients: one request at a time,
  messages that were heard stay until a summary replaces the conversation, closed is closed.
* `MCSession.tla` - instances. `SessionProofs.tla` - the theorems.

Abstractions. Sessions share only the bus and the permission manager, so one is modelled.
Awaits between which no shared state is touched are one (two publishes in a row, for
example). Texts, thinking blocks, lengths, run ids, titles, notes, skills and the shortening of
long results play no part. The LLM refuses a list that is not `Paired`, so `PlanFails` is
then its only outcome. An exception may leave the loop only while it invokes tools or
compacts (`MayFail`); `chat` has its own handler. Crashes of the daemon are not an
action of this module, since a restarted daemon starts with an empty session index
and never reads an old thread again.

### C. The event stream

`EventStream.tla` - `core/events/{bus,writer}.py`, `core/transport/ipc_broadcaster.py`, the connections
of `core/transport/socket_server.py` and the subscribe handler of `core/app.py` with its replay.

* `run[r]` is the publish a run awaits: which subscriptions `handle` has still to serve (`todo`, the copy
  it took) and which writers it found dead. `Publish` and `Drained` are its two awaits: the first write,
  and the return of a drain. The files are written when the broadcaster is done, without an await, to the
  writers of all runs that go on, since nobody unsubscribes a writer and all share the bus.
* `request[c]` is the handler of the one `event.subscribe` a client sends, `conn[c]` its connection:
  `lost` when the peer is gone and `ended` when the `finally` of `_handle_connection` has run. The
  handler is a task of its own and may outlive both.
* `since` is a history variable: what each run had published when the client was registered.

Abstractions. The nth event of run r is `<<r, n>>`; patterns are "everything" or "the end of a run";
one subscription per client; `events.jsonl` is read as written (`replay_from_run` names an existing or no run).

### D. Subagents

`Subagents.tla` - `core/subagent/{tool,registry}.py` under the retries and the timeout of `invoke_tool`.
Agents are numbered in the order of their run ids, 0 is the run. `pc` says where an agent stands between its calls,
`Announce` is an attempt of `spawn_agent` up to the publication of `SubagentStarted`; `StartForeground`,
`StartBackground` and `StartFails` what comes of it; `Finish` publishes the end and, for a foreground agent,
returns to the caller in the same step. `ToolTimeout` and `CancelRun` cancel all that runs inside (`Below`).

Abstractions. An agent's loop is "thinking" that ends well or badly at any time (module `AgentLoop` has the loop);
profiles, prompts and tool lists are data. Runs do not share their registries, so there is one run.

### E. The MCP client

`McpClient.tla` - `core/mcp/{client,tool}.py` under the same retries. `lock` and `lastId` are `_lock` and `_id`; `pc`
says whether a call queues for the lock or reads lines. Everything the server did is in `inbox`,
`stream`, `gone`, and the history `answers`; it may answer in any order, late, never, with errors, and send other
lines. `got` is a history variable.

Abstractions. A line is an answer to some request or "other"; the model starts after the handshake, whose
requests are 1 and 2. The start and stop of servers is left out.

### F. The task list

`TaskManager.tla` - `core/task/manager.py` behind `task_create` and `task_update`. Every write of a file is a step of
its own (`Visit`, `Save`), because `WriteFails` may come instead and leaves a truncated file; then `invoke_tool`
starts the call again from what is on disk (`Retry`). `board` and `failed` are history: what the results told the agent.

Abstractions. A task is its status and its `blocked_by`; titles, owners and descriptions are data; refused calls
change nothing; `task_get` and `task_list` only read.

### H. The terminal client

`TuiClient.tla` - `tui/app.py` over `core/transport/socket_client.py`, with the daemon as far as one client sees it.

* `sock` is where `_socket_loop` is, `reading` whether `run_event_loop` runs, `pump` the `permission.respond`
  that the App's message pump awaits, `worker` a `run_worker` that has not begun. `busy`, `prompt`, `tools`,
  `blocks`, `selects` are the attributes and widgets that decide what the user can do.
* The reader has one action per event or answer (`OnReady`, `OnPermissionDenied`, ...), the user may type, pick
  and press keys at any time, and the daemon (`HandleSend`, `StartCall`, `DenyCall`, ...) does what
  `core/app.py`, `session/manager.py`, `invoke_tool` and the permission manager do, reduced to the session's lock
  and the calls that wait. It may stop and start again; a new daemon knows nothing of the old one's calls.
* `spoiled` is a history variable: an event of another session, or an error after the run's end was published,
  which the client takes for its own.

Abstractions. The log, the token stream, the popup for commands, titles and quitting are display; an answer without
consequence is left out. `query_one` with several selects either finds the first or raises, as the version of
textual decides. Requests time out in the order they were made, since all wait equally long. The CLI commands keep
no state that reacts to events.

## 3. Runs

| Run | Instance | Checks | Result |
|---|---|---|---|
| `tool_calls_concurrent` | 3 bash calls in 2 sessions, one outside the working directory although it matches an allow pattern; timeouts, cancellations and `cancel_session`; no retry, no crash | `TypeOK`, `ExecutionAuthorised`, `CacheJustified`, `PendingMatchesWaiters`, `AnswerHonoured` | pass, 1.1 million states |
| `tool_calls_crash` | the same calls, one matching a deny pattern; 2 retries as in the code, 1 crash, weak fairness | `ExecutionAuthorised`, `FileTracksMemory`, `ImplementsGate`, `EveryCallReturns` | pass, 290 thousand states |
| `tool_calls_no_timeout` | 2 calls, `timeout_s = 0`, `cancel_session` never called | `DisconnectReleases` | violated, see findings |
| `session_turns` | 4 interchangeable requests of any kind, all replies the loop handles, automatic compaction | `TypeOK`, `TurnsContiguous`, `RunSeesMessage`, `RequestsPaired`, `NothingLost`, `MetaFresh` | pass, 235 thousand states |
| `session_failures` | 3 requests, one of them an `agent.run` that may be cancelled; runs raise, replies leave calls unanswered, saves stop half way; weak fairness | `ThreadReadsPaired`, `ImplementsDialogue`, `SessionIsFreed` | pass, 285 thousand states |
| `session_auto_compact` | 2 requests, one tool call per reply, 3 steps, automatic compaction | `ThreadReadsPaired` | violated, see findings |
| `event_stream_replay` | 2 runs of 2 events, one client that replays a run and then watches all, one that waits for the end of a run; clients leave, one event file refuses writes; weak fairness | `TypeOK`, `StreamInOrder`, `FilesInOrder`, `LiveComplete`, `AbandonedForgotten`, `RunsEnd` | pass, 570 thousand states |
| `mcp_calls` | 2 calls with 2 attempts each on one server that may be 2 lines ahead; weak fairness | `TypeOK`, `OneReader`, `OwnAnswer`, `CallsReturn` | pass |
| `task_list` | 3 tasks, lists of none or of the first two, 2 failing writes, 2 attempts | `TypeOK`, `Released`, `ReadsBack` | pass, 8.2 million states |
| `subagent_calls` | 4 agents, 2 attempts, two levels deep; weak fairness | `TypeOK`, `Nested`, `BackgroundKnown`, `ForegroundEnds` | pass, 170 thousand states |
| `tui_client` | 2 tool calls of the run or of background agents, 2 connections, one message at a time on its way to the client; weak fairness | `TypeOK`, `InputMatchesRun`, `RequestsShown`, `NothingLeftOpen`, `PromptReturns` | pass, 880 thousand states |
| `tui_reconnect` | no tool calls, 2 connections | `ReconnectsReady` | violated, see findings |

### Why the bounds are enough

* *Calls.* Two calls of one session and one of another are the smallest instance in which a rule
  travels by the session cache, by the tool cache and not at all, and in which two opposite standing
  answers race. Every call may be asked, answered late, repeatedly, or never, cancelled and
  timed out.
* *Retries.* `tool_calls_crash` uses the code's 2 (`_MAX_RETRIES`); the other run uses 0 to have room
  for the interleavings of answers, which the retries come after.
* *Crashes.* One crash (`MaxCrashes`) already separates the rules that were saved from those that were
  in memory only; two more daemons do the same again.
* *Requests.* Three are needed to interleave rows of two around those of a third, and a
  history long enough (`prefill_len` of 3 or more) for the slice after compaction to go wrong needs two; four are
  used where symmetry affords them.
* *Steps and calls.* `MaxSteps` 2 has a step with a predecessor and one that hits the limit;
  `MaxCalls` 2 has a first and a last tool result. `session_auto_compact` uses 3 steps, as a run
  has to plan, compact and act again to show the slice.
* *Events.* With two events per run a run has a first, which opens its file, and a last, which closes it; two runs
  are enough for writes into each other's files and for copies of the subscriptions that age while
  another publish waits. Of two subscriptions the broadcaster serves one first and one later.
* *MCP.* Two calls with two attempts make four requests: an answer may be late for an earlier attempt of
  the same call, or for the other call. `Room` bounds how far the server is ahead, not what it does.
* *Tasks.* Three tasks let one completed task have two dependents that wait for something else as well, and the list
  `{1, 2}` lets a task name itself; two faults break both attempts of a call. The proof found a case that
  this instance does not reach (a completion answered with an error, see "What was found"), and covers it.
* *Agents.* Four agents are a call of the run and one of its child with two attempts each, or any mix with the background.
  `Room` lets a call begin only when all of its attempts fit, so the bound cuts no retry.
* *TUI.* Two calls give two requests at once, which is when the selects and blocks get out of step; two connections give one
  reconnect. `Room = 1` makes the daemon wait for the client after each step that publishes, as its drains do at worst;
  what a step publishes together (`started` and `requested`) is on its way together.
* Deadlock is not checked: a system in which all calls or requests of the instance are over
  rightly stops.

### Fairness

`FairSpec` of `ToolInvocation` assumes weak fairness of each call's own coroutine steps and of its
timer. The event loop runs what is ready and fires due timers; `wait_for` bounds a
tool by 120 seconds; a publish ends because the socket's reader reads or leaves. Nothing
obliges a client to answer, nor anyone to cancel or restart. `CancelFairness` says that
whoever is wired to `cancel_session` calls it after a disconnect; the daemon wires
nobody, and with `CancelWired = FALSE` the conjunct is void.
`FairSpec` of `Session` assumes weak fairness of the handler of each request: LLM calls
have the client library's timeout and a bounded number of attempts, tool calls return by
`EveryCallReturns`. Exceptions, failed saves and cancellations are never obliged to happen.
With `timeout_s = 0` the second assumption fails for a call nobody answers; this is what
`tool_calls_no_timeout` is about.

* `EventStream`: weak fairness of each run's step, of each handler and of the end of a lost connection. For a run at
  `pushing` this says that the drain returns or raises. The code has no timeout there: a client that keeps its connection
  and never reads stops every run, so `RunsEnd` is a promise about clients that read or leave. No client is obliged to ask
  or to leave.
* `McpClient`: weak fairness of a call's steps and of its 120-second timer. Nothing is asked of the server;
  the steps are fair as `readline` has a timeout of its own.
* `Subagents`: weak fairness of publications, pauses and the timer of calls outside of others. Nothing is asked of the
  agents: their loops may think for ever.
* `TuiClient`: weak fairness of the client's own tasks and of the daemon's handlers; `Calling` (weak) says that a tool
  call ends and that a request nobody answers times out, `Ending` that a run whose calls are over ends. The user is
  obliged to nothing, and the daemon may stop at any time.
* `TaskManager` states no liveness: the code is sequential and finite.

### What was found

* **A pending permission can hang for ever** (`tool_calls_no_timeout`). The comment on
  `cancel_session` (`core/permissions/manager.py:192`) says that it refuses what is pending when a client
  disconnects so that no future hangs. Nothing calls it, and `timeout_s = 0` is a
  documented setting.
* **Automatic compaction corrupts the thread** (`session_auto_compact`). `run_and_capture` saves
  `context.messages[prefill_len:]`, but `Compactor.compact` replaced the list meanwhile. With three or
  more messages of history, the slice starts behind an assistant message with a tool_use and
  saves only its tool_result; `read_messages` gives it to every later run. The
  setting is off by default (`compaction.auto_threshold = 0.0`, `core/config.py:54`).

* **A client that reconnects may refuse every message** (`tui_reconnect`). A send that is awaited when the connection
  is lost is cancelled, which its `except` (`tui/app.py:668`) does not catch; `_busy` stays set over the reconnect, while
  prompt and header say "ready".

Other behaviour that the models follow and a reader of the code may not expect; none of it contradicts
a promise made in the repository clearly enough to be listed as a finding:

* Events published between the read of `events.jsonl` and the registration are neither replayed nor pushed
  (`core/app.py:166`); this is why `LiveComplete` counts from the registration.
* A file of the task list whose write fails is truncated, and a truncated file is skipped silently from then on: the task
  is gone from every list while the completion of another reports success. A completion that is answered
  with an error may already have freed its dependents (`ReadsBack` says exactly that).
* An agent in the background whose loop fails without raising is reported by `agent_result` as over, with success of the tool
  (`core/subagent/tool.py` does not look at `context.status` there).
* `core/subagent/registry.py:8` and `:26` speak of a batch cancel at the end; nothing calls `all()`, so background agents
  outlive a cancelled run (`BackgroundKnown` keeps them reachable). `core/runner.py:76` says that a registry is shared
  by several runs; each message gets a runner, hence a registry, of its own.
* A connection that is lost during the TUI's handshake ends its socket loop for good (`sock = "dead"`), and one that is
  lost while a decision is awaited ends its message pump (`pump = Gone`): `CancelledError` is not an `Exception`.
* `session.closed` of any session disables the TUI's prompt, and `session.waiting_for_input` of any session enables it, as
  the client does not compare session ids (`spoiled`).

What the passing runs show beside: unanswered tool calls in a thread never make it
unreadable (`ThreadReadsPaired`), and `MetaFresh` holds although `meta.json` is
written last, since the lock is kept until then - but not for a request that is cancelled while it
publishes the status, which `MetaFresh` therefore excludes: the daemon is stopping then.

## 4. Proofs

`ToolInvocationProofs.tla` proves, for any number of calls, sessions, tools, retries and crashes and every
policy table:

* `Invariance`: `Spec => []IInv`. `IInv` is `TypeOK`; for every call, where its two coroutines
  stand relative to each other (`ControlInv`), the life of its request (`RequestInv`) and
  what its verdict says (`VerdictInv`); and the origin of each cached and each saved rule
  (`CacheJustified`, `FileJustified`). None of the checked invariants is inductive alone.
  `ExecutionAuthorised`, for instance, needs that a call at `running` has an
  allowing verdict, that a decision returned is the future's, that a future holds what a
  client answered or the refusal of `cancel_session`, and that a cached allow was given by somebody.
  `FileJustified` is there because a restart turns the file into the cache.
* from it, `TypeCorrect`, `NoUnauthorisedExecution`, `RulesAreGiven`, `RequestsAreAnswerable`,
  `AnswersAreHonoured`; and `FileIsCurrent`, `GateRefinement` (every step maps to a
  step of `PermissionGate` or leaves permits, replies and executions alone).

The argument has one step per action; a lemma (`HistoryStable`) carries what was true of past
answers across any step, since a rule's justification refers to another call than the one that moves.

The assumptions are `CallAssumption` and `RetryAssumption`: bash is a tool, only
bash has a command, only tools with a policy have pattern lists. TLC evaluates them in the runs.

`ThreadProofs.tla` proves facts about message lists of any length, the main ones that
`_trim_orphan_tool_use` returns the longest prefix in which every tool_use has its result
(`TrimIsLongestAnswered`), and that a list whose results stand right behind their calls (`OrderlyFrom`) is
read as a paired one wherever it was cut (`OrderlyReadsPaired`).

`SessionProofs.tla` proves, for any number of requests, steps, tool calls and any set of replies, with
or without compaction, failures and cancellation:

* `Invariance`: `Spec => []IInv`. `IInv` is `TypeOK`; for every request, that holding the lock
  and being inside a handler are the same, that a run's loop exists exactly while its handler
  runs it, and that a message that is being run was heard (`HandlerInv`); that what a run adds behind
  `prefill_len` is its own, even after the context was replaced (`ContextInv`); that rows come from
  requests that were heard and the lock holder's are the last ones (`RowsInv`); `TurnsContiguous`; and
  that `meta.json` lags only while a handler publishes the new status (`MetaInv`).
* from it, `TypeCorrect`, `TurnsStayTogether`, `MetaIsFresh` and `DialogueRefinement`.

`TurnsContiguous` alone is not inductive: that a run appends behind its own message needs that nobody
else wrote since, which needs the lock, which needs the places of all handlers; and that the saved
slice is the run's own needs `ContextInv` through every step of the loop. The proof
is by one lemma per part of `IInv`, each with one step per action, over lemmas on what a step of the loop,
a save and a heard message change. It assumes `LoopAssumption` and `SessionAssumption` only (types of the
constants, `Nobody` is no request).

The second half of the module proves what depends on the LLM's replies. The code answers or executes the calls of a
reply by its stop reason; what it does with a call under a stop reason it does not know is to drop it. So each theorem names
what it needs, as a hypothesis about the constants:

| Theorem | Hypothesis | Why it is needed |
|---|---|---|
| `ThreadAlwaysReadsPaired` | no automatic compaction, the default setting | `session_auto_compact` is the counterexample |
| `RequestsArePaired` | `NoStrayCalls`: no calls under an unknown stop reason | the loop goes on with the calls unanswered |
| `RunsSeeTheirMessage`, `NothingIsLost` | `AllAnswered`: also none under "end_turn", no exception in the middle of a step, no `agent.run` that can be cancelled | each leaves a call in the thread that nobody answers, and `read_messages` drops all that follows it |

`session_turns` satisfies `AllAnswered` and `session_failures` has no compaction, so every hypothesis is one under which TLC
checked the property. The first theorem allows all replies, exceptions, cancellations and half-finished saves.

* `ThreadReadsPaired` rests on `OrderInv`: what a run adds is orderly, no step makes calls twice (`CallsUpTo`), and the
  calls in the thread are those of runs that are over, so that a slice appended to it cannot answer an older call. Then
  `OrderlyReadsPaired` applies to the thread whatever was cut.
* `RequestsPaired` rests on `PairedInv`: a run that began with a paired list has one whenever it is at the LLM, and lacks
  exactly the results of `todo` while it executes. Compaction replaces a paired list by a paired one.
* `RunSeesMessage` and `NothingLost` rest on `AnsweredInv`: no call in the thread lacks its result, only those of the step
  being executed lack theirs in a run's list (`DueInv`), hence reading returns the whole thread (`FullInv`).

`McpClientProofs.tla` proves `AlwaysOneReader` and `AlwaysOwnAnswer` for any number of calls and attempts, any
length of the stream and any server (`McpAssumption`: types only). `OwnAnswer` is not inductive: that a line with the caller's id
is the caller's answer needs that ids in use differ (`IdsDiffer`), that none exceeds `_id`, and that every
request and answer there ever was with an id still in use belongs to the attempt that uses it (`Known`).

`TaskManagerProofs.tla` proves `AlwaysReleased` and `AlwaysReadsBack` for any number of tasks, attempts, faults and lists
(`TaskAssumption`). The strengthening says that ids below `_next_id` are those given out (`IdsInOrder`), what the files may lack
against the results in the middle of a call (`FilesAsAnnounced`, `Missing`), and what the call in hand has cleared and will save
(`CallAsAsked`).

`SubagentsProofs.tla` proves `AlwaysNested` and `AlwaysBackgroundKnown` for any number of agents and attempts
(`SubagentAssumption`). Cancelling "all inside the call" is enough only because who calls has one live child of its own
(`CallsPaired`), parents are older than their children (`Born`), and only the first two levels have the tools; that nobody
cancels a registered task is `Registered`.

`EventStreamProofs.tla` proves for any number of runs, events and subscriptions and any writes that
fail (`EventStreamAssumption`):

* `AlwaysFilesInOrder`. The order of a file is not inductive: that an event may be appended needs that no file is
  ahead of its run, and that an event that is still being pushed is in none (`FilesBehind`).
* `TypeCorrect`, from `TypeOK` with the counting of `Counted`.
* `AlwaysStreamInOrder`, from `OrderInv`: a connection is once in the list of subscriptions and once in each copy a publish
  took (`OneEach`), as it asked (`AsAsked`), and it is not ahead of any run, with the event of a publish that is
  still to be written to it ahead of all it got (`SentBehind`). A replay may be sent since a file has nothing its run has not
  published, and is over before the connection is in any copy.
* `AlwaysLiveComplete`, from `DeliveryInv`: every event since the registration was written, or is the one of the
  publish under way and the connection is still in its copy (`Served`); and the writers a publish found dead are those
  of connections that are not open, so that dropping them loses nobody (`Subscribed`).

`TuiClientProofs.tla` proves for any number of calls, any number of connections and any backlog (`TuiAssumption`)
`TypeCorrect` and all three invariants of the client.

* `AlwaysInputMatchesRun`, from `IInv`. The client's `busy` matches the daemon only because a message is in one place at a time: posted, on its way,
  run, or answered by an end or an error that is on its way back (`OneMessage`); the prompt depends on `busy`,
  `blocks` and `pump` together (`PromptOpen`). Events of other sessions and a late error void it, hence `spoiled = {}`.
* `AlwaysRequestsShown`, from `ShownInv`. The danger is a denial, which removes the first select there is instead of its
  own. It is harmless because everything is in one order: calls are born and ask in the order of their numbers, their
  requests arrive and are mounted in that order (`InTurn`), and requests time out in it. So a denial of a request still
  open overtakes none (`DeniedInTurn`), and a select is left for every block that still waits or whose denial is on its way
  (`SelectsLeft`); what the user decided is shut on the screen before the daemon hears of it (`Answered`). Over a
  reconnection it holds since a new connection meets a daemon without calls of it (`Quiet`), after a handshake with one
  message on its way (`Handshake`).
* `AlwaysNothingLeftOpen`, from `LeftInv` on top of the two others. Each event that opens something on the screen is
  followed by the one that closes it, or that one is on its way (`OutcomeComes`), and the end of the run comes behind all that is
  about its calls (`EndsLast`); while the client is ready for the next message nothing is left (`Between`).

The proofs have one lemma per action for each invariant. What an action puts on the way or takes off it is
said once (`GetsLess`, `GetsMore`, `WayGets`), and an action that does not concern requests preserves the invariant by one of two
lemmas on what may then change (`PlainShown`, `ClosedShown`).

`TypeCorrect` is proved in every module of theorems that has a state. `SelectSeq` is opaque to the prover, so `EventStream` says by
`Kept(s, K)`, the elements of `s` at the positions `K`, what the code's comprehensions keep, and `TuiClient` by `Without(s, c)`
what is left of a list without `c`.

Model-checked only: liveness under fairness, which is out of the prover's reach (`EveryCallReturns`, `SessionIsFreed`,
`CallsReturn`, `ForegroundEnds`, `AbandonedForgotten`, `RunsEnd`, `PromptReturns`). Every invariant and both refinements that a
passing run checks are theorems.

## 5. Plan

In order of importance, with the runs and theorems each should bring. No module that is proved about
uses a RECURSIVE operator.

1. **A, permissions and tool calls**: done, proved.
2. **B, sessions and the agent loop**: done, proved.
3. **C, EventStream**: done, proved.
4. **D, Subagents**: done, proved.
5. **E, McpClient**: done, proved. Left: start and stop of the servers, with the handshake.
6. **F, TaskManager**: done, proved.
7. **H, TuiClient**: done, proved. Left to model: the answers of a second client to the same request, and the prompt of `cli/commands/chat.py`.
8. **G, TraceWriter**: queue, drain task, `stop`. Not begun, see below.
9. **K, pure algorithms** against reference definitions over bounded inputs: the tiers of
   `policy.evaluate`, the shortening of tool results, the round trip of the policy file. Not begun.

## 6. Not modelled, and why

* The built-in tools: I/O on the user's machine; to the daemon a tool is its outcome.
* Wire types, configuration, logging, prompts, agent and skill file parsing, memory files: declarations, layered reading of
  files and formatting. A setting is a constant or an input of the modules that depend on it.
* `core/llm`: the retries of a stream are inside one reply of `AgentLoop`; what leaves the provider is a reply or a failure.
* `core/trace`: a log beside the system. Nothing but `kama-cli trace` reads it, and no other component waits for it.
* `core/app.py`: the order of start and shutdown. The cancellation of running tasks is in `Session`; the rest
  closes what the other modules use.
* `core/mcp`: start and stop of the servers (`start_all` skips a server that does not come up).
* The CLI commands: all but the chat prompt send one request and print what they receive; the chat prompt is in the plan.
* The TUI's rendering: only its state that decides what the user can do is modelled.
* SQLite persistence and the reload of sessions after a restart, which the repository's README
  mentions: not in the source. Likewise the branch of `spawn_agent` for depth 2 and more cannot be
  reached, since a nested spawner is registered below depth 1 only.
