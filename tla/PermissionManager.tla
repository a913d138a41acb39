------------------------- MODULE PermissionManager -------------------------
(***************************************************************************)
(* core/permissions: the daemon's single PermissionManager.                *)
(*                                                                         *)
(* Every tool call of every run and subagent goes through check_and_wait.  *)
(* Static tiers decide at once; otherwise the call registers a future      *)
(* under its tool_use_id, publishes permission.requested and suspends      *)
(* until a client's permission.respond, its own timer, or a cancellation   *)
(* of its task.  "Always" decisions enter a cache per (session, tool), a   *)
(* cache per tool, and the policy file a restarted daemon loads.           *)
(*                                                                         *)
(* A step is the code between two awaits of one coroutine, since asyncio   *)
(* switches coroutines only there.  A command is represented by the        *)
(* pattern lists it matches.                                               *)
(***************************************************************************)
EXTENDS Naturals

CONSTANTS
    Call,            \* tool calls, each named by its tool_use_id
    Session,         \* sessions
    Tool,            \* tool names
    Bash,            \* the one tool whose params hold a command
    SessionOf,       \* the session a call belongs to
    ToolOf,          \* the tool a call names
    Matches,         \* what the command of a call matches
    Default,         \* the policy table: the default of each tool's ToolPolicy
    TimeoutEnabled,  \* permission.timeout_s > 0 (0 means wait for ever)
    CancelWired,     \* somebody calls cancel_session
    MaxCrashes       \* bound: crashes of the daemon

Pattern  == {"deny_pattern", "outside_cwd", "allow_pattern"}
Allowing == {"allow_once", "always_allow"}
Refusing == {"deny_once", "always_deny"}
StandingAlwaysKept == {"always_allow", "always_deny", "allow_once"}
Standing == {"always_allow", "always_deny"}
Decision == Allowing \cup Refusing
Rule     == {"none", "allow", "deny"}   \* an entry of a cache, none = absent
Verdict  == {"none", "auto_allow", "auto_deny", "timeout", "raised"} \cup Decision

\* Only bash has a command, and only a tool with a ToolPolicy has pattern lists;
\* the outside-cwd heuristics belong to no policy.
ASSUME CallAssumption ==
    /\ Bash \in Tool
    /\ SessionOf \in [Call -> Session]
    /\ ToolOf \in [Call -> Tool]
    /\ Matches \in [Call -> SUBSET Pattern]
    /\ Default \in [Tool -> {"allow", "deny", "ask", "no_policy"}]
    /\ \A c \in Call :
         /\ ToolOf[c] # Bash => Matches[c] = {}
         /\ Default[ToolOf[c]] = "no_policy" => Matches[c] \subseteq {"outside_cwd"}
    /\ TimeoutEnabled \in BOOLEAN
    /\ CancelWired \in BOOLEAN
    /\ MaxCrashes \in Nat

VARIABLES
    pending,           \* the calls registered in _pending
    future,            \* the future of each call
    expired,           \* the wait_for timer of a call has fired
    sessionAlways,     \* _session_always
    persistentAlways,  \* _persistent_always
    policyFile,        \* the [always] section of policy.toml
    check,             \* where the check_and_wait coroutine of a call is
    verdict,           \* what check_and_wait returned ("raised": it was cancelled)
    crashes,           \* crashes of the daemon so far
    \* history
    answer,            \* the decision a client delivered to the open future of a call
    givenFile,         \* the policy file before the first start
    saveLost           \* a write of the policy file failed or was cut by a crash

managerState == <<pending, future, expired, sessionAlways, persistentAlways, check, verdict>>
pmVars == <<managerState, policyFile, crashes, answer, givenFile, saveLost>>

CacheKey == Session \X Tool
Key(c) == <<SessionOf[c], ToolOf[c]>>
NoRule == [t \in Tool |-> "none"]

PMTypeOK ==
    /\ pending \subseteq Call
    /\ future \in [Call -> {"none", "open", "cancelled"} \cup Decision]
    /\ expired \in [Call -> BOOLEAN]
    /\ sessionAlways \in [CacheKey -> Rule]
    /\ persistentAlways \in [Tool -> Rule]
    /\ policyFile \in [Tool -> Rule]
    /\ check \in [Call -> {"idle", "emitting", "waiting", "returned"}]
    /\ verdict \in [Call -> Verdict]
    /\ crashes \in 0..MaxCrashes
    /\ answer \in [Call -> {"none"} \cup Decision]
    /\ givenFile \in [Tool -> Rule]
    /\ saveLost \in BOOLEAN

\* __init__ loads whatever the policy file holds.
PMInit ==
    /\ pending = {}
    /\ future = [c \in Call |-> "none"]
    /\ expired = [c \in Call |-> FALSE]
    /\ sessionAlways = [k \in CacheKey |-> "none"]
    /\ policyFile \in [Tool -> Rule]
    /\ persistentAlways = policyFile
    /\ check = [c \in Call |-> "idle"]
    /\ verdict = [c \in Call |-> "none"]
    /\ crashes = 0
    /\ answer = [c \in Call |-> "none"]
    /\ givenFile = policyFile
    /\ saveLost = FALSE

----------------------------------------------------------------------------
\* The tiers of check_and_wait, in the order of its early returns.

AutoRule(rule) == IF rule = "allow" THEN "auto_allow" ELSE "auto_deny"

StaticVerdictCacheFirst(c) ==
    IF sessionAlways[Key(c)] # "none" THEN AutoRule(sessionAlways[Key(c)])
    ELSE IF persistentAlways[ToolOf[c]] # "none" THEN AutoRule(persistentAlways[ToolOf[c]])
    ELSE IF "deny_pattern" \in Matches[c] THEN "auto_deny"
    ELSE IF "outside_cwd" \in Matches[c] THEN "ask"
    ELSE IF "allow_pattern" \in Matches[c] THEN "auto_allow"
    ELSE IF Default[ToolOf[c]] \in {"allow", "deny"} THEN AutoRule(Default[ToolOf[c]])
    ELSE "ask"

StaticVerdict(c) ==
    IF "deny_pattern" \in Matches[c] THEN "auto_deny"
    ELSE IF "outside_cwd" \in Matches[c] THEN "ask"
    ELSE IF sessionAlways[Key(c)] # "none" THEN AutoRule(sessionAlways[Key(c)])
    ELSE IF persistentAlways[ToolOf[c]] # "none" THEN AutoRule(persistentAlways[ToolOf[c]])
    ELSE IF "allow_pattern" \in Matches[c] THEN "auto_allow"
    ELSE IF Default[ToolOf[c]] \in {"allow", "deny"} THEN AutoRule(Default[ToolOf[c]])
    ELSE "ask"

\* check_and_wait returns from its static tiers without suspending.
CheckDecides(c) ==
    /\ check[c] = "idle"
    /\ StaticVerdict(c) # "ask"
    /\ check' = [check EXCEPT ![c] = "returned"]
    /\ verdict' = [verdict EXCEPT ![c] = StaticVerdict(c)]
    /\ UNCHANGED <<pending, future, expired, sessionAlways, persistentAlways,
                   policyFile, crashes, answer, givenFile, saveLost>>

\* check_and_wait registers the request, then suspends publishing it.
CheckAsks(c) ==
    /\ check[c] = "idle"
    /\ StaticVerdict(c) = "ask"
    /\ pending' = pending \cup {c}
    /\ future' = [future EXCEPT ![c] = "open"]
    /\ check' = [check EXCEPT ![c] = "emitting"]
    /\ UNCHANGED <<expired, sessionAlways, persistentAlways, verdict,
                   policyFile, crashes, answer, givenFile, saveLost>>

\* The event is out and nobody has answered yet: wait on the future.
RequestPublished(c) ==
    /\ check[c] = "emitting"
    /\ future[c] = "open"
    /\ check' = [check EXCEPT ![c] = "waiting"]
    /\ UNCHANGED <<pending, future, expired, sessionAlways, persistentAlways, verdict,
                   policyFile, crashes, answer, givenFile, saveLost>>

Returns(c, v) ==
    /\ check' = [check EXCEPT ![c] = "returned"]
    /\ verdict' = [verdict EXCEPT ![c] = v]

RuleOf(d) == IF d = "always_allow" THEN "allow" ELSE "deny"

ApplyResponseSavesFirst(c) ==
    LET d == future[c] IN
    /\ Returns(c, d)
    /\ IF d \in Standing
       THEN /\ sessionAlways' = [sessionAlways EXCEPT ![Key(c)] = RuleOf(d)]
            /\ persistentAlways' = [persistentAlways EXCEPT ![ToolOf[c]] = RuleOf(d)]
            /\ policyFile' = persistentAlways /\ saveLost' = FALSE
       ELSE UNCHANGED <<sessionAlways, persistentAlways, policyFile, saveLost>>
    /\ UNCHANGED <<pending, future, expired, crashes, answer, givenFile>>

\* _apply_response: a standing decision enters both caches and is saved; a
\* write that fails, before or after it truncated the file, is only logged.
ApplyResponse(c) ==
    LET d == future[c] IN
    /\ Returns(c, d)
    /\ IF d \in Standing
       THEN /\ sessionAlways' = [sessionAlways EXCEPT ![Key(c)] = RuleOf(d)]
            /\ persistentAlways' = [persistentAlways EXCEPT ![ToolOf[c]] = RuleOf(d)]
            /\ \/ policyFile' = persistentAlways' /\ saveLost' = FALSE
               \/ policyFile' \in {policyFile, NoRule} /\ saveLost' = TRUE
       ELSE UNCHANGED <<sessionAlways, persistentAlways, policyFile, saveLost>>
    /\ UNCHANGED <<pending, future, expired, crashes, answer, givenFile>>

\* Awaiting a future that is done does not suspend, and starts no timer.
AnsweredWhilePublishing(c) ==
    /\ check[c] = "emitting"
    /\ future[c] \in Decision
    /\ ApplyResponse(c)

\* The future was resolved and its task runs before its timer.
ResumeAnswered(c) ==
    /\ check[c] = "waiting"
    /\ future[c] \in Decision
    /\ ~expired[c]
    /\ ApplyResponse(c)

\* wait_for's timer callback cancels the task: an open future is cancelled,
\* a resolved one stays resolved but its result will not be delivered.
TimerFires(c) ==
    /\ TimeoutEnabled
    /\ check[c] = "waiting"
    /\ ~expired[c]
    /\ expired' = [expired EXCEPT ![c] = TRUE]
    /\ future' = [future EXCEPT ![c] = IF @ = "open" THEN "cancelled" ELSE @]
    /\ UNCHANGED <<pending, sessionAlways, persistentAlways, check, verdict,
                   policyFile, crashes, answer, givenFile, saveLost>>

ResumeTimedOutIfPending(c) ==
    /\ check[c] = "waiting"
    /\ expired[c]
    /\ c \in pending
    /\ pending' = pending \ {c}
    /\ Returns(c, "timeout")
    /\ UNCHANGED <<future, expired, sessionAlways, persistentAlways,
                   policyFile, crashes, answer, givenFile, saveLost>>

ResumeTimedOutLeaky(c) ==
    /\ check[c] = "waiting"
    /\ expired[c]
    /\ Returns(c, "timeout")
    /\ UNCHANGED <<pending, future, expired, sessionAlways, persistentAlways,
                   policyFile, crashes, answer, givenFile, saveLost>>

\* except asyncio.TimeoutError: drop the entry, if it is still there, and refuse.
ResumeTimedOut(c) ==
    /\ check[c] = "waiting"
    /\ expired[c]
    /\ pending' = pending \ {c}
    /\ Returns(c, "timeout")
    /\ UNCHANGED <<future, expired, sessionAlways, persistentAlways,
                   policyFile, crashes, answer, givenFile, saveLost>>

\* The task of the call is cancelled from outside while it publishes or waits.
\* Only TimeoutError is caught, so the entry stays in _pending.
CancelCheck(c) ==
    /\ check[c] \in {"emitting", "waiting"}
    /\ future' = [future EXCEPT ![c] = IF @ = "open" /\ check[c] = "waiting"
                                       THEN "cancelled" ELSE @]
    /\ Returns(c, "raised")
    /\ UNCHANGED <<pending, expired, sessionAlways, persistentAlways,
                   policyFile, crashes, answer, givenFile, saveLost>>

----------------------------------------------------------------------------
\* respond and cancel_session run in the handler of another request.

\* respond takes the entry out and resolves its future if that is still open.
\* (An unknown tool_use_id changes nothing.)
Respond(c, d) ==
    /\ c \in pending
    /\ pending' = pending \ {c}
    /\ IF future[c] = "open"
       THEN /\ future' = [future EXCEPT ![c] = d]
            /\ answer' = [answer EXCEPT ![c] = d]
       ELSE UNCHANGED <<future, answer>>
    /\ UNCHANGED <<expired, sessionAlways, persistentAlways, check, verdict,
                   policyFile, crashes, givenFile, saveLost>>

CancelSessionAnyFuture(s) ==
    LET dropped == {c \in Call : SessionOf[c] = s /\ check[c] = "waiting"} IN
    /\ CancelWired
    /\ dropped # {}
    /\ pending' = pending \ dropped
    /\ future' = [c \in Call |-> IF c \in dropped THEN "deny_once" ELSE future[c]]
    /\ UNCHANGED <<expired, sessionAlways, persistentAlways, check, verdict,
                   policyFile, crashes, answer, givenFile, saveLost>>

\* cancel_session refuses every pending request of a session.
CancelSession(s) ==
    LET dropped == {c \in pending : SessionOf[c] = s} IN
    /\ CancelWired
    /\ dropped # {}
    /\ pending' = pending \ dropped
    /\ future' = [c \in Call |-> IF c \in dropped /\ future[c] = "open"
                                 THEN "deny_once" ELSE future[c]]
    /\ UNCHANGED <<expired, sessionAlways, persistentAlways, check, verdict,
                   policyFile, crashes, answer, givenFile, saveLost>>

\* The daemon dies and a new one loads the policy file. Dying inside
\* save_policy_file, which truncates the file before it writes, leaves it empty.
Saving(c) ==
    /\ future[c] \in Standing
    /\ check[c] = "emitting" \/ (check[c] = "waiting" /\ ~expired[c])

Crash ==
    /\ crashes < MaxCrashes
    /\ crashes' = crashes + 1
    /\ \/ UNCHANGED <<policyFile, saveLost>>
       \/ /\ \E c \in Call : Saving(c)
          /\ policyFile' = NoRule
          /\ saveLost' = TRUE
    /\ persistentAlways' = policyFile'
    /\ sessionAlways' = [k \in CacheKey |-> "none"]
    /\ pending' = {}
    /\ future' = [c \in Call |-> IF future[c] = "open" THEN "cancelled" ELSE future[c]]
    /\ check' = [c \in Call |-> IF check[c] = "idle" THEN "idle" ELSE "returned"]
    /\ verdict' = [c \in Call |-> IF check[c] \in {"emitting", "waiting"}
                                  THEN "raised" ELSE verdict[c]]
    /\ UNCHANGED <<expired, answer, givenFile>>
=============================================================================
