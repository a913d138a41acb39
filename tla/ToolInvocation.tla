--------------------------- MODULE ToolInvocation ---------------------------
(***************************************************************************)
(* core/tools/invocation.py: invoke_tool, one coroutine per tool call,     *)
(* over the PermissionManager it asks for permission.                      *)
(*                                                                         *)
(* Many calls are in flight at once: one per session's run and one per     *)
(* foreground or background subagent.  What a tool does is its outcome:    *)
(* it succeeds, fails with an error class that is retried or one that is   *)
(* not, or outlives wait_for's 120 seconds.                                *)
(***************************************************************************)
EXTENDS PermissionManager

CONSTANT MaxRetries   \* _MAX_RETRIES

ASSUME RetryAssumption == MaxRetries \in Nat

VARIABLES
    pc,        \* where the invoke_tool coroutine of a call is
    attempt,   \* the loop variable: 0 before the loop
    result,    \* the ToolResult returned, by class; "lost" if it was cancelled or died
    execs,     \* history: times tool.invoke was called
    connected  \* some client is connected that can answer

vars == <<pmVars, pc, attempt, result, execs, connected>>

Location == {"idle", "starting", "checking", "announcing", "refusing",
             "running", "backoff", "over"}
\* "rejected": unknown tool or schema_error; "failed": any error class of a run.
Result   == {"none", "ok", "rejected", "permission_denied", "failed", "lost"}

TypeOK ==
    /\ PMTypeOK
    /\ pc \in [Call -> Location]
    /\ attempt \in [Call -> 0..(MaxRetries + 1)]
    /\ result \in [Call -> Result]
    /\ execs \in [Call -> 0..(MaxRetries + 1)]
    /\ connected \in BOOLEAN

Init ==
    /\ PMInit
    /\ pc = [c \in Call |-> "idle"]
    /\ attempt = [c \in Call |-> 0]
    /\ result = [c \in Call |-> "none"]
    /\ execs = [c \in Call |-> 0]
    /\ connected = TRUE

----------------------------------------------------------------------------
Goto(c, l) == pc' = [pc EXCEPT ![c] = l]

Finish(c, r) ==
    /\ Goto(c, "over")
    /\ result' = [result EXCEPT ![c] = r]
    /\ UNCHANGED <<attempt, execs>>

\* Entering the retry loop, and each round of it, calls tool.invoke.
Execute(c, n) ==
    /\ Goto(c, "running")
    /\ attempt' = [attempt EXCEPT ![c] = n]
    /\ execs' = [execs EXCEPT ![c] = @ + 1]
    /\ UNCHANGED result

\* The agent loop invokes the tool: tool.call_started is published.
Start(c) ==
    /\ pc[c] = "idle"
    /\ Goto(c, "starting")
    /\ UNCHANGED <<pmVars, attempt, result, execs, connected>>

\* The name is not in the registry, or the params do not validate.
Reject(c) ==
    /\ pc[c] = "starting"
    /\ Finish(c, "rejected")
    /\ UNCHANGED <<pmVars, connected>>

\* check_and_wait decided without asking: no permission event is published.
AutoAllowed(c) ==
    /\ pc[c] = "starting"
    /\ CheckDecides(c)
    /\ verdict'[c] = "auto_allow"
    /\ Execute(c, 1)
    /\ UNCHANGED connected

AutoDenied(c) ==
    /\ pc[c] = "starting"
    /\ CheckDecides(c)
    /\ verdict'[c] = "auto_deny"
    /\ Finish(c, "permission_denied")
    /\ UNCHANGED connected

Ask(c) ==
    /\ pc[c] = "starting"
    /\ CheckAsks(c)
    /\ Goto(c, "checking")
    /\ UNCHANGED <<attempt, result, execs, connected>>

Wait(c) ==
    /\ pc[c] = "checking"
    /\ RequestPublished(c)
    /\ UNCHANGED <<pc, attempt, result, execs, connected>>

AllowsRunUnlessRefused(v) == v \notin Refusing

AllowsRun(v) == v \in Allowing

\* check_and_wait returned a decision: it is published before it is acted on.
Decided(c) ==
    /\ pc[c] = "checking"
    /\ AnsweredWhilePublishing(c) \/ ResumeAnswered(c) \/ ResumeTimedOut(c)
    /\ Goto(c, IF AllowsRun(verdict'[c]) THEN "announcing" ELSE "refusing")
    /\ UNCHANGED <<attempt, result, execs, connected>>

\* permission.granted is out.
Granted(c) ==
    /\ pc[c] = "announcing"
    /\ Execute(c, 1)
    /\ UNCHANGED <<pmVars, connected>>

\* permission.denied is out: fail with permission_denied.
Denied(c) ==
    /\ pc[c] = "refusing"
    /\ Finish(c, "permission_denied")
    /\ UNCHANGED <<pmVars, connected>>

\* The tool answered, or wait_for gave up on it. Timeouts and error classes
\* outside _RETRYABLE end the call.
RunEnds(c) ==
    /\ pc[c] = "running"
    /\ \E r \in {"ok", "failed"} : Finish(c, r)
    /\ UNCHANGED <<pmVars, connected>>

RunFailsOnceMore(c) ==
    /\ pc[c] = "running"
    /\ IF attempt[c] <= MaxRetries + 1
       THEN Goto(c, "backoff") /\ UNCHANGED <<attempt, result, execs>>
       ELSE Finish(c, "failed")
    /\ UNCHANGED <<pmVars, connected>>

\* A runtime_error or rate_limited failure: publish tool.call_failed and sleep,
\* unless this was the last attempt.
RunFails(c) ==
    /\ pc[c] = "running"
    /\ IF attempt[c] <= MaxRetries
       THEN Goto(c, "backoff") /\ UNCHANGED <<attempt, result, execs>>
       ELSE Finish(c, "failed")
    /\ UNCHANGED <<pmVars, connected>>

\* The next round of the loop. The permission given to the call still stands:
\* it is not asked for again.
Retry(c) ==
    /\ pc[c] = "backoff"
    /\ Execute(c, attempt[c] + 1)
    /\ UNCHANGED <<pmVars, connected>>

\* The task is cancelled: the daemon stops, or a subagent's parent call times out.
Cancel(c) ==
    /\ pc[c] \notin {"idle", "over"}
    /\ IF pc[c] = "checking" THEN CancelCheck(c) ELSE UNCHANGED pmVars
    /\ Finish(c, "lost")
    /\ UNCHANGED connected

----------------------------------------------------------------------------
\* The rest of the daemon, its clients and the clock.

TimerExpires(c) ==
    /\ TimerFires(c)
    /\ UNCHANGED <<pc, attempt, result, execs, connected>>

ClientResponds(c, d) ==
    /\ connected
    /\ Respond(c, d)
    /\ UNCHANGED <<pc, attempt, result, execs, connected>>

\* The connection of the last client ends.
Disconnect ==
    /\ connected
    /\ connected' = FALSE
    /\ UNCHANGED <<pmVars, pc, attempt, result, execs>>

SessionCancelled(s) ==
    /\ ~connected
    /\ CancelSession(s)
    /\ UNCHANGED <<pc, attempt, result, execs, connected>>

\* Another daemon process takes over; clients connect to it.
Restart ==
    /\ Crash
    /\ pc' = [c \in Call |-> IF pc[c] = "idle" THEN "idle" ELSE "over"]
    /\ result' = [c \in Call |-> IF pc[c] \in {"idle", "over"} THEN result[c] ELSE "lost"]
    /\ connected' = TRUE
    /\ UNCHANGED <<attempt, execs>>

\* The steps of the call's own coroutine.
CallStep(c) ==
    \/ Reject(c) \/ AutoAllowed(c) \/ AutoDenied(c) \/ Ask(c)
    \/ Wait(c) \/ Decided(c) \/ Granted(c) \/ Denied(c)
    \/ RunEnds(c) \/ RunFails(c) \/ Retry(c)

Next ==
    \/ \E c \in Call :
         \/ Start(c) \/ CallStep(c) \/ Cancel(c) \/ TimerExpires(c)
         \/ \E d \in Decision : ClientResponds(c, d)
    \/ \E s \in Session : SessionCancelled(s)
    \/ Disconnect
    \/ Restart

Spec == Init /\ [][Next]_vars

\* The event loop runs every coroutine that is ready and every timer that is
\* due, wait_for bounds every tool, and a publish ends because a client reads
\* its socket or leaves. Nobody is obliged to answer, cancel, leave or restart.
Fairness ==
    \A c \in Call : WF_vars(CallStep(c)) /\ WF_vars(TimerExpires(c))

\* Once connections end, whoever is wired to cancel_session calls it.
CancelFairness == \A s \in Session : WF_vars(SessionCancelled(s))

FairSpec == Spec /\ Fairness /\ CancelFairness
----------------------------------------------------------------------------
(* Properties *)

\* A client allowed the tool for good, by an answer that was applied, or the
\* policy file said so before the first start.
StandingAllow(t) ==
    \/ givenFile[t] = "allow"
    \/ \E d \in Call : ToolOf[d] = t /\ answer[d] = "always_allow" /\ verdict[d] = "always_allow"

\* Who may run: never a call that matches a deny pattern or that its user
\* refused; one that leaves the working directory only on its own approval,
\* whatever the caches hold; any other on its own approval, a standing one or
\* the tool's policy.
Authorised(c) ==
    /\ "deny_pattern" \notin Matches[c]
    /\ answer[c] \notin Refusing
    /\ \/ answer[c] \in Allowing
       \/ /\ "outside_cwd" \notin Matches[c]
          /\ \/ StandingAllow(ToolOf[c])
             \/ "allow_pattern" \in Matches[c]
             \/ Default[ToolOf[c]] = "allow"

\* Safety: a tool body is entered (invocation.py's wait_for(tool.invoke)) only
\* by an authorised call, whatever other calls, timers, crashes and cached
\* rules did in between, and never after its request timed out.
ExecutionAuthorised ==
    \A c \in Call : execs[c] > 0 => Authorised(c) /\ verdict[c] \notin {"timeout", "raised"}

\* Safety: every rule in the caches of check_and_wait is one that some client
\* gave by an answer that was applied (in that session, for the session
\* cache), or that the first policy file held. An answer that lost against
\* its timer or a cancellation never becomes a rule.
GaveRule(c, r) ==
    /\ verdict[c] = answer[c]
    /\ answer[c] = IF r = "allow" THEN "always_allow" ELSE "always_deny"

CacheJustified ==
    /\ \A t \in Tool : persistentAlways[t] # "none" =>
         \/ givenFile[t] = persistentAlways[t]
         \/ \E c \in Call : ToolOf[c] = t /\ GaveRule(c, persistentAlways[t])
    /\ \A k \in CacheKey : sessionAlways[k] # "none" =>
         \E c \in Call : Key(c) = k /\ GaveRule(c, sessionAlways[k])

\* Safety: a request whose future is open can be answered, and _pending holds
\* nothing else than live requests, timed-out ones about to be dropped, and
\* those of tasks that were cancelled (check_and_wait drops an entry only on a
\* timeout).
PendingMatchesWaiters ==
    \A c \in Call :
        /\ check[c] \in {"emitting", "waiting"} /\ future[c] = "open" => c \in pending
        /\ c \in pending => \/ check[c] \in {"emitting", "waiting"} /\ future[c] = "open"
                            \/ check[c] = "waiting" /\ expired[c]
                            \/ verdict[c] = "raised"

\* Safety: the answer a client gave is the decision check_and_wait returns,
\* unless the timer fired before the task ran again, or the task was cancelled
\* or lost: neither other answers nor cancel_session can replace it.
AnswerHonoured ==
    \A c \in Call :
        answer[c] # "none" /\ check[c] = "returned" =>
            verdict[c] = answer[c] \/ expired[c] \/ verdict[c] = "raised"

\* Safety: as long as no write of the policy file failed, a crash at any moment
\* loses no rule: the file is what the memory of the daemon holds.
FileTracksMemory == ~saveLost => policyFile = persistentAlways

\* Refinement: seen from outside, calls obey PermissionGate.
permitOf ==
    [c \in Call |-> IF pc[c] \in {"idle", "starting"} THEN "none"
                    ELSE IF pc[c] = "checking" THEN "asked"
                    ELSE IF pc[c] \in {"announcing", "running", "backoff"} THEN "held"
                    ELSE "gone"]

Gate == INSTANCE PermissionGate
          WITH permit <- permitOf, reply <- answer, runs <- execs, Limit <- MaxRetries + 1

ImplementsGate == Gate!Spec

\* Liveness, with a permission timeout: every started call returns to its agent
\* loop, even if no client ever answers.
EveryCallReturns == \A c \in Call : pc[c] = "starting" ~> pc[c] = "over"

\* Liveness, as manager.py's comment on cancel_session has it: once the clients
\* are gone, a pending request is refused and does not hang for ever.
DisconnectReleases == \A c \in Call : pc[c] = "checking" /\ ~connected ~> pc[c] # "checking" \/ connected

----------------------------------------------------------------------------
(* The inductive invariant behind the safety properties *)

\* Where the two coroutines of a call stand, and what it has run so far.
ControlInv(c) ==
    /\ pc[c] \in {"idle", "starting"} => check[c] = "idle"
    /\ pc[c] = "checking" <=> check[c] \in {"emitting", "waiting"}
    /\ pc[c] = "announcing" => verdict[c] \in Allowing
    /\ pc[c] \in {"running", "backoff"} =>
          attempt[c] = execs[c] /\ verdict[c] \in Allowing \cup {"auto_allow"}
    /\ pc[c] = "backoff" => attempt[c] <= MaxRetries
    /\ pc[c] \in {"idle", "starting", "checking", "announcing", "refusing"} => execs[c] = 0
    /\ execs[c] > 0 => verdict[c] \in Allowing \cup {"auto_allow"}
    /\ check[c] = "returned" <=> verdict[c] # "none"

\* The life of a request: registered and open, then resolved or cancelled.
RequestInv(c) ==
    /\ check[c] = "idle" => future[c] = "none" /\ ~expired[c]
    /\ future[c] = "none" => c \notin pending /\ answer[c] = "none"
    /\ future[c] # "none" => "deny_pattern" \notin Matches[c]
    /\ check[c] = "emitting" => ~expired[c]
    /\ check[c] \in {"emitting", "waiting"} =>
          IF expired[c] THEN future[c] \in {"cancelled"} \cup Decision
                        ELSE future[c] \in {"open"} \cup Decision
    /\ check[c] \in {"emitting", "waiting"} /\ future[c] = "open" => c \in pending
    /\ c \in pending => future[c] \in {"open", "cancelled"}
    /\ check[c] = "returned" /\ c \in pending => verdict[c] = "raised"
    /\ answer[c] # "none" => future[c] = answer[c]
    /\ future[c] \in Decision => answer[c] = future[c] \/ (answer[c] = "none" /\ future[c] = "deny_once")

\* What a verdict says about the request it ended.
VerdictInv(c) ==
    /\ verdict[c] \in Decision => future[c] = verdict[c]
    /\ verdict[c] \in {"auto_allow", "auto_deny"} => future[c] = "none"
    /\ verdict[c] = "timeout" => expired[c]
    /\ verdict[c] = "auto_allow" => Authorised(c)

FileJustified ==
    \A t \in Tool : policyFile[t] # "none" =>
        \/ givenFile[t] = policyFile[t]
        \/ \E c \in Call : ToolOf[c] = t /\ GaveRule(c, policyFile[t])

IInv ==
    /\ TypeOK
    /\ \A c \in Call : ControlInv(c) /\ RequestInv(c) /\ VerdictInv(c)
    /\ CacheJustified
    /\ FileJustified
=============================================================================
