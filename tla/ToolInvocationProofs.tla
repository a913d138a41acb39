------------------------ MODULE ToolInvocationProofs ------------------------
(***************************************************************************)
(* Theorems about ToolInvocation for any calls, sessions, tools, patterns, *)
(* policies and number of retries and crashes.                             *)
(***************************************************************************)
EXTENDS ToolInvocation, TLAPS

USE CallAssumption, RetryAssumption DEF Allowing, Refusing, Decision, Rule

\* The state and constants a verdict or a rule is made of keep their types.
LEMMA KeyType == \A c \in Call : Key(c) \in CacheKey /\ ToolOf[c] \in Tool
  BY DEF Key, CacheKey

LEMMA StaticVerdictType ==
  ASSUME PMTypeOK, NEW c \in Call
  PROVE  StaticVerdict(c) \in {"auto_allow", "auto_deny", "ask"}
  BY DEF StaticVerdict, AutoRule

\* Initial states are well typed.
LEMMA InitType == Init => TypeOK
  <1> SUFFICES ASSUME Init PROVE TypeOK
    OBVIOUS
  <1>1. saveLost \in BOOLEAN /\ connected \in BOOLEAN
    BY Zenon DEF Init, PMInit
  <1>. QED
    BY <1>1 DEF Init, PMInit, TypeOK, PMTypeOK, Location, Result, Verdict

\* Every operation of the PermissionManager keeps its types.
LEMMA ManagerTypeStep ==
  ASSUME PMTypeOK, NEW c \in Call
  PROVE  /\ CheckDecides(c) => PMTypeOK'
         /\ CheckAsks(c) => PMTypeOK'
         /\ RequestPublished(c) => PMTypeOK'
         /\ ResumeTimedOut(c) => PMTypeOK'
         /\ TimerFires(c) => PMTypeOK'
         /\ CancelCheck(c) => PMTypeOK'
         /\ \A d \in Decision : Respond(c, d) => PMTypeOK'
  <1> USE DEF PMTypeOK, Verdict
  <1>1. CheckDecides(c) => PMTypeOK'
    BY StaticVerdictType DEF CheckDecides
  <1>2. CheckAsks(c) => PMTypeOK'
    BY DEF CheckAsks
  <1>3. RequestPublished(c) => PMTypeOK'
    BY DEF RequestPublished
  <1>4. ResumeTimedOut(c) => PMTypeOK'
    BY DEF ResumeTimedOut, Returns
  <1>5. TimerFires(c) => PMTypeOK'
    BY DEF TimerFires
  <1>6. CancelCheck(c) => PMTypeOK'
    BY DEF CancelCheck, Returns
  <1>7. \A d \in Decision : Respond(c, d) => PMTypeOK'
    BY DEF Respond
  <1>. QED
    BY <1>1, <1>2, <1>3, <1>4, <1>5, <1>6, <1>7

LEMMA DaemonTypeStep ==
  ASSUME PMTypeOK
  PROVE  /\ \A s \in Session : CancelSession(s) => PMTypeOK'
         /\ Crash => PMTypeOK'
         /\ UNCHANGED pmVars => PMTypeOK'
  <1> USE DEF PMTypeOK, Verdict
  <1>1. \A s \in Session : CancelSession(s) => PMTypeOK'
    BY DEF CancelSession
  <1>2. Crash => PMTypeOK'
    <2> SUFFICES ASSUME Crash PROVE PMTypeOK'
      OBVIOUS
    <2>1. saveLost' \in BOOLEAN
      BY Zenon DEF Crash
    <2>. QED
      BY <2>1 DEF Crash, NoRule
  <1>3. UNCHANGED pmVars => PMTypeOK'
    BY DEF pmVars, managerState
  <1>. QED
    BY <1>1, <1>2, <1>3

\* _apply_response of a delivered decision keeps the types of the caches.
LEMMA ApplyTypeStep ==
  ASSUME PMTypeOK, NEW c \in Call, future[c] \in Decision, ApplyResponse(c)
  PROVE  PMTypeOK'
  <1>1. saveLost' \in BOOLEAN
    BY Zenon DEF ApplyResponse, PMTypeOK
  <1>2. NoRule \in [Tool -> Rule]
    BY DEF NoRule, Rule
  <1>3. /\ sessionAlways' \in [CacheKey -> Rule]
        /\ persistentAlways' \in [Tool -> Rule]
    BY KeyType DEF PMTypeOK, ApplyResponse, RuleOf, Rule
  <1>4. policyFile' \in [Tool -> Rule]
    BY <1>2, <1>3 DEF PMTypeOK, ApplyResponse
  <1>. QED
    BY <1>1, <1>3, <1>4 DEF PMTypeOK, Verdict, ApplyResponse, Returns
----------------------------------------------------------------------------
\* What a call has been told, and what its user answered, never changes.
HistoryKept(e) ==
    /\ verdict[e] # "none" => verdict'[e] = verdict[e]
    /\ verdict[e] # "none" /\ future[e] = "none" => answer'[e] = answer[e]
    /\ answer[e] # "none" => answer'[e] = answer[e]

\* The part of VerdictInv that does not look at other calls.
VerdictCore(c) ==
    /\ verdict[c] \in Decision => future[c] = verdict[c]
    /\ verdict[c] \in {"auto_allow", "auto_deny"} => future[c] = "none"
    /\ verdict[c] = "timeout" => expired[c]

CallInv(c) == ControlInv(c) /\ RequestInv(c) /\ VerdictCore(c)

\* Every step keeps the invariants of each call by itself.
LEMMA CallStepInv ==
  ASSUME TypeOK, \A c \in Call : CallInv(c), [Next]_vars, NEW e \in Call
  PROVE  CallInv(e)' /\ HistoryKept(e)
  <1> USE DEF CallInv, ControlInv, RequestInv, VerdictCore, HistoryKept, TypeOK, PMTypeOK, Verdict, Location
  <1>1. ASSUME NEW c \in Call, Start(c)
        PROVE  CallInv(e)' /\ HistoryKept(e)
    BY <1>1 DEF Start, Goto, pmVars, managerState
  <1>2. ASSUME NEW c \in Call, Reject(c)
        PROVE  CallInv(e)' /\ HistoryKept(e)
    BY <1>2 DEF Reject, Finish, Goto, pmVars, managerState
  <1>3. ASSUME NEW c \in Call, AutoAllowed(c)
        PROVE  CallInv(e)' /\ HistoryKept(e)
    BY <1>3, StaticVerdictType DEF AutoAllowed, CheckDecides, Execute, Goto
  <1>4. ASSUME NEW c \in Call, AutoDenied(c)
        PROVE  CallInv(e)' /\ HistoryKept(e)
    BY <1>4, StaticVerdictType DEF AutoDenied, CheckDecides, Finish, Goto
  <1>5. ASSUME NEW c \in Call, Ask(c)
        PROVE  CallInv(e)' /\ HistoryKept(e)
    BY <1>5 DEF Ask, CheckAsks, Goto, StaticVerdict, AutoRule
  <1>6. ASSUME NEW c \in Call, Wait(c)
        PROVE  CallInv(e)' /\ HistoryKept(e)
    BY <1>6 DEF Wait, RequestPublished
  <1>7. ASSUME NEW c \in Call, Granted(c)
        PROVE  CallInv(e)' /\ HistoryKept(e)
    BY <1>7 DEF Granted, Execute, Goto, pmVars, managerState
  <1>8. ASSUME NEW c \in Call, Denied(c)
        PROVE  CallInv(e)' /\ HistoryKept(e)
    BY <1>8 DEF Denied, Finish, Goto, pmVars, managerState
  <1>9. ASSUME NEW c \in Call, RunEnds(c)
        PROVE  CallInv(e)' /\ HistoryKept(e)
    BY <1>9 DEF RunEnds, Finish, Goto, pmVars, managerState
  <1>10. ASSUME NEW c \in Call, RunFails(c)
        PROVE  CallInv(e)' /\ HistoryKept(e)
    BY <1>10 DEF RunFails, Finish, Goto, pmVars, managerState
  <1>11. ASSUME NEW c \in Call, Retry(c)
        PROVE  CallInv(e)' /\ HistoryKept(e)
    BY <1>11 DEF Retry, Execute, Goto, pmVars, managerState
  <1>12. ASSUME NEW c \in Call, TimerExpires(c)
        PROVE  CallInv(e)' /\ HistoryKept(e)
    BY <1>12 DEF TimerExpires, TimerFires
  <1>13. ASSUME NEW c \in Call, NEW d \in Decision, ClientResponds(c, d)
        PROVE  CallInv(e)' /\ HistoryKept(e)
    BY <1>13 DEF ClientResponds, Respond
  <1>14. ASSUME NEW s \in Session, SessionCancelled(s)
        PROVE  CallInv(e)' /\ HistoryKept(e)
    BY <1>14 DEF SessionCancelled, CancelSession
  <1>15. ASSUME Disconnect
        PROVE  CallInv(e)' /\ HistoryKept(e)
    BY <1>15 DEF Disconnect, pmVars, managerState
  <1>16. ASSUME Restart
        PROVE  CallInv(e)' /\ HistoryKept(e)
    BY <1>16 DEF Restart, Crash
  <1>17. ASSUME NEW c \in Call, Decided(c)
        PROVE  CallInv(e)' /\ HistoryKept(e)
    <2>1. CASE AnsweredWhilePublishing(c)
      BY <1>17, <2>1 DEF Decided, AnsweredWhilePublishing, ApplyResponse, Returns, Goto, AllowsRun
    <2>2. CASE ResumeAnswered(c)
      BY <1>17, <2>2 DEF Decided, ResumeAnswered, ApplyResponse, Returns, Goto, AllowsRun
    <2>3. CASE ResumeTimedOut(c)
      BY <1>17, <2>3 DEF Decided, ResumeTimedOut, Returns, Goto, AllowsRun
    <2>. QED
      BY <1>17, <2>1, <2>2, <2>3 DEF Decided
  <1>18. ASSUME NEW c \in Call, Cancel(c)
        PROVE  CallInv(e)' /\ HistoryKept(e)
    <2>1. CASE pc[c] = "checking"
      BY <1>18, <2>1 DEF Cancel, CancelCheck, Returns, Finish, Goto
    <2>2. CASE pc[c] # "checking"
      BY <1>18, <2>2 DEF Cancel, Finish, Goto, pmVars, managerState
    <2>. QED
      BY <2>1, <2>2
  <1>19. CASE UNCHANGED vars
    BY <1>19 DEF vars, pmVars, managerState
  <1>. QED
    BY Zenon, <1>1, <1>2, <1>3, <1>4, <1>5, <1>6, <1>7, <1>8, <1>9, <1>10, <1>11, <1>12, <1>13, <1>14, <1>15, <1>16, <1>17, <1>18, <1>19 DEF Next, CallStep
----------------------------------------------------------------------------
\* Entering a tool body keeps the counters within the retry bound: the number
\* of entries is 0 before the loop and the loop variable within it.
LEMMA TypeStep ==
  ASSUME TypeOK, \A c \in Call : CallInv(c), [Next]_vars
  PROVE  TypeOK'
  <1> USE DEF TypeOK, Location, Result
  <1>1. ASSUME NEW c \in Call, Start(c)
        PROVE  TypeOK'
    <2>1. PMTypeOK'
      BY <1>1, DaemonTypeStep DEF Start
    <2>. QED
      BY <1>1, <2>1 DEF Start, Goto
  <1>2. ASSUME NEW c \in Call, Reject(c)
        PROVE  TypeOK'
    <2>1. PMTypeOK'
      BY <1>2, DaemonTypeStep DEF Reject
    <2>. QED
      BY <1>2, <2>1 DEF Reject, Finish, Goto
  <1>3. ASSUME NEW c \in Call, AutoAllowed(c)
        PROVE  TypeOK'
    <2>1. PMTypeOK'
      BY <1>3, ManagerTypeStep DEF AutoAllowed
    <2>. QED
      BY <1>3, <2>1 DEF AutoAllowed, Execute, Goto, CallInv, ControlInv
  <1>4. ASSUME NEW c \in Call, AutoDenied(c)
        PROVE  TypeOK'
    <2>1. PMTypeOK'
      BY <1>4, ManagerTypeStep DEF AutoDenied
    <2>. QED
      BY <1>4, <2>1 DEF AutoDenied, Finish, Goto
  <1>5. ASSUME NEW c \in Call, Ask(c)
        PROVE  TypeOK'
    <2>1. PMTypeOK'
      BY <1>5, ManagerTypeStep DEF Ask
    <2>. QED
      BY <1>5, <2>1 DEF Ask, Goto, StaticVerdict, AutoRule
  <1>6. ASSUME NEW c \in Call, Wait(c)
        PROVE  TypeOK'
    <2>1. PMTypeOK'
      BY <1>6, ManagerTypeStep DEF Wait
    <2>. QED
      BY <1>6, <2>1 DEF Wait
  <1>7. ASSUME NEW c \in Call, Granted(c)
        PROVE  TypeOK'
    <2>1. PMTypeOK'
      BY <1>7, DaemonTypeStep DEF Granted
    <2>. QED
      BY <1>7, <2>1 DEF Granted, Execute, Goto, CallInv, ControlInv
  <1>8. ASSUME NEW c \in Call, Denied(c)
        PROVE  TypeOK'
    <2>1. PMTypeOK'
      BY <1>8, DaemonTypeStep DEF Denied
    <2>. QED
      BY <1>8, <2>1 DEF Denied, Finish, Goto
  <1>9. ASSUME NEW c \in Call, RunEnds(c)
        PROVE  TypeOK'
    <2>1. PMTypeOK'
      BY <1>9, DaemonTypeStep DEF RunEnds
    <2>. QED
      BY <1>9, <2>1 DEF RunEnds, Finish, Goto
  <1>10. ASSUME NEW c \in Call, RunFails(c)
        PROVE  TypeOK'
    <2>1. PMTypeOK'
      BY <1>10, DaemonTypeStep DEF RunFails
    <2>. QED
      BY <1>10, <2>1 DEF RunFails, Finish, Goto
  <1>11. ASSUME NEW c \in Call, Retry(c)
        PROVE  TypeOK'
    <2>1. PMTypeOK'
      BY <1>11, DaemonTypeStep DEF Retry
    <2>. QED
      BY <1>11, <2>1 DEF Retry, Execute, Goto, CallInv, ControlInv
  <1>12. ASSUME NEW c \in Call, TimerExpires(c)
        PROVE  TypeOK'
    <2>1. PMTypeOK'
      BY <1>12, ManagerTypeStep DEF TimerExpires
    <2>. QED
      BY <1>12, <2>1 DEF TimerExpires
  <1>13. ASSUME NEW c \in Call, NEW d \in Decision, ClientResponds(c, d)
        PROVE  TypeOK'
    <2>1. PMTypeOK'
      BY <1>13, ManagerTypeStep DEF ClientResponds
    <2>. QED
      BY <1>13, <2>1 DEF ClientResponds
  <1>14. ASSUME NEW s \in Session, SessionCancelled(s)
        PROVE  TypeOK'
    <2>1. PMTypeOK'
      BY <1>14, DaemonTypeStep DEF SessionCancelled
    <2>. QED
      BY <1>14, <2>1 DEF SessionCancelled
  <1>15. ASSUME Disconnect
        PROVE  TypeOK'
    <2>1. PMTypeOK'
      BY <1>15, DaemonTypeStep DEF Disconnect
    <2>2. connected' \in BOOLEAN
      BY Zenon, <1>15 DEF Disconnect
    <2>. QED
      BY <1>15, <2>1, <2>2 DEF Disconnect
  <1>16. ASSUME Restart
        PROVE  TypeOK'
    <2>1. PMTypeOK'
      BY <1>16, DaemonTypeStep DEF Restart
    <2>2. connected' \in BOOLEAN
      BY Zenon, <1>16 DEF Restart
    <2>. QED
      BY <1>16, <2>1, <2>2 DEF Restart
  <1>17. ASSUME NEW c \in Call, Decided(c)
        PROVE  TypeOK'
    <2>1. PMTypeOK'
      <3>1. CASE ResumeTimedOut(c)
        BY <3>1, ManagerTypeStep
      <3>2. CASE AnsweredWhilePublishing(c) \/ ResumeAnswered(c)
        BY <3>2, ApplyTypeStep DEF AnsweredWhilePublishing, ResumeAnswered
      <3>. QED
        BY <1>17, <3>1, <3>2 DEF Decided
    <2>. QED
      BY <1>17, <2>1 DEF Decided, Goto
  <1>18. ASSUME NEW c \in Call, Cancel(c)
        PROVE  TypeOK'
    <2>1. PMTypeOK'
      BY <1>18, ManagerTypeStep, DaemonTypeStep DEF Cancel
    <2>. QED
      BY <1>18, <2>1 DEF Cancel, Finish, Goto
  <1>19. CASE UNCHANGED vars
    BY <1>19 DEF vars, pmVars, managerState, PMTypeOK
  <1>. QED
    BY Zenon, <1>1, <1>2, <1>3, <1>4, <1>5, <1>6, <1>7, <1>8, <1>9, <1>10, <1>11, <1>12, <1>13, <1>14, <1>15, <1>16, <1>17, <1>18, <1>19 DEF Next, CallStep

----------------------------------------------------------------------------
\* A rule once given stays given, and so does the authority of a call that was
\* decided without asking.
LEMMA HistoryStable ==
  ASSUME TypeOK, \A c \in Call : CallInv(c), [Next]_vars
  PROVE  /\ \A c \in Call, r \in Rule : GaveRule(c, r) => GaveRule(c, r)'
         /\ givenFile' = givenFile
         /\ \A t \in Tool : StandingAllow(t) => StandingAllow(t)'
         /\ \A c \in Call : verdict[c] = "auto_allow" /\ Authorised(c) => Authorised(c)'
  <1>1. \A e \in Call : HistoryKept(e)
    BY CallStepInv
  <1>2. givenFile' = givenFile
    BY DEF Next, CallStep, vars, pmVars, managerState, Start, Reject, AutoAllowed, CheckDecides,
           AutoDenied, Ask, CheckAsks, Wait, RequestPublished, Decided, AnsweredWhilePublishing,
           ResumeAnswered, ResumeTimedOut, ApplyResponse, Granted, Denied, RunEnds, RunFails, Retry,
           Cancel, CancelCheck, TimerExpires, TimerFires, ClientResponds, Respond,
           SessionCancelled, CancelSession, Disconnect, Restart, Crash
  <1>3. \A c \in Call, r \in Rule : GaveRule(c, r) => GaveRule(c, r)'
    BY <1>1 DEF GaveRule, HistoryKept
  <1>4. \A t \in Tool : StandingAllow(t) => StandingAllow(t)'
    BY <1>1, <1>2 DEF StandingAllow, HistoryKept
  <1>5. \A c \in Call : verdict[c] = "auto_allow" /\ Authorised(c) => Authorised(c)'
    BY <1>1, <1>4 DEF Authorised, HistoryKept, CallInv, VerdictCore
  <1>. QED
    BY <1>2, <1>3, <1>4, <1>5
----------------------------------------------------------------------------
\* What the tiers allow without asking is authorised: the pattern tiers come
\* before the caches, and the caches hold only rules some user gave.
LEMMA StaticAllowAuthorised ==
  ASSUME TypeOK, CacheJustified, NEW c \in Call, CallInv(c),
         check[c] = "idle", StaticVerdict(c) = "auto_allow"
  PROVE  Authorised(c)
  <1> USE DEF TypeOK, PMTypeOK
  <1>1. answer[c] = "none"
    BY DEF CallInv, RequestInv
  <1>2. "deny_pattern" \notin Matches[c] /\ "outside_cwd" \notin Matches[c]
    BY DEF StaticVerdict
  <1>3. CASE sessionAlways[Key(c)] # "none"
    <2>1. sessionAlways[Key(c)] = "allow"
      BY <1>2, <1>3, KeyType DEF StaticVerdict, AutoRule
    <2>2. PICK d \in Call : Key(d) = Key(c) /\ GaveRule(d, "allow")
      BY <2>1, KeyType DEF CacheJustified
    <2>3. ToolOf[d] = ToolOf[c]
      BY <2>2 DEF Key
    <2>. QED
      BY <1>1, <1>2, <2>2, <2>3 DEF Authorised, StandingAllow, GaveRule
  <1>4. CASE sessionAlways[Key(c)] = "none" /\ persistentAlways[ToolOf[c]] # "none"
    <2>1. persistentAlways[ToolOf[c]] = "allow"
      BY <1>2, <1>4, KeyType DEF StaticVerdict, AutoRule
    <2>2. StandingAllow(ToolOf[c])
      BY <2>1, KeyType DEF CacheJustified, StandingAllow, GaveRule
    <2>. QED
      BY <1>1, <1>2, <2>2 DEF Authorised
  <1>5. CASE sessionAlways[Key(c)] = "none" /\ persistentAlways[ToolOf[c]] = "none"
    BY <1>1, <1>2, <1>5 DEF StaticVerdict, AutoRule, Authorised
  <1>. QED
    BY <1>3, <1>4, <1>5

\* A call gets the verdict auto_allow in one kind of step only.
LEMMA AuthorisedStep ==
  ASSUME TypeOK, \A c \in Call : CallInv(c), CacheJustified, [Next]_vars,
         NEW e \in Call, verdict[e] = "auto_allow" => Authorised(e),
         verdict'[e] = "auto_allow"
  PROVE  Authorised(e)'
  <1>1. HistoryKept(e)
    BY CallStepInv
  <1>2. CASE verdict[e] # "none"
    BY <1>1, <1>2, HistoryStable DEF HistoryKept
  <1>3. CASE verdict[e] = "none"
    <2>1. AutoAllowed(e)
      <3> USE <1>3 DEF TypeOK, PMTypeOK
      <3>1. CASE UNCHANGED verdict
        BY <3>1
      <3>2. ASSUME NEW c \in Call, AutoDenied(c)
            PROVE  AutoAllowed(e)
        BY <3>2 DEF AutoDenied, CheckDecides
      <3>3. ASSUME NEW c \in Call, AutoAllowed(c)
            PROVE  AutoAllowed(e)
        BY <3>3 DEF AutoAllowed, CheckDecides
      <3>4. ASSUME NEW c \in Call, Decided(c)
            PROVE  AutoAllowed(e)
        BY <3>4 DEF Decided, AnsweredWhilePublishing, ResumeAnswered, ResumeTimedOut, ApplyResponse, Returns
      <3>5. ASSUME NEW c \in Call, Cancel(c)
            PROVE  AutoAllowed(e)
        <4>1. CASE CancelCheck(c)
          BY <4>1 DEF CancelCheck, Returns
        <4>2. CASE UNCHANGED pmVars
          BY <4>2 DEF pmVars, managerState
        <4>. QED
          BY <3>5, <4>1, <4>2 DEF Cancel
      <3>6. ASSUME Restart
            PROVE  AutoAllowed(e)
        BY <3>6 DEF Restart, Crash
      <3>. QED
        BY <3>1, <3>2, <3>3, <3>4, <3>5, <3>6
        DEF Next, CallStep, vars, pmVars, managerState, Start, Reject, Ask, CheckAsks, Wait,
            RequestPublished, Granted, Denied, RunEnds, RunFails, Retry, TimerExpires, TimerFires,
            ClientResponds, Respond, SessionCancelled, CancelSession, Disconnect
    <2>2. Authorised(e) /\ answer'[e] = answer[e]
      BY <2>1, StaticAllowAuthorised DEF AutoAllowed, CheckDecides, TypeOK, PMTypeOK
    <2>. QED
      BY <2>2, HistoryStable, KeyType DEF Authorised
  <1>. QED
    BY <1>2, <1>3

\* Caches and file hold only rules that were given: only _apply_response adds
\* one, and a restarted daemon takes its rules from the file.
LEMMA JustifiedStep ==
  ASSUME TypeOK, \A c \in Call : CallInv(c), CacheJustified, FileJustified, [Next]_vars
  PROVE  CacheJustified' /\ FileJustified'
  <1> USE DEF TypeOK, PMTypeOK
  <1>1. CASE UNCHANGED <<sessionAlways, persistentAlways, policyFile>>
    BY <1>1, HistoryStable DEF CacheJustified, FileJustified
  <1>2. ASSUME NEW c \in Call, ApplyResponse(c), future[c] \in Decision,
               check[c] \in {"emitting", "waiting"}
        PROVE  CacheJustified' /\ FileJustified'
    <2>1. CASE future[c] \notin Standing
      BY <1>1, <1>2, <2>1 DEF ApplyResponse
    <2>2. CASE future[c] \in Standing
      <3>1. PICK r \in {"allow", "deny"} : r = RuleOf(future[c])
        BY DEF RuleOf
      <3>2. GaveRule(c, r)'
        BY <1>2, <2>2, <3>1 DEF RuleOf, GaveRule, ApplyResponse, Returns, Standing, CallInv, RequestInv
      <3>3. \A k \in CacheKey : sessionAlways'[k] = IF k = Key(c) THEN r ELSE sessionAlways[k]
        BY <1>2, <2>2, <3>1, KeyType DEF ApplyResponse, NoRule
      <3>4. \A t \in Tool : persistentAlways'[t] = IF t = ToolOf[c] THEN r ELSE persistentAlways[t]
        BY <1>2, <2>2, <3>1, KeyType DEF ApplyResponse, NoRule
      <3>5. policyFile' \in {policyFile, NoRule, persistentAlways'}
        BY <1>2, <2>2 DEF ApplyResponse
      <3>6. \A d \in Call, q \in Rule : GaveRule(d, q) => GaveRule(d, q)'
        BY HistoryStable
      <3>7. CacheJustified'
        <4>1. ASSUME NEW k \in CacheKey, sessionAlways'[k] # "none"
              PROVE  \E d \in Call : Key(d) = k /\ GaveRule(d, sessionAlways[k])'
          <5>1. CASE k = Key(c)
            BY <3>2, <3>3, <5>1 DEF GaveRule
          <5>2. CASE k # Key(c)
            <6>1. sessionAlways'[k] = sessionAlways[k]
              BY <3>3, <5>2
            <6>2. PICK d \in Call : Key(d) = k /\ GaveRule(d, sessionAlways[k])
              BY <4>1, <6>1 DEF CacheJustified
            <6>. QED
              BY <3>6, <6>1, <6>2 DEF GaveRule
          <5>. QED
            BY <5>1, <5>2
        <4>2. ASSUME NEW t \in Tool, persistentAlways'[t] # "none"
              PROVE  \/ givenFile'[t] = persistentAlways'[t]
                     \/ \E d \in Call : ToolOf[d] = t /\ GaveRule(d, persistentAlways[t])'
          <5>1. CASE t = ToolOf[c]
            BY <3>2, <3>4, <5>1 DEF GaveRule
          <5>2. CASE t # ToolOf[c]
            <6>1. persistentAlways'[t] = persistentAlways[t]
              BY <3>4, <5>2
            <6>. QED
              BY <3>6, <4>2, <6>1, HistoryStable DEF CacheJustified, GaveRule
          <5>. QED
            BY <5>1, <5>2
        <4>. QED
          BY <4>1, <4>2 DEF CacheJustified, Key
      <3>8. FileJustified'
        <4>1. CASE policyFile' = policyFile
          BY <4>1, HistoryStable DEF FileJustified
        <4>2. CASE policyFile' = persistentAlways'
          BY <3>7, <4>2 DEF CacheJustified, FileJustified
        <4>3. CASE policyFile' = NoRule
          BY <4>3 DEF NoRule, FileJustified
        <4>. QED
          BY <3>5, <4>1, <4>2, <4>3
      <3>. QED
        BY <3>7, <3>8
    <2>. QED
      BY <2>1, <2>2
  <1>3. ASSUME NEW c \in Call, Decided(c)
        PROVE  CacheJustified' /\ FileJustified'
    BY <1>1, <1>2, <1>3 DEF Decided, AnsweredWhilePublishing, ResumeAnswered, ResumeTimedOut
  <1>4. ASSUME NEW c \in Call, Cancel(c)
        PROVE  CacheJustified' /\ FileJustified'
    BY <1>1, <1>4 DEF Cancel, CancelCheck, pmVars, managerState
  <1>5. ASSUME Restart
        PROVE  CacheJustified' /\ FileJustified'
    <2>1. \A t \in Tool : policyFile'[t] # "none" => policyFile'[t] = policyFile[t]
      BY <1>5 DEF Restart, Crash, NoRule
    <2>2. /\ persistentAlways' = policyFile'
          /\ \A k \in CacheKey : sessionAlways'[k] = "none"
      BY <1>5 DEF Restart, Crash
    <2>. QED
      BY <2>1, <2>2, HistoryStable DEF CacheJustified, FileJustified
  <1>6. UNCHANGED <<sessionAlways, persistentAlways, policyFile>>
        \/ Restart \/ \E c \in Call : Decided(c) \/ Cancel(c)
    BY DEF Next, CallStep, vars, pmVars, managerState, Start, Reject, AutoAllowed, CheckDecides,
           AutoDenied, Ask, CheckAsks, Wait, RequestPublished, Granted, Denied, RunEnds, RunFails,
           Retry, TimerExpires, TimerFires, ClientResponds, Respond, SessionCancelled,
           CancelSession, Disconnect
  <1>. QED
    BY <1>1, <1>3, <1>4, <1>5, <1>6

----------------------------------------------------------------------------
\* The whole invariant is inductive.
LEMMA InitInv == Init => IInv
  <1> SUFFICES ASSUME Init PROVE IInv
    OBVIOUS
  <1>1. TypeOK
    BY InitType
  <1>2. \A c \in Call : ControlInv(c) /\ RequestInv(c) /\ VerdictInv(c)
    <2> SUFFICES ASSUME NEW c \in Call
                 PROVE  ControlInv(c) /\ RequestInv(c) /\ VerdictInv(c)
      OBVIOUS
    <2>1. /\ pc[c] = "idle" /\ check[c] = "idle" /\ verdict[c] = "none" /\ execs[c] = 0
          /\ future[c] = "none" /\ answer[c] = "none" /\ c \notin pending
      BY DEF Init, PMInit
    <2>2. ~expired[c]
      BY Zenon DEF Init, PMInit
    <2>. QED
      BY <2>1, <2>2 DEF ControlInv, RequestInv, VerdictInv
  <1>3. CacheJustified /\ FileJustified
    BY DEF Init, PMInit, CacheJustified, FileJustified
  <1>. QED
    BY <1>1, <1>2, <1>3 DEF IInv

LEMMA StepInv == IInv /\ [Next]_vars => IInv'
  <1> SUFFICES ASSUME IInv, [Next]_vars PROVE IInv'
    OBVIOUS
  <1>1. TypeOK /\ CacheJustified /\ FileJustified
    BY DEF IInv
  <1>2. \A c \in Call : CallInv(c) /\ (verdict[c] = "auto_allow" => Authorised(c))
    BY DEF IInv, CallInv, VerdictInv, VerdictCore
  <1>3. TypeOK'
    BY <1>1, <1>2, TypeStep
  <1>4. \A e \in Call : CallInv(e)'
    BY <1>1, <1>2, CallStepInv
  <1>5. \A e \in Call : verdict'[e] = "auto_allow" => Authorised(e)'
    BY <1>1, <1>2, AuthorisedStep
  <1>6. CacheJustified' /\ FileJustified'
    BY <1>1, <1>2, JustifiedStep
  <1>7. \A e \in Call : (ControlInv(e) /\ RequestInv(e) /\ VerdictInv(e))'
    BY <1>4, <1>5 DEF CallInv, VerdictInv, VerdictCore
  <1>. QED
    BY <1>3, <1>6, <1>7 DEF IInv

THEOREM Invariance == Spec => []IInv
  BY InitInv, StepInv, PTL DEF Spec
----------------------------------------------------------------------------
\* The safety properties the runs check, for every value of the constants.

\* Type correctness of the whole state, which needs the bound on retries.
THEOREM TypeCorrect == Spec => []TypeOK
  <1>1. IInv => TypeOK
    BY DEF IInv
  <1>. QED
    BY <1>1, Invariance, PTL

\* No tool body is ever entered without authority: invoke_tool's promise.
THEOREM NoUnauthorisedExecution == Spec => []ExecutionAuthorised
  <1>1. IInv => ExecutionAuthorised
    <2> SUFFICES ASSUME IInv, NEW c \in Call, execs[c] > 0
                 PROVE  Authorised(c) /\ verdict[c] \notin {"timeout", "raised"}
      BY DEF ExecutionAuthorised
    <2>1. CASE verdict[c] = "auto_allow"
      BY <2>1 DEF IInv, VerdictInv
    <2>2. CASE verdict[c] \in Allowing
      <3>1. answer[c] = verdict[c]
        BY <2>2 DEF IInv, VerdictInv, RequestInv
      <3>2. "deny_pattern" \notin Matches[c]
        BY <2>2 DEF IInv, VerdictInv, RequestInv
      <3>. QED
        BY <2>2, <3>1, <3>2 DEF Authorised
    <2>. QED
      BY <2>1, <2>2 DEF IInv, ControlInv
  <1>. QED
    BY <1>1, Invariance, PTL

\* Caches never hold a rule nobody gave.
THEOREM RulesAreGiven == Spec => []CacheJustified
  <1>1. IInv => CacheJustified
    BY DEF IInv
  <1>. QED
    BY <1>1, Invariance, PTL

\* Open requests can be answered, and only cancelled ones are left behind.
THEOREM RequestsAreAnswerable == Spec => []PendingMatchesWaiters
  <1>1. IInv => PendingMatchesWaiters
    BY DEF IInv, RequestInv, PendingMatchesWaiters, TypeOK, PMTypeOK
  <1>. QED
    BY <1>1, Invariance, PTL

\* The client's answer is what check_and_wait returns, save for the races named.
THEOREM AnswersAreHonoured == Spec => []AnswerHonoured
  <1>1. IInv => AnswerHonoured
    <2> SUFFICES ASSUME IInv, NEW c \in Call, answer[c] # "none", check[c] = "returned"
                 PROVE  verdict[c] = answer[c] \/ expired[c] \/ verdict[c] = "raised"
      BY DEF AnswerHonoured
    <2>1. verdict[c] \in Verdict \ {"none"}
      BY DEF IInv, ControlInv, TypeOK, PMTypeOK
    <2>. QED
      BY <2>1 DEF IInv, VerdictInv, RequestInv, Verdict, TypeOK, PMTypeOK
  <1>. QED
    BY <1>1, Invariance, PTL

\* While every write succeeds, the file holds every rule of the memory.
THEOREM FileIsCurrent == Spec => []FileTracksMemory
  <1>1. Init => FileTracksMemory
    BY DEF Init, PMInit, FileTracksMemory
  <1>2. FileTracksMemory /\ [Next]_vars => FileTracksMemory'
    <2> SUFFICES ASSUME FileTracksMemory, [Next]_vars PROVE FileTracksMemory'
      OBVIOUS
    <2>1. CASE UNCHANGED <<persistentAlways, policyFile, saveLost>>
      BY <2>1 DEF FileTracksMemory
    <2>2. ASSUME NEW c \in Call, ApplyResponse(c)
          PROVE  FileTracksMemory'
      BY Zenon, <2>1, <2>2 DEF FileTracksMemory, ApplyResponse
    <2>3. CASE Crash
      BY <2>3 DEF FileTracksMemory, Crash
    <2>4. \/ UNCHANGED <<persistentAlways, policyFile, saveLost>>
          \/ Crash
          \/ \E c \in Call : ApplyResponse(c)
      BY DEF Next, CallStep, vars, pmVars, managerState, Start, Reject, AutoAllowed, CheckDecides,
             AutoDenied, Ask, CheckAsks, Wait, RequestPublished, Decided, AnsweredWhilePublishing,
             ResumeAnswered, ResumeTimedOut, Granted, Denied, RunEnds, RunFails, Retry, Cancel,
             CancelCheck, TimerExpires, TimerFires, ClientResponds, Respond, SessionCancelled,
             CancelSession, Disconnect, Restart
    <2>. QED
      BY <2>1, <2>2, <2>3, <2>4
  <1>. QED
    BY <1>1, <1>2, PTL DEF Spec
----------------------------------------------------------------------------
\* The refinement: each step of a call is a step of PermissionGate or invisible.

PermitAt(l) ==
    IF l \in {"idle", "starting"} THEN "none"
    ELSE IF l = "checking" THEN "asked"
    ELSE IF l \in {"announcing", "running", "backoff"} THEN "held"
    ELSE "gone"

\* A step that moves one call moves the permit of that call alone.
LEMMA PermitMoves ==
  ASSUME TypeOK, NEW c \in Call, NEW l \in Location, Goto(c, l)
  PROVE  permitOf' = [permitOf EXCEPT ![c] = PermitAt(l)]
  BY DEF permitOf, PermitAt, Goto, TypeOK, Location

LEMMA PermitStays ==
  ASSUME UNCHANGED pc
  PROVE  permitOf' = permitOf
  BY DEF permitOf

\* Ending calls gives up their permits.
LEMMA FinishGivesUp ==
  ASSUME TypeOK, NEW c \in Call, NEW r \in Result, Finish(c, r), UNCHANGED answer
  PROVE  Gate!Next
  <1>1. permitOf' = [permitOf EXCEPT ![c] = "gone"]
    BY PermitMoves DEF Finish, Location, PermitAt
  <1>2. permitOf' = [e \in Call |-> IF e \in {c} THEN "gone" ELSE permitOf[e]]
    BY <1>1 DEF permitOf
  <1>3. Gate!GiveUp({c})
    BY <1>2 DEF Gate!GiveUp, Finish
  <1>. QED
    BY <1>3 DEF Gate!Next

LEMMA GateStep ==
  ASSUME IInv, [Next]_vars
  PROVE  [Gate!Next]_(Gate!vars)
  <1> USE DEF Location, Result
  <1>0. TypeOK
    BY DEF IInv
  <1>a. \A c \in Call : CallInv(c)
    BY DEF IInv, CallInv, VerdictInv, VerdictCore
  <1>b. UNCHANGED <<permitOf, answer, execs>> => [Gate!Next]_(Gate!vars)
    BY DEF Gate!vars
  <1>1. ASSUME NEW c \in Call, Start(c)
        PROVE  UNCHANGED <<permitOf, answer, execs>>
    BY <1>0, <1>1 DEF Start, Goto, permitOf, pmVars, TypeOK
  <1>2. ASSUME NEW c \in Call, Reject(c) \/ AutoDenied(c) \/ Denied(c) \/ RunEnds(c) \/ Cancel(c)
        PROVE  Gate!Next
    <2>1. UNCHANGED answer /\ \E r \in Result : Finish(c, r)
      BY <1>2 DEF Reject, AutoDenied, CheckDecides, Denied, RunEnds, Cancel, CancelCheck, pmVars
    <2>. QED
      BY <1>0, <2>1, FinishGivesUp
  <1>3. ASSUME NEW c \in Call, AutoAllowed(c)
        PROVE  Gate!Next
    <2>1. permitOf' = [permitOf EXCEPT ![c] = "held"] /\ permitOf[c] = "none"
      BY <1>0, <1>3, PermitMoves DEF AutoAllowed, Execute, PermitAt, permitOf
    <2>2. Gate!RunByRule(c)
      BY <1>3, <2>1 DEF Gate!RunByRule, AutoAllowed, Execute, CheckDecides
    <2>. QED
      BY <2>2 DEF Gate!Next
  <1>4. ASSUME NEW c \in Call, Ask(c)
        PROVE  Gate!Next
    <2>1. permitOf' = [permitOf EXCEPT ![c] = "asked"] /\ permitOf[c] = "none"
      BY <1>0, <1>4, PermitMoves DEF Ask, PermitAt, permitOf
    <2>2. Gate!AskPermit(c)
      BY <1>4, <2>1 DEF Gate!AskPermit, Ask, CheckAsks
    <2>. QED
      BY <2>2 DEF Gate!Next
  <1>5. ASSUME NEW c \in Call, Decided(c)
        PROVE  Gate!Next
    <2>1. permitOf[c] = "asked" /\ UNCHANGED <<answer, execs>>
      BY <1>5 DEF Decided, permitOf, AnsweredWhilePublishing, ResumeAnswered, ResumeTimedOut, ApplyResponse
    <2>2. CASE AllowsRun(verdict'[c])
      <3>1. permitOf' = [permitOf EXCEPT ![c] = "held"]
        BY <1>0, <1>5, <2>2, PermitMoves DEF Decided, PermitAt
      <3>2. verdict'[c] = future[c] /\ future[c] \in Allowing
        BY <1>0, <1>5, <2>2
        DEF Decided, AllowsRun, AnsweredWhilePublishing, ResumeAnswered, ResumeTimedOut,
            ApplyResponse, Returns, TypeOK, PMTypeOK
      <3>3. answer[c] \in Allowing
        BY <1>a, <3>2 DEF CallInv, RequestInv
      <3>4. Gate!Grant(c)
        BY <2>1, <3>1, <3>3 DEF Gate!Grant
      <3>. QED
        BY <3>4 DEF Gate!Next
    <2>3. CASE ~AllowsRun(verdict'[c])
      <3>1. permitOf' = [permitOf EXCEPT ![c] = "gone"]
        BY <1>0, <1>5, <2>3, PermitMoves DEF Decided, PermitAt
      <3>2. Gate!GiveUp({c})
        BY <2>1, <3>1 DEF Gate!GiveUp, permitOf
      <3>. QED
        BY <3>2 DEF Gate!Next
    <2>. QED
      BY <2>2, <2>3
  <1>6. ASSUME NEW c \in Call, Granted(c) \/ Retry(c)
        PROVE  Gate!Next
    <2>1. permitOf[c] = "held" /\ permitOf' = permitOf
      BY <1>0, <1>6 DEF Granted, Retry, Execute, Goto, permitOf, TypeOK
    <2>2. execs[c] < MaxRetries + 1
      BY <1>0, <1>6, <1>a DEF Granted, Retry, CallInv, ControlInv, TypeOK
    <2>3. Gate!Run(c)
      BY <1>6, <2>1, <2>2 DEF Gate!Run, Granted, Retry, Execute, pmVars
    <2>. QED
      BY <2>3 DEF Gate!Next
  <1>7. ASSUME NEW c \in Call, RunFails(c)
        PROVE  [Gate!Next]_(Gate!vars)
    <2>1. CASE attempt[c] <= MaxRetries
      BY <1>0, <1>7, <1>b, <2>1 DEF RunFails, Goto, permitOf, TypeOK, pmVars
    <2>2. CASE ~(attempt[c] <= MaxRetries)
      BY <1>0, <1>7, <2>2, FinishGivesUp DEF RunFails, pmVars
    <2>. QED
      BY <2>1, <2>2
  <1>8. ASSUME NEW c \in Call, Wait(c) \/ TimerExpires(c)
        PROVE  UNCHANGED <<permitOf, answer, execs>>
    BY <1>8, PermitStays DEF Wait, RequestPublished, TimerExpires, TimerFires
  <1>9. ASSUME NEW c \in Call, NEW d \in Decision, ClientResponds(c, d)
        PROVE  [Gate!Next]_(Gate!vars)
    <2>1. UNCHANGED <<permitOf, execs>>
      BY <1>9, PermitStays DEF ClientResponds
    <2>2. CASE future[c] = "open"
      <3>1. answer[c] = "none"
        BY <1>0, <1>a, <2>2 DEF CallInv, RequestInv, TypeOK, PMTypeOK
      <3>2. permitOf[c] # "none"
        BY <1>a, <2>2 DEF CallInv, RequestInv, ControlInv, permitOf
      <3>3. Gate!Reply(c, d)
        BY <1>9, <2>1, <2>2, <3>1, <3>2 DEF Gate!Reply, ClientResponds, Respond
      <3>. QED
        BY <3>3 DEF Gate!Next
    <2>3. CASE future[c] # "open"
      BY <1>9, <1>b, <2>1, <2>3 DEF ClientResponds, Respond
    <2>. QED
      BY <2>2, <2>3
  <1>10. ASSUME NEW s \in Session, SessionCancelled(s)
         PROVE  UNCHANGED <<permitOf, answer, execs>>
    BY <1>10, PermitStays DEF SessionCancelled, CancelSession
  <1>11. ASSUME Disconnect
         PROVE  UNCHANGED <<permitOf, answer, execs>>
    BY <1>11, PermitStays DEF Disconnect, pmVars
  <1>12. ASSUME Restart
         PROVE  Gate!Next
    <2> DEFINE S == {c \in Call : pc[c] # "idle"}
    <2>1. permitOf' = [c \in Call |-> IF c \in S THEN "gone" ELSE permitOf[c]]
      BY <1>12 DEF Restart, permitOf
    <2>2. Gate!GiveUp(S)
      BY <1>12, <2>1 DEF Gate!GiveUp, Restart, Crash
    <2>. QED
      BY <2>2 DEF Gate!Next
  <1>13. CASE UNCHANGED vars
    BY <1>13, <1>b, PermitStays DEF vars, pmVars
  <1>. QED
    BY <1>b, <1>1, <1>2, <1>3, <1>4, <1>5, <1>6, <1>7, <1>8, <1>9, <1>10, <1>11, <1>12, <1>13
    DEF Next, CallStep

\* invoke_tool over the PermissionManager implements PermissionGate: permits,
\* answers and runs of any number of concurrent calls evolve as promised there.
THEOREM GateRefinement == Spec => ImplementsGate
  <1>1. Init => Gate!Init
    BY DEF Init, PMInit, Gate!Init, permitOf
  <1>2. IInv /\ [Next]_vars => [Gate!Next]_(Gate!vars)
    BY GateStep
  <1>. QED
    BY <1>1, <1>2, Invariance, PTL DEF Spec, Gate!Spec, ImplementsGate
=============================================================================
