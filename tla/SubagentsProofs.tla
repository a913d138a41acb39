-------------------------- MODULE SubagentsProofs ---------------------------
(***************************************************************************)
(* Nested and BackgroundKnown for any number of agents and attempts, from  *)
(* the inductive invariant IInv of Subagents.                              *)
(***************************************************************************)
EXTENDS Subagents, TLAPS

Counters == {"unborn"} \cup Live \cup Gone

LEMMA AgentsAreAll == Agents \subseteq All /\ Root \in All /\ Root \notin Agents
  BY SubagentAssumption DEF Agents, All, Root

THEOREM InitInv == Init => IInv
  <1> SUFFICES ASSUME Init PROVE IInv
    OBVIOUS
  <1> USE SubagentAssumption, AgentsAreAll DEF Init
  <1>1. TypeOK
    BY DEF TypeOK, Live, All, Root
  <1>2. Nested /\ BackgroundKnown
    BY DEF Nested, BackgroundKnown, Live
  <1>3. Born /\ CallsPaired /\ Registered
    BY DEF Born, CallsPaired, Registered
  <1>. QED
    BY <1>1, <1>2, <1>3 DEF IInv

\* What Forget leaves of the calls.
LEMMA Forgotten ==
  ASSUME TypeOK, NEW a \in All, Forget(a)
  PROVE  /\ child' \in [All -> All]
         /\ attempt' \in [All -> 1..Attempts]
         /\ \A b \in All \ {a} : child'[b] = child[b] /\ attempt'[b] = attempt[b]
         /\ pc'[a] = "backoff" => child'[a] = child[a] /\ attempt'[a] = attempt[a]
  BY SubagentAssumption, AgentsAreAll DEF TypeOK, Forget

\* Two agents do not wait for the same one, and nobody waits for the run.
LEMMA OneWaits ==
  ASSUME IInv, NEW a \in All, NEW b \in All, NEW c \in All, Waits(a, c), Waits(b, c)
  PROVE  a = b /\ c \in Agents
  BY DEF IInv, CallsPaired, Waits

-----------------------------------------------------------------------------
\* A first or a further attempt.
LEMMA AnnounceStep ==
  ASSUME IInv, NEW a \in All, NEW how \in {"foreground", "background"},
         pc[a] \in {"thinking", "backoff"}, HasAgentTools(a),
         attempt' \in [All -> 1..Attempts],
         \A b \in All \ {a} : attempt'[b] = attempt[b],
         Announce(a, how)
  PROVE  IInv'
  <1> USE SubagentAssumption, AgentsAreAll
  <1> DEFINE c == next + 1
  <1>1. /\ c \in Agents /\ next' = c /\ pc[c] = "unborn" /\ c # a
        /\ \A d \in Agents : d > c => pc[d] = "unborn"
    <2>1. next \in Nat /\ c \in Agents /\ next' = c
      BY DEF IInv, TypeOK, Announce, All
    <2>2. c > next /\ \A d \in Agents : d > c => d > next
      BY <2>1 DEF Agents
    <2>. QED
      BY <2>1, <2>2 DEF IInv, Born
  <1>2. a < c
    <2>1. CASE a = Root
      BY <2>1, <1>1 DEF Root, Agents
    <2>2. CASE a # Root
      <3>1. a \in Agents /\ ~(a > next)
        BY <2>2 DEF IInv, Born, All, Agents, Root
      <3>. QED
        BY <3>1 DEF Agents, IInv, TypeOK, All
    <2>. QED
      BY <2>1, <2>2
  <1>3. /\ pc' \in [All -> Counters] /\ pc'[a] = "calling" /\ pc'[c] = "announced"
        /\ \A d \in All \ {a, c} : pc'[d] = pc[d]
        /\ mode' \in [All -> {"none", "foreground", "background"}] /\ mode'[c] = how
        /\ \A d \in All \ {c} : mode'[d] = mode[d]
        /\ parent' \in [All -> All] /\ parent'[c] = a
        /\ \A d \in All \ {c} : parent'[d] = parent[d]
        /\ child' \in [All -> All] /\ child'[a] = c
        /\ \A d \in All \ {a} : child'[d] = child[d]
    BY <1>1 DEF IInv, TypeOK, Announce, Live, Counters
  <1>4. status' = status /\ registry' = registry /\ finished' = finished /\ told' = told
    BY DEF Announce
  <1>5. TypeOK'
    BY <1>1, <1>3, <1>4 DEF IInv, TypeOK, Counters
  <1>6. \A d \in All \ {a} : HasAgentTools(d) /\ pc[d] # "unborn" => HasAgentTools(d)'
    BY <1>1, <1>3 DEF HasAgentTools
  <1>7. HasAgentTools(a)'
    BY <1>1, <1>3 DEF HasAgentTools
  <1>8. Nested'
    <2> SUFFICES ASSUME NEW d \in Agents, pc'[d] \in Live,
                        mode'[d] = "foreground" \/ pc'[d] = "announced"
                 PROVE  Waits(parent[d], d)'
      BY DEF Nested, Waits
    <2>1. CASE d = c
      BY <2>1, <1>3 DEF Waits
    <2>2. CASE d # c
      <3>1. mode'[d] = mode[d] /\ parent'[d] = parent[d] /\ parent[d] \in All
        BY <2>2, <1>3 DEF IInv, TypeOK
      <3>2. pc[d] \in Live /\ (mode[d] = "foreground" \/ pc[d] = "announced")
        BY <2>2, <3>1, <1>3 DEF Live
      <3>3. Waits(parent[d], d)
        BY <3>2 DEF IInv, Nested
      <3>4. parent[d] # a /\ parent[d] # c
        BY <3>3, <1>1 DEF Waits
      <3>. QED
        BY <3>1, <3>3, <3>4, <1>3 DEF Waits
    <2>. QED
      BY <2>1, <2>2
  <1>9. BackgroundKnown'
    <2> SUFFICES ASSUME NEW b \in Agents
        PROVE /\ mode'[b] = "background"
                   /\ pc'[b] \in {"thinking", "calling", "backoff", "finishing"} => b \in registry
              /\ b \in told => b \in finished \/ pc'[b] = "broken"
      BY <1>4 DEF BackgroundKnown
    <2>1. CASE b \notin {a, c}
      <3>1. b \in All /\ mode'[b] = mode[b] /\ pc'[b] = pc[b]
        BY <2>1, <1>3
      <3>. QED
        BY <3>1 DEF IInv, BackgroundKnown
    <2>3. CASE b = a
      <3>1. mode'[b] = mode[b] /\ pc[b] \in {"thinking", "backoff"}
        BY <2>3, <1>1, <1>3
      <3>. QED
        BY <3>1 DEF IInv, BackgroundKnown
    <2>2. pc'[c] = "announced" /\ (c \notin told \/ c \in finished)
      BY <1>1, <1>3 DEF IInv, BackgroundKnown
    <2>. QED
      BY <2>1, <2>2, <2>3, <1>3
  <1>10. Born'
    BY <1>1, <1>2, <1>3 DEF IInv, Born, Agents
  <1>11. CallsPaired'
    <2> SUFFICES ASSUME NEW b \in All
        PROVE /\ pc'[b] = "calling" =>
                   /\ child'[b] \in Agents
                   /\ parent'[child'[b]] = b
                   /\ pc'[child'[b]] \in Live
                   /\ pc'[child'[b]] = "announced" \/ mode'[child'[b]] = "foreground"
                   /\ HasAgentTools(b)'
              /\ pc'[b] = "backoff" =>
                   child'[b] \in Agents /\ pc'[child'[b]] \in Gone /\ attempt'[b] < Attempts
                   /\ HasAgentTools(b)'
      BY DEF CallsPaired
    <2>1. CASE b = a
      BY <2>1, <1>1, <1>3, <1>7 DEF Live
    <2>2. CASE b = c
      BY <2>2, <1>3, <1>1
    <2>3. CASE b \notin {a, c}
      <3>1. pc'[b] = pc[b] /\ child'[b] = child[b] /\ attempt'[b] = attempt[b]
        BY <2>3, <1>3
      <3>2. pc[b] = "calling" => child[b] \notin {a, c} \/ child[b] = a
        BY <1>1 DEF IInv, CallsPaired, Live
      <3>3. CASE pc[b] = "calling"
        <4>1. /\ child[b] \in Agents /\ parent[child[b]] = b /\ pc[child[b]] \in Live
              /\ pc[child[b]] = "announced" \/ mode[child[b]] = "foreground"
              /\ HasAgentTools(b)
          BY <3>3 DEF IInv, CallsPaired
        <4>2. child[b] # c
          BY <4>1, <1>1 DEF Live
        <4>3. pc'[child[b]] \in Live
              /\ (pc'[child[b]] = "announced" \/ mode'[child[b]] = "foreground")
              /\ parent'[child[b]] = b
          BY <4>1, <4>2, <1>3 DEF Live
        <4>. QED
          BY <3>1, <3>3, <4>1, <4>3, <2>3, <1>6
      <3>4. CASE pc[b] = "backoff"
        <4>1. child[b] \in Agents /\ pc[child[b]] \in Gone /\ attempt[b] < Attempts
              /\ HasAgentTools(b)
          BY <3>4 DEF IInv, CallsPaired
        <4>2. child[b] \notin {a, c}
          BY <4>1, <1>1 DEF Gone
        <4>3. pc'[child[b]] = pc[child[b]]
          BY <4>1, <4>2, <1>3
        <4>. QED
          BY <3>1, <3>4, <4>1, <4>3, <2>3, <1>6
      <3>. QED
        BY <3>1, <3>3, <3>4
    <2>. QED
      BY <2>1, <2>2, <2>3
  <1>12. Registered'
    <2>1. c \notin registry
      BY <1>1 DEF IInv, Registered
    <2>3. \A b \in registry : b \in All /\ b # c
      BY <2>1 DEF IInv, TypeOK
    <2>. QED
      BY <2>3, <1>3, <1>4 DEF IInv, Registered
  <1>. QED
    BY <1>5, <1>8, <1>9, <1>10, <1>11, <1>12 DEF IInv

LEMMA SpawnStep ==
  ASSUME IInv, NEW a \in All, NEW how \in {"foreground", "background"}, Spawn(a, how)
  PROVE  IInv'
  BY AnnounceStep DEF Spawn, IInv, TypeOK

LEMMA RetryStep ==
  ASSUME IInv, NEW a \in All, Retry(a)
  PROVE  IInv'
  <1>1. /\ child[a] \in Agents /\ attempt[a] < Attempts /\ HasAgentTools(a)
        /\ pc[child[a]] \in Gone
    BY DEF IInv, CallsPaired, Retry
  <1>2. mode[child[a]] \in {"foreground", "background"}
    BY <1>1, AgentsAreAll DEF IInv, Born, TypeOK, Gone
  <1>3. attempt' \in [All -> 1..Attempts] /\ \A b \in All \ {a} : attempt'[b] = attempt[b]
    BY <1>1, SubagentAssumption DEF IInv, TypeOK, Retry
  <1>. QED
    BY <1>1, <1>2, <1>3, AnnounceStep DEF Retry

-----------------------------------------------------------------------------
\* Steps that leave the tree as it is. What a call's caller and child may become:
\* the child goes, or begins and is not waited for, and the caller goes on.
LEMMA SameTree ==
  ASSUME IInv, UNCHANGED <<mode, parent, next>>,
         pc' \in [All -> Counters],
         child' \in [All -> All], attempt' \in [All -> 1..Attempts],
         status' \in [All -> {"running", "success", "failed"}],
         registry' \subseteq Agents, finished' \subseteq All, told' \subseteq Agents,
         \A c \in Agents : pc[c] = "unborn" <=> pc'[c] = "unborn",
         Nested', BackgroundKnown', CallsPaired', Registered'
  PROVE  IInv'
  <1>1. TypeOK'
    BY DEF IInv, TypeOK, Counters
  <1>2. Born'
    BY DEF IInv, Born
  <1>. QED
    BY <1>1, <1>2 DEF IInv

\* Who the caller of a child in hand is.
LEMMA CallersChild ==
  ASSUME IInv, NEW a \in All, pc[a] = "calling"
  PROVE  /\ child[a] \in Agents /\ child[a] \in All /\ child[a] # a
         /\ parent[child[a]] = a
         /\ pc[child[a]] \in Live
         /\ pc[child[a]] = "announced" \/ mode[child[a]] = "foreground"
         /\ HasAgentTools(a)
  <1>1. /\ child[a] \in Agents /\ parent[child[a]] = a /\ pc[child[a]] \in Live
        /\ pc[child[a]] = "announced" \/ mode[child[a]] = "foreground"
        /\ HasAgentTools(a)
    BY DEF IInv, CallsPaired
  <1>2. parent[child[a]] < child[a] /\ a \in Nat /\ child[a] \in Nat
    BY <1>1 DEF IInv, Born, Live, All, Agents
  <1>3. child[a] # a
    BY <1>1, <1>2
  <1>. QED
    BY <1>1, <1>3, AgentsAreAll

\* The child of the call begins.
LEMMA StartForegroundStep ==
  ASSUME IInv, NEW a \in All, StartForeground(a)
  PROVE  IInv'
  <1> USE AgentsAreAll DEF StartForeground
  <1> DEFINE c == child[a]
  <1>1. /\ c \in Agents /\ c # a /\ parent[c] = a /\ HasAgentTools(a)
    BY CallersChild
  <1>2. pc' \in [All -> Counters] /\ pc'[c] = "thinking" /\ \A d \in All \ {c} : pc'[d] = pc[d]
    BY <1>1 DEF IInv, TypeOK, Counters, Live
  <1>3. Nested'
    BY <1>1, <1>2 DEF IInv, Nested, Waits, Live
  <1>4. BackgroundKnown'
    BY <1>1, <1>2 DEF IInv, BackgroundKnown
  <1>5. CallsPaired'
    <2> SUFFICES ASSUME NEW b \in All
        PROVE /\ pc'[b] = "calling" =>
                   /\ child[b] \in Agents
                   /\ parent[child[b]] = b
                   /\ pc'[child[b]] \in Live
                   /\ pc'[child[b]] = "announced" \/ mode[child[b]] = "foreground"
                   /\ HasAgentTools(b)
              /\ pc'[b] = "backoff" =>
                   child[b] \in Agents /\ pc'[child[b]] \in Gone /\ attempt[b] < Attempts
                   /\ HasAgentTools(b)
      BY DEF CallsPaired, HasAgentTools
    <2>1. pc'[b] \in {"calling", "backoff"} => pc'[b] = pc[b]
      BY <1>1, <1>2
    <2>2. pc[b] = "calling" /\ child[b] = c => b = a
      BY <1>1 DEF IInv, CallsPaired
    <2>3. pc[b] = "backoff" => child[b] # c
      BY DEF IInv, CallsPaired, Live, Gone
    <2>. QED
      BY <1>1, <1>2, <2>1, <2>2, <2>3 DEF IInv, CallsPaired, Live
  <1>6. Registered'
    BY <1>1, <1>2 DEF IInv, TypeOK, Registered
  <1>. QED
    BY <1>1, <1>2, <1>3, <1>4, <1>5, <1>6, SameTree DEF IInv, TypeOK

\* A call comes back: its child c is done with it - gone, or on its own with a place
\* in the registry - and the caller goes on, or pauses when the child is gone.
LEMMA CallReturns ==
  ASSUME IInv, NEW a \in All, NEW c \in Agents,
         pc[a] = "calling", child[a] = c, UNCHANGED <<mode, parent, next, status, told>>,
         pc' \in [All -> Counters],
         \A d \in All \ {a, c} : pc'[d] = pc[d],
         pc'[a] \in {"thinking", "backoff"},
         pc'[a] = "backoff" => pc'[c] \in Gone /\ attempt[a] < Attempts,
         \/ pc'[c] \in Gone /\ (c \in told => c \in finished')
         \/ pc'[c] \in {"thinking", "broken"} /\ mode[c] = "background" /\ c \in registry'
              /\ (c \in told => c \in finished),
         pc[c] \in {"announced", "thinking", "finishing"},
         registry \subseteq registry', registry' \subseteq registry \cup {c},
         c \in registry' => mode[c] = "background" /\ pc'[c] \in {"thinking", "broken"},
         pc'[c] = "over" => c \in finished',
         finished \subseteq finished', finished' \subseteq All,
         Forget(a)
  PROVE  IInv'
  <1> USE AgentsAreAll
  <1>0. c # a /\ parent[c] = a /\ HasAgentTools(a)
    BY CallersChild
  <1>1. /\ child' \in [All -> All] /\ attempt' \in [All -> 1..Attempts]
        /\ \A b \in All \ {a} : child'[b] = child[b] /\ attempt'[b] = attempt[b]
        /\ pc'[a] = "backoff" => child'[a] = child[a] /\ attempt'[a] = attempt[a]
    BY Forgotten DEF IInv
  <1>2. Nested'
    <2> SUFFICES ASSUME NEW d \in Agents, pc'[d] \in Live,
                        mode[d] = "foreground" \/ pc'[d] = "announced"
                 PROVE  Waits(parent[d], d)'
      BY DEF Nested, Waits
    <2>1. d # c
      BY DEF Live, Gone
    <2>2. pc[d] \in Live /\ (mode[d] = "foreground" \/ pc[d] = "announced")
      BY <2>1 DEF Live
    <2>3. Waits(parent[d], d) /\ parent[d] \in All
      BY <2>2 DEF IInv, Nested, TypeOK
    <2>4. parent[d] # a
      BY <2>1, <2>3 DEF Waits
    <2>5. parent[d] # c
      BY <2>3 DEF Waits
    <2>. QED
      BY <2>3, <2>4, <2>5, <1>1 DEF Waits
  <1>3. BackgroundKnown'
    <2> SUFFICES ASSUME NEW b \in Agents
        PROVE /\ mode[b] = "background"
                   /\ pc'[b] \in {"thinking", "calling", "backoff", "finishing"} => b \in registry'
              /\ b \in told => b \in finished' \/ pc'[b] = "broken"
      BY DEF BackgroundKnown
    <2>1. CASE b \notin {a, c}
      BY <2>1 DEF IInv, BackgroundKnown
    <2>2. CASE b = c
      BY <2>2 DEF Gone
    <2>3. CASE b = a
      BY <2>3 DEF IInv, BackgroundKnown
    <2>. QED
      BY <2>1, <2>2, <2>3
  <1>4. CallsPaired'
    <2> SUFFICES ASSUME NEW b \in All
        PROVE /\ pc'[b] = "calling" =>
                   /\ child'[b] \in Agents
                   /\ parent[child'[b]] = b
                   /\ pc'[child'[b]] \in Live
                   /\ pc'[child'[b]] = "announced" \/ mode[child'[b]] = "foreground"
                   /\ HasAgentTools(b)
              /\ pc'[b] = "backoff" =>
                   child'[b] \in Agents /\ pc'[child'[b]] \in Gone /\ attempt'[b] < Attempts
                   /\ HasAgentTools(b)
      BY DEF CallsPaired, HasAgentTools
    <2>1. CASE b = a
      BY <2>1, <1>0, <1>1
    <2>2. CASE b = c
      BY <2>2 DEF Gone
    <2>3. CASE b \notin {a, c}
      <3>1. pc'[b] = pc[b] /\ child'[b] = child[b] /\ attempt'[b] = attempt[b]
        BY <2>3, <1>1
      <3>2. pc[b] = "calling" => (child[b] # c /\ child[b] # a) \/ child[b] = a
        BY <2>3, <1>0 DEF IInv, CallsPaired
      <3>3. pc[b] = "calling" /\ child[b] = a => mode[a] = "foreground" \/ pc[a] = "announced"
        BY DEF IInv, CallsPaired
      <3>4. pc[b] = "backoff" => child[b] \notin {a, c}
        BY DEF IInv, CallsPaired, Live, Gone
      <3>. QED
        BY <3>1, <3>2, <3>3, <3>4 DEF IInv, CallsPaired, Live
    <2>. QED
      BY <2>1, <2>2, <2>3
  <1>5. \A d \in Agents : pc[d] = "unborn" <=> pc'[d] = "unborn"
    BY DEF Gone
  <1>6. status' \in [All -> {"running", "success", "failed"}] /\ told' \subseteq Agents
    BY DEF IInv, TypeOK
  <1>7. Registered'
    BY DEF IInv, TypeOK, Registered
  <1>8. registry' \subseteq Agents
    BY DEF IInv, TypeOK
  <1>. QED
    BY <1>1, <1>2, <1>3, <1>4, <1>5, <1>6, <1>7, <1>8, SameTree

LEMMA StartBackgroundStep ==
  ASSUME IInv, NEW a \in All, StartBackground(a)
  PROVE  IInv'
  <1> USE AgentsAreAll DEF StartBackground
  <1> DEFINE c == child[a]
  <1>1. c \in Agents /\ c # a
    BY CallersChild
  <1>2. /\ pc' \in [All -> Counters] /\ pc'[a] = "thinking" /\ pc'[c] \in {"thinking", "broken"}
        /\ \A d \in All \ {a, c} : pc'[d] = pc[d]
    BY <1>1 DEF IInv, TypeOK, Counters, Live, Gone
  <1>3. c \in told => c \in finished
    BY <1>1 DEF IInv, BackgroundKnown
  <1>4. finished \subseteq All
    BY DEF IInv, TypeOK
  <1>. QED
    BY <1>1, <1>2, <1>3, <1>4, CallReturns

LEMMA StartFailsStep ==
  ASSUME IInv, NEW a \in All, StartFails(a)
  PROVE  IInv'
  <1> USE AgentsAreAll DEF StartFails
  <1> DEFINE c == child[a]
  <1>1. c \in Agents /\ c # a
    BY CallersChild
  <1>2. /\ pc' \in [All -> Counters] /\ pc'[a] = AfterFailure(a) /\ pc'[c] = "broken"
        /\ \A d \in All \ {a, c} : pc'[d] = pc[d]
    BY <1>1 DEF IInv, TypeOK, Counters, Live, Gone, AfterFailure
  <1>3. c \in told => c \in finished
    BY <1>1 DEF IInv, BackgroundKnown
  <1>4. finished \subseteq All /\ c \notin registry
    BY <1>1 DEF IInv, TypeOK, Registered
  <1>. QED
    BY <1>1, <1>2, <1>3, <1>4, CallReturns DEF Gone, AfterFailure

LEMMA FinishStep ==
  ASSUME IInv, NEW a \in All, Finish(a)
  PROVE  IInv'
  <1> USE AgentsAreAll DEF Finish
  <1>1. finished' \subseteq All /\ registry' \subseteq Agents /\ finished \subseteq finished'
    BY DEF IInv, TypeOK
  <1>2. CASE mode[a] = "foreground"
    <2> DEFINE p == parent[a]
    <2>1. a \in Agents
      BY <1>2 DEF IInv, Born, All, Agents, Root
    <2>2. Waits(p, a) /\ p \in All
      BY <1>2, <2>1 DEF IInv, Nested, Live, TypeOK
    <2>3. p # a
      BY <2>2, CallersChild DEF Waits
    <2>4. /\ pc' \in [All -> Counters] /\ pc'[a] = "over"
          /\ pc'[p] = IF status[a] = "success" THEN "thinking" ELSE AfterFailure(p)
          /\ \A d \in All \ {a, p} : pc'[d] = pc[d]
      BY <1>2, <2>2, <2>3 DEF IInv, TypeOK, Counters, Live, Gone, AfterFailure
    <2>5. a \in finished'
      OBVIOUS
    <2>6. pc'[p] \in {"thinking", "backoff"} /\ (pc'[p] = "backoff" => attempt[p] < Attempts)
      BY <2>4 DEF AfterFailure
    <2>8. a \notin registry
      BY <1>2 DEF IInv, Registered
    <2>7. Forget(p) /\ pc[p] = "calling" /\ child[p] = a
      BY <1>2, <2>2 DEF Waits
    <2>. QED
      BY <1>1, <2>1, <2>2, <2>4, <2>5, <2>6, <2>7, <2>8, CallReturns DEF Gone
  <1>3. CASE mode[a] # "foreground"
    <2>1. /\ pc' \in [All -> Counters] /\ pc'[a] = "over" /\ \A d \in All \ {a} : pc'[d] = pc[d]
          /\ child' = child /\ attempt' = attempt
      BY <1>3 DEF IInv, TypeOK, Counters, Live, Gone
    <2>2. \A b \in All : child[b] = a => pc[b] # "calling" /\ pc[b] # "backoff"
      BY <1>3 DEF IInv, CallsPaired, Live, Gone
    <2>3. Nested'
      <3> SUFFICES ASSUME NEW d \in Agents, pc'[d] \in Live,
                          mode[d] = "foreground" \/ pc'[d] = "announced"
                   PROVE  Waits(parent[d], d)'
        BY DEF Nested, Waits
      <3>1. d # a /\ pc'[d] = pc[d]
        BY <2>1 DEF Live
      <3>2. Waits(parent[d], d) /\ parent[d] \in All
        BY <3>1 DEF IInv, Nested, TypeOK
      <3>3. parent[d] # a
        BY <3>2 DEF Waits
      <3>. QED
        BY <2>1, <3>2, <3>3 DEF Waits
    <2>4. BackgroundKnown'
      BY <1>1, <2>1 DEF IInv, BackgroundKnown
    <2>5. CallsPaired'
      BY <2>1, <2>2 DEF IInv, CallsPaired, Live, HasAgentTools
    <2>6. Registered'
      BY <2>1 DEF IInv, TypeOK, Registered
    <2>. QED
      BY <1>1, <2>1, <2>3, <2>4, <2>5, <2>6, SameTree DEF IInv, TypeOK
  <1>. QED
    BY <1>2, <1>3

LEMMA LoopEndsStep ==
  ASSUME IInv, NEW a \in All, NEW how \in {"success", "failed"}, LoopEnds(a, how)
  PROVE  IInv'
  <1> USE AgentsAreAll DEF LoopEnds
  <1>1. /\ pc' \in [All -> Counters] /\ pc'[a] = "finishing" /\ \A d \in All \ {a} : pc'[d] = pc[d]
        /\ status' \in [All -> {"running", "success", "failed"}]
    BY DEF IInv, TypeOK, Counters, Live, Gone
  <1>2. Nested'
    BY <1>1 DEF IInv, Nested, Waits, Live
  <1>3. BackgroundKnown'
    BY <1>1 DEF IInv, BackgroundKnown
  <1>4. CallsPaired'
    BY <1>1 DEF IInv, CallsPaired, Live, Gone, HasAgentTools
  <1>5. Registered'
    BY <1>1 DEF IInv, TypeOK, Registered
  <1>. QED
    BY <1>1, <1>2, <1>3, <1>4, <1>5, SameTree DEF IInv, TypeOK

LEMMA AgentResultStep ==
  ASSUME IInv, NEW a \in All, NEW b \in Agents, AgentResult(a, b)
  PROVE  IInv'
  <1> USE AgentsAreAll DEF AgentResult
  <1>1. TypeOK' /\ Nested' /\ Born' /\ CallsPaired' /\ Registered'
    BY DEF IInv, TypeOK, Nested, Waits, Born, CallsPaired, HasAgentTools, Registered
  <1>2. pc[b] \in Counters
    BY DEF IInv, TypeOK, Counters
  <1>3. pc[b] \notin Live => b \in finished \/ pc[b] = "broken"
    BY <1>2 DEF IInv, Registered, Counters, Gone
  <1>4. BackgroundKnown'
    BY <1>3 DEF IInv, BackgroundKnown
  <1>. QED
    BY <1>1, <1>4 DEF IInv

-----------------------------------------------------------------------------
\* All that runs inside a's call is cancelled, and a itself does not call any more.
LEMMA CancelBelow ==
  ASSUME IInv, NEW a \in All, NEW then \in {"thinking", "cancelled"},
         pc[a] \in {"thinking", "calling", "backoff"}, mode[a] # "foreground",
         a \in registry => then = "thinking",
         pc' = [b \in All |-> IF b = a THEN then
                              ELSE IF b \in Below(a) THEN "cancelled" ELSE pc[b]],
         UNCHANGED <<mode, parent, status, next, registry, finished, told>>,
         child' \in [All -> All], attempt' \in [All -> 1..Attempts],
         \A b \in All \ {a} : child'[b] = child[b] /\ attempt'[b] = attempt[b]
  PROVE  IInv'
  <1> USE AgentsAreAll
  <1>1. a \notin Below(a)
    <2>1. ~Waits(a, a)
      BY CallersChild DEF Waits
    <2>2. \A b \in Agents : ~(Waits(a, b) /\ Waits(b, a))
      BY DEF IInv, CallsPaired, Waits, Live
    <2>. QED
      BY <2>1, <2>2 DEF Below
  <1>2. \A c \in Below(a) : /\ c \in Agents
                            /\ pc[c] \in Live
                            /\ pc[c] = "announced" \/ mode[c] = "foreground"
    BY DEF Below, Waits, IInv, CallsPaired
  <1>3. \A c \in Agents : c \notin Below(a) /\ c # a /\ pc[c] \in Live
           /\ (pc[c] = "announced" \/ mode[c] = "foreground") =>
              Waits(parent[c], c) /\ parent[c] \in All /\ parent[c] # a
              /\ parent[c] \notin Below(a)
    <2> SUFFICES ASSUME NEW c \in Agents, c \notin Below(a), pc[c] \in Live,
                        pc[c] = "announced" \/ mode[c] = "foreground"
                 PROVE  Waits(parent[c], c) /\ parent[c] \in All /\ parent[c] # a
                        /\ parent[c] \notin Below(a)
      OBVIOUS
    <2>1. Waits(parent[c], c) /\ parent[c] \in All
      BY DEF IInv, Nested, TypeOK
    <2>2. parent[c] # a
      BY <2>1 DEF Below
    <2>3. ASSUME parent[c] \in Below(a) PROVE FALSE
      <3> DEFINE b == parent[c]
      <3>1. b \in Agents /\ ~Waits(a, b)
        BY <2>1, <2>3 DEF Below
      <3>2. PICK d \in Agents : Waits(a, d) /\ Waits(d, b)
        BY <2>3, <3>1 DEF Below
      <3>3. HasAgentTools(b) /\ parent[b] = d
        BY <2>1, <3>2 DEF Waits, IInv, CallsPaired
      <3>. QED
        BY <3>1, <3>2, <3>3 DEF HasAgentTools
    <2>. QED
      BY <2>1, <2>2, <2>3
  <1>4. pc' \in [All -> Counters] /\ \A c \in Agents : pc[c] = "unborn" <=> pc'[c] = "unborn"
    <2>1. pc' \in [All -> Counters]
      BY DEF IInv, TypeOK, Counters, Live, Gone
    <2>2. \A c \in Agents : pc[c] = "unborn" <=> pc'[c] = "unborn"
      BY <1>2 DEF Live
    <2>. QED
      BY <2>1, <2>2
  <1>5. Nested'
    <2> SUFFICES ASSUME NEW c \in Agents, pc'[c] \in Live,
                        mode[c] = "foreground" \/ pc'[c] = "announced"
                 PROVE  Waits(parent[c], c)'
      BY DEF Nested, Waits
    <2>1. c # a /\ c \notin Below(a) /\ pc'[c] = pc[c]
      BY DEF Live
    <2>. QED
      BY <2>1, <1>3 DEF Waits
  <1>6. BackgroundKnown'
    <2>1. \A c \in Agents : c # a => pc'[c] = pc[c] \/ pc'[c] = "cancelled"
      OBVIOUS
    <2>2. \A c \in Agents : pc[c] = "broken" => c \notin Below(a) /\ c # a /\ pc'[c] = "broken"
      BY <1>2 DEF Live
    <2>3. pc'[a] \in {"thinking", "cancelled"}
      OBVIOUS
    <2>. QED
      BY <2>1, <2>2, <2>3 DEF IInv, BackgroundKnown
  <1>7. CallsPaired'
    <2> SUFFICES ASSUME NEW b \in All
        PROVE /\ pc'[b] = "calling" =>
                   /\ child'[b] \in Agents
                   /\ parent[child'[b]] = b
                   /\ pc'[child'[b]] \in Live
                   /\ pc'[child'[b]] = "announced" \/ mode[child'[b]] = "foreground"
                   /\ HasAgentTools(b)
              /\ pc'[b] = "backoff" =>
                   child'[b] \in Agents /\ pc'[child'[b]] \in Gone /\ attempt'[b] < Attempts
                   /\ HasAgentTools(b)
      BY DEF CallsPaired, HasAgentTools
    <2>1. CASE b = a
      BY <2>1
    <2>2. CASE b # a /\ pc'[b] = "calling"
      <3>1. b \notin Below(a) /\ pc[b] = "calling" /\ child'[b] = child[b]
        BY <2>2
      <3>2. /\ child[b] \in Agents /\ parent[child[b]] = b /\ pc[child[b]] \in Live
            /\ pc[child[b]] = "announced" \/ mode[child[b]] = "foreground"
            /\ HasAgentTools(b)
        BY <3>1 DEF IInv, CallsPaired
      <3>3. child[b] \notin Below(a)
        <4> SUFFICES ASSUME child[b] \in Below(a) PROVE FALSE
          OBVIOUS
        <4>1. PICK d \in All : Waits(d, child[b]) /\ (d = a \/ d \in Below(a))
          BY DEF Below
        <4>2. d = b
          BY <3>1, <4>1, OneWaits DEF Waits
        <4>. QED
          BY <2>2, <3>1, <4>1, <4>2
      <3>4. child[b] # a
        BY <3>2 DEF Live
      <3>. QED
        BY <2>2, <3>1, <3>2, <3>3, <3>4
    <2>3. CASE b # a /\ pc'[b] = "backoff"
      <3>1. pc[b] = "backoff" /\ child'[b] = child[b] /\ attempt'[b] = attempt[b]
        BY <2>3
      <3>2. /\ child[b] \in Agents /\ pc[child[b]] \in Gone /\ attempt[b] < Attempts
            /\ HasAgentTools(b)
        BY <3>1 DEF IInv, CallsPaired
      <3>3. child[b] # a /\ child[b] \notin Below(a)
        BY <3>2, <1>2 DEF Gone, Live
      <3>. QED
        BY <2>3, <3>1, <3>2, <3>3
    <2>. QED
      BY <2>1, <2>2, <2>3
  <1>8. Registered'
    <2>1. \A b \in registry : b \in All /\ b \notin Below(a)
      BY <1>2 DEF IInv, TypeOK, Registered, Born
    <2>. QED
      BY <2>1 DEF IInv, Registered
  <1>. QED
    BY <1>4, <1>5, <1>6, <1>7, <1>8, SameTree DEF IInv, TypeOK

THEOREM StepInv == IInv /\ [Next]_vars => IInv'
  <1> SUFFICES ASSUME IInv, [Next]_vars PROVE IInv'
    OBVIOUS
  <1> USE AgentsAreAll
  <1>1. ASSUME NEW a \in All, ToolTimeout(a) PROVE IInv'
    <2>1. TypeOK /\ Forget(a)
      BY <1>1 DEF IInv, ToolTimeout
    <2>2. child' \in [All -> All] /\ attempt' \in [All -> 1..Attempts]
          /\ \A b \in All \ {a} : child'[b] = child[b] /\ attempt'[b] = attempt[b]
      BY <2>1, Forgotten
    <2>. QED
      BY <1>1, <2>2, CancelBelow DEF ToolTimeout
  <1>2. ASSUME CancelRun PROVE IInv'
    <2>1. mode[Root] # "foreground" /\ Root \notin registry
      BY DEF IInv, Born, TypeOK
    <2>2. pc' = [b \in All |-> IF b = Root THEN "cancelled"
                               ELSE IF b \in Below(Root) THEN "cancelled" ELSE pc[b]]
      BY <1>2 DEF CancelRun
    <2>. QED
      BY <1>2, <2>1, <2>2, CancelBelow DEF CancelRun, IInv, TypeOK
  <1>3. CASE UNCHANGED vars
    <2> USE <1>3 DEF vars
    <2>1. TypeOK' /\ Nested' /\ BackgroundKnown' /\ Born' /\ CallsPaired' /\ Registered'
      BY DEF IInv, TypeOK, Nested, BackgroundKnown, Waits, Born, CallsPaired,
             HasAgentTools, Registered
    <2>. QED
      BY <2>1 DEF IInv
  <1>4. ASSUME NEW a \in All, Start(a) PROVE IInv'
    BY <1>4, StartForegroundStep, StartBackgroundStep, StartFailsStep DEF Start
  <1>. QED
    BY <1>1, <1>2, <1>3, <1>4, SpawnStep, RetryStep, FinishStep, LoopEndsStep,
       AgentResultStep DEF Next

-----------------------------------------------------------------------------
\* However calls fail, are retried, time out or are cancelled, a foreground agent
\* only runs while its caller waits for it.
THEOREM AlwaysNested == Spec => []Nested
  <1>1. IInv => Nested
    BY DEF IInv
  <1>. QED
    BY InitInv, StepInv, <1>1, PTL DEF Spec

\* A background agent at work can be asked for, and has a result only once its end
\* was published.
THEOREM AlwaysBackgroundKnown == Spec => []BackgroundKnown
  <1>1. IInv => BackgroundKnown
    BY DEF IInv
  <1>. QED
    BY InitInv, StepInv, <1>1, PTL DEF Spec

\* Agents, calls and the registry stay what spawn_agent and its polls can make of
\* them: for any agents, depth and attempts.
THEOREM TypeCorrect == Spec => []TypeOK
  <1>1. IInv => TypeOK
    BY DEF IInv
  <1>. QED
    BY InitInv, StepInv, <1>1, PTL DEF Spec
=============================================================================
