--------------------------- MODULE SessionProofs ----------------------------
(***************************************************************************)
(* Theorems about Session for any number of requests, steps, tool calls    *)
(* and replies: the inductive invariant IInv, the invariants that follow   *)
(* from it, and the refinement of Dialogue; then, with what each needs of  *)
(* the LLM's replies as a hypothesis, that requests and the thread pair    *)
(* calls with results, that runs see their message and nothing is lost.    *)
(***************************************************************************)
EXTENDS Session, ThreadProofs

USE LoopAssumption, SessionAssumption

----------------------------------------------------------------------------
\* Messages and their types.

LEMMA MessageType ==
  ASSUME NEW r \in Request, NEW ids \in SUBSET ToolId
  PROVE  /\ UserText(r) \in Message
         /\ Assistant(r, ids) \in Message
         /\ ResultsOf(r, ids) \in Message
         /\ Condensed(r) \in Seq(Message)
  BY DEF Message, UserText, Assistant, ResultsOf, Condensed

LEMMA IdsType ==
  ASSUME NEW r \in Request, NEW n \in 0..MaxCalls, step[r] \in 1..MaxSteps
  PROVE  IdSet(r, n) \in SUBSET ToolId /\ CallIds(r, n) \in Seq(ToolId)
  BY DEF IdSet, CallIds, ToolId

\* Each message of n behind the first p is r's own, and carries a user's text
\* only if it was there before.
OwnAdditions(r, p, m, n) ==
  \A i \in 1..Len(n) : i > p =>
     /\ n[i].turn = r
     /\ n[i].text = "message" => i <= Len(m) /\ m[i].text = "message"

LEMMA AddMessage ==
  ASSUME NEW r \in Request, NEW p \in Nat, NEW m \in Seq(Message), OwnAdditions(r, p, m, m),
         NEW x \in Message, x.turn = r, x.text # "message"
  PROVE  Append(m, x) \in Seq(Message) /\ OwnAdditions(r, p, m, Append(m, x))
  <1>1. /\ Append(m, x) \in Seq(Message)
        /\ Len(Append(m, x)) = Len(m) + 1 /\ Len(m) \in Nat
        /\ \A i \in 1..Len(m) : Append(m, x)[i] = m[i]
        /\ Append(m, x)[Len(m) + 1] = x
    BY AppendProperties, LenProperties
  <1>. QED
    BY <1>1 DEF OwnAdditions

LEMMA AddResultKeeps ==
  ASSUME NEW r \in Request, NEW p \in Nat, NEW m \in Seq(Message), OwnAdditions(r, p, m, m),
         NEW id \in ToolId
  PROVE  AddResult(m, r, id) \in Seq(Message) /\ OwnAdditions(r, p, m, AddResult(m, r, id))
  <1>1. CASE m # <<>> /\ m[Len(m)].results # {}
    <2> DEFINE e == [m[Len(m)] EXCEPT !.results = @ \cup {id}]
    <2>1. Len(m) \in 1..Len(m)
      BY <1>1, EmptySeq, LenProperties
    <2>2. m[Len(m)] \in Message
      BY <2>1, ElementOfSeq
    <2>3. e \in Message /\ e.turn = m[Len(m)].turn /\ e.text = m[Len(m)].text
      BY <2>2 DEF Message
    <2>4. AddResult(m, r, id) = [m EXCEPT ![Len(m)] = e]
      BY <1>1 DEF AddResult
    <2> HIDE DEF e
    <2>5. /\ [m EXCEPT ![Len(m)] = e] \in Seq(Message)
          /\ Len([m EXCEPT ![Len(m)] = e]) = Len(m)
          /\ \A j \in 1..Len(m) : [m EXCEPT ![Len(m)] = e][j] = IF j = Len(m) THEN e ELSE m[j]
      BY <2>1, <2>3, ExceptSeq
    <2>. QED
      BY <2>1, <2>3, <2>4, <2>5 DEF OwnAdditions
  <1>2. CASE ~(m # <<>> /\ m[Len(m)].results # {})
    <2>1. AddResult(m, r, id) = Append(m, ResultsOf(r, {id}))
      BY <1>2 DEF AddResult
    <2>2. ResultsOf(r, {id}) \in Message
      BY MessageType
    <2>3. ResultsOf(r, {id}).turn = r /\ ResultsOf(r, {id}).text # "message"
      BY DEF ResultsOf
    <2>. QED
      BY <2>1, <2>2, <2>3, AddMessage
  <1>. QED
    BY <1>1, <1>2

LEMMA CutShortKeeps ==
  ASSUME NEW r \in Request, NEW p \in Nat, messages[r] \in Seq(Message),
         OwnAdditions(r, p, messages[r], messages[r]),
         NEW n \in 0..MaxCalls, step[r] \in 1..MaxSteps
  PROVE  /\ CutShort(r, n) \in Seq(Message)
         /\ OwnAdditions(r, p, messages[r], CutShort(r, n))
  <1> DEFINE m == messages[r]
  <1> DEFINE x == Assistant(r, IdSet(r, n))
  <1> DEFINE y == ResultsOf(r, IdSet(r, n))
  <1>1. x \in Message /\ y \in Message
    BY IdsType, MessageType
  <1>2. x.turn = r /\ y.turn = r /\ x.text # "message" /\ y.text # "message"
    BY DEF Assistant, ResultsOf
  <1>3. CutShort(r, n) = m \o <<x, y>>
    BY DEF CutShort
  <1> HIDE DEF m, x, y
  <1>4. <<x, y>> \in Seq(Message) /\ Len(<<x, y>>) = 2 /\ <<x, y>>[1] = x /\ <<x, y>>[2] = y
    BY <1>1
  <1>5. m \in Seq(Message)
    BY DEF m
  <1>6. /\ m \o <<x, y>> \in Seq(Message)
        /\ Len(m \o <<x, y>>) = Len(m) + 2 /\ Len(m) \in Nat
        /\ \A i \in 1..(Len(m) + 2) : (m \o <<x, y>>)[i] =
              IF i <= Len(m) THEN m[i] ELSE <<x, y>>[i - Len(m)]
    BY <1>4, <1>5, ConcatProperties, LenProperties
  <1>7. \A i \in 1..(Len(m) + 2) : i > Len(m) => i - Len(m) = 1 \/ i - Len(m) = 2
    BY <1>6
  <1>8. OwnAdditions(r, p, m, m \o <<x, y>>)
    BY <1>2, <1>4, <1>6, <1>7 DEF OwnAdditions, m
  <1>. QED
    BY <1>3, <1>6, <1>8 DEF m
----------------------------------------------------------------------------
\* A step of a run's loop.

Phases == {"none", "planning", "acting", "condensing", "ended"}
Outcomes == {"none", "running", "success", "failed"}

LoopWell(r) ==
  /\ phase[r] \in {"planning", "acting", "condensing"} => step[r] >= 1
  /\ phase[r] = "condensing" => step[r] < MaxSteps
  /\ phase[r] = "acting" => todo[r] # <<>>

\* What a step leaves behind in the run's control, whatever comes next.
Moved(r) ==
  /\ step' \in [Request -> 0..MaxSteps]
  /\ phase' \in [Request -> Phases]
  /\ outcome' \in [Request -> Outcomes]
  /\ phase'[r] \in {"planning", "acting", "condensing", "ended"}
  /\ phase'[r] # "ended" => step'[r] >= 1
  /\ phase'[r] = "condensing" => step'[r] < MaxSteps
  /\ \A q \in Request \ {r} : phase'[q] = phase[q] /\ step'[q] = step[q]

LEMMA EndLoopMoves ==
  ASSUME LoopTypeOK, NEW r \in Request, NEW s \in {"success", "failed"}, EndLoop(r, s)
  PROVE  Moved(r) /\ phase'[r] # "acting"
  BY DEF LoopTypeOK, EndLoop, Moved, Phases, Outcomes

LEMMA NextStepMoves ==
  ASSUME LoopTypeOK, NEW r \in Request, step[r] < MaxSteps, NextStep(r)
  PROVE  Moved(r) /\ phase'[r] # "acting"
  <1>1. step[r] + 1 \in 1..MaxSteps
    BY DEF LoopTypeOK
  <1>2. step' \in [Request -> 0..MaxSteps] /\ step'[r] = step[r] + 1
    BY <1>1 DEF LoopTypeOK, NextStep
  <1>3. phase' \in [Request -> Phases] /\ phase'[r] = "planning"
    BY DEF LoopTypeOK, NextStep, Phases
  <1>4. outcome' \in [Request -> Outcomes]
    BY DEF LoopTypeOK, NextStep, Outcomes
  <1>5. \A q \in Request \ {r} : phase'[q] = phase[q] /\ step'[q] = step[q]
    BY DEF LoopTypeOK, NextStep
  <1>. QED
    BY <1>1, <1>2, <1>3, <1>4, <1>5 DEF Moved

LEMMA EndStepMoves ==
  ASSUME LoopTypeOK, NEW r \in Request, step[r] >= 1, NEW stop, EndStep(r, stop)
  PROVE  Moved(r) /\ phase'[r] # "acting"
  <1>1. CASE EndLoop(r, "success") \/ EndLoop(r, "failed")
    BY <1>1, EndLoopMoves
  <1>2. CASE ~LimitReached(r) /\ NextStep(r)
    <2>1. step[r] < MaxSteps
      BY <1>2 DEF LimitReached, LoopTypeOK
    <2>. QED
      BY <1>2, <2>1, NextStepMoves
  <1>3. CASE /\ ~LimitReached(r)
             /\ phase' = [phase EXCEPT ![r] = "condensing"]
             /\ UNCHANGED <<step, outcome>>
    BY <1>3 DEF LoopTypeOK, Moved, Phases, Outcomes, LimitReached
  <1>. QED
    BY <1>1, <1>2, <1>3 DEF EndStep

\* The whole effect of a step of run r on the loops' variables.
LoopEffect(r) ==
  /\ LoopTypeOK'
  /\ prefill' = prefill
  /\ LoopWell(r)' /\ phase'[r] # "none"
  /\ OwnAdditions(r, prefill[r], messages[r], messages'[r])
  /\ \A q \in Request \ {r} : /\ messages'[q] = messages[q] /\ phase'[q] = phase[q]
                              /\ step'[q] = step[q] /\ todo'[q] = todo[q]

LEMMA EffectOf ==
  ASSUME LoopTypeOK, NEW r \in Request, Moved(r), prefill' = prefill,
         NEW m \in Seq(Message), OwnAdditions(r, prefill[r], messages[r], m),
         messages' = [messages EXCEPT ![r] = m],
         todo' \in [Request -> Seq(ToolId)], phase'[r] = "acting" => todo'[r] # <<>>,
         \A q \in Request \ {r} : todo'[q] = todo[q]
  PROVE  LoopEffect(r)
  <1>1. messages' \in [Request -> Seq(Message)] /\ messages'[r] = m
    BY DEF LoopTypeOK
  <1>2. \A q \in Request \ {r} : messages'[q] = messages[q]
    BY DEF LoopTypeOK
  <1>3. LoopTypeOK'
    BY <1>1 DEF LoopTypeOK, Moved, Phases, Outcomes
  <1>4. LoopWell(r)' /\ phase'[r] # "none"
    BY DEF LoopWell, Moved
  <1>. QED
    BY <1>1, <1>2, <1>3, <1>4 DEF LoopEffect, Moved

LEMMA LoopStepEffect ==
  ASSUME LoopTypeOK, NEW r \in Request, LoopWell(r),
         OwnAdditions(r, prefill[r], messages[r], messages[r]), LoopStep(r)
  PROVE  LoopEffect(r)
  <1> DEFINE p == prefill[r]
  <1> DEFINE m == messages[r]
  <1>1. m \in Seq(Message) /\ p \in Nat /\ step[r] \in 0..MaxSteps /\ todo[r] \in Seq(ToolId)
    BY DEF LoopTypeOK
  <1>2. ASSUME NEW n \in 0..MaxCalls, PlansTools(r, n)
        PROVE  LoopEffect(r)
    <2>1. step[r] \in 1..MaxSteps
      BY <1>1, <1>2 DEF PlansTools, LoopWell
    <2>2. Assistant(r, IdSet(r, n)) \in Message /\ CallIds(r, n) \in Seq(ToolId)
      BY <2>1, IdsType, MessageType
    <2>3. Assistant(r, IdSet(r, n)).turn = r /\ Assistant(r, IdSet(r, n)).text # "message"
      BY DEF Assistant
    <2>4. /\ Append(m, Assistant(r, IdSet(r, n))) \in Seq(Message)
          /\ OwnAdditions(r, p, m, Append(m, Assistant(r, IdSet(r, n))))
      BY <1>1, <2>2, <2>3, AddMessage
    <2>5. CallIds(r, n) # <<>>
      <3>1. n \in 1..MaxCalls
        BY <1>2 DEF PlansTools
      <3>2. Len(CallIds(r, n)) = n
        BY <3>1 DEF CallIds
      <3>. QED
        BY <3>1, <3>2
    <2>6. Moved(r)
      BY <1>2, <2>1 DEF PlansTools, LoopTypeOK, Moved, Phases, Outcomes
    <2>7. /\ todo' \in [Request -> Seq(ToolId)] /\ todo'[r] # <<>>
          /\ \A q \in Request \ {r} : todo'[q] = todo[q]
      BY <1>2, <2>2, <2>5 DEF PlansTools, LoopTypeOK
    <2>8. messages' = [messages EXCEPT ![r] = Append(m, Assistant(r, IdSet(r, n)))] /\ prefill' = prefill
      BY <1>2 DEF PlansTools
    <2>. QED
      BY <2>4, <2>6, <2>7, <2>8, EffectOf
  <1>3. ASSUME NEW reply \in Reply, PlansNothing(r, reply[1], reply[2])
        PROVE  LoopEffect(r)
    <2>1. step[r] \in 1..MaxSteps
      BY <1>1, <1>3 DEF PlansNothing, LoopWell
    <2>2. reply[2] \in 0..MaxCalls
      OBVIOUS
    <2>3. PICK x \in Seq(Message) : /\ messages' = [messages EXCEPT ![r] = x]
                                    /\ OwnAdditions(r, p, m, x)
      <3>1. CASE reply[1] = "max_tokens" /\ reply[2] > 0
        <4>1. messages' = [messages EXCEPT ![r] = CutShort(r, reply[2])]
          BY <1>3, <3>1 DEF PlansNothing
        <4>. QED
          BY <1>1, <2>1, <2>2, <4>1, CutShortKeeps
      <3>2. CASE ~(reply[1] = "max_tokens" /\ reply[2] > 0)
        <4> DEFINE x == Assistant(r, IdSet(r, reply[2]))
        <4>1. messages' = [messages EXCEPT ![r] = Append(m, x)]
          BY <1>3, <3>2 DEF PlansNothing
        <4>2. x \in Message
          BY <2>1, <2>2, IdsType, MessageType
        <4>3. x.turn = r /\ x.text # "message"
          BY DEF Assistant
        <4>4. Append(m, x) \in Seq(Message) /\ OwnAdditions(r, p, m, Append(m, x))
          BY <1>1, <4>2, <4>3, AddMessage
        <4>. QED
          BY <4>1, <4>4
      <3>. QED
        BY <3>1, <3>2
    <2>4. EndStep(r, reply[1]) /\ prefill' = prefill /\ todo' = todo
      BY <1>3 DEF PlansNothing
    <2>5. Moved(r) /\ phase'[r] # "acting"
      BY <2>1, <2>4, EndStepMoves
    <2>6. todo' \in [Request -> Seq(ToolId)]
      BY <2>4 DEF LoopTypeOK
    <2>. QED
      BY <2>3, <2>4, <2>5, <2>6, EffectOf
  <1>4. CASE PlanFails(r)
    <2>1. Moved(r) /\ phase'[r] # "acting"
      BY <1>4, EndLoopMoves DEF PlanFails
    <2>2. messages' = [messages EXCEPT ![r] = m] /\ prefill' = prefill /\ todo' = todo
      BY <1>4 DEF PlanFails, LoopTypeOK
    <2>3. todo' \in [Request -> Seq(ToolId)]
      BY <2>2 DEF LoopTypeOK
    <2>. QED
      BY <1>1, <2>1, <2>2, <2>3, EffectOf
  <1>5. CASE ToolReturns(r)
    <2>1. todo[r] # <<>> /\ step[r] \in 1..MaxSteps
      BY <1>1, <1>5 DEF ToolReturns, LoopWell
    <2>2. Head(todo[r]) \in ToolId /\ Tail(todo[r]) \in Seq(ToolId)
      BY <1>1, <2>1, HeadTailProperties
    <2>3. /\ AddResult(m, r, Head(todo[r])) \in Seq(Message)
          /\ OwnAdditions(r, p, m, AddResult(m, r, Head(todo[r])))
      BY <1>1, <2>2, AddResultKeeps
    <2>4. messages' = [messages EXCEPT ![r] = AddResult(m, r, Head(todo[r]))] /\ prefill' = prefill
      BY <1>5 DEF ToolReturns
    <2>5. /\ todo' \in [Request -> Seq(ToolId)]
          /\ \A q \in Request \ {r} : todo'[q] = todo[q]
      BY <1>5, <2>2 DEF ToolReturns, LoopTypeOK
    <2>6. Moved(r) /\ (phase'[r] = "acting" => todo'[r] # <<>>)
      <3>1. CASE todo'[r] = <<>>
        <4>1. EndStep(r, "tool_use")
          BY <1>5, <3>1 DEF ToolReturns
        <4>. QED
          BY <2>1, <4>1, EndStepMoves
      <3>2. CASE todo'[r] # <<>>
        <4>1. phase[r] = "acting" /\ UNCHANGED <<step, phase, outcome>>
          BY <1>5, <3>2 DEF ToolReturns
        <4>. QED
          BY <2>1, <3>2, <4>1 DEF Moved, LoopTypeOK, Phases, Outcomes
      <3>. QED
        BY <3>1, <3>2
    <2>. QED
      BY <2>3, <2>4, <2>5, <2>6, EffectOf
  <1>6. CASE Condenses(r)
    <2>1. step[r] < MaxSteps /\ NextStep(r)
      BY <1>6 DEF Condenses, LoopWell
    <2>2. Moved(r) /\ phase'[r] # "acting"
      BY <2>1, NextStepMoves
    <2>3. prefill' = prefill /\ todo' = todo
      BY <1>6 DEF Condenses
    <2>4. todo' \in [Request -> Seq(ToolId)]
      BY <2>3 DEF LoopTypeOK
    <2>5. CASE messages' = [messages EXCEPT ![r] = Condensed(r)]
      <3>1. Condensed(r) \in Seq(Message)
        BY MessageType
      <3>2. OwnAdditions(r, p, m, Condensed(r))
        BY DEF OwnAdditions, Condensed, Assistant
      <3>. QED
        BY <2>2, <2>3, <2>4, <2>5, <3>1, <3>2, EffectOf
    <2>6. CASE UNCHANGED messages
      <3>1. messages' = [messages EXCEPT ![r] = m]
        BY <2>6 DEF LoopTypeOK
      <3>. QED
        BY <1>1, <2>2, <2>3, <2>4, <3>1, EffectOf
    <2>. QED
      BY <1>6, <2>5, <2>6 DEF Condenses
  <1>. QED
    BY <1>2, <1>3, <1>4, <1>5, <1>6 DEF LoopStep
----------------------------------------------------------------------------
\* How the other actions treat the loops.

LEMMA StartLoopEffect ==
  ASSUME LoopTypeOK, NEW r \in Request, NEW h \in Seq(Message), StartLoop(r, h)
  PROVE  /\ LoopTypeOK' /\ LoopWell(r)' /\ phase'[r] # "none"
         /\ \A i \in 1..Len(messages'[r]) : i > prefill'[r] => messages'[r][i].turn = r
         /\ \A q \in Request \ {r} : /\ messages'[q] = messages[q] /\ prefill'[q] = prefill[q]
                                     /\ phase'[q] = phase[q] /\ step'[q] = step[q]
                                     /\ todo'[q] = todo[q]
  <1> DEFINE m == IF h = <<>> THEN <<UserText(r)>> ELSE h
  <1>1. m \in Seq(Message) /\ Len(h) \in Nat
    BY MessageType, LenProperties
  <1>2. \A i \in 1..Len(m) : i > Len(h) => m[i].turn = r
    BY DEF UserText
  <1>3. messages' = [messages EXCEPT ![r] = m]
    BY DEF StartLoop
  <1> HIDE DEF m
  <1>4. messages' \in [Request -> Seq(Message)] /\ messages'[r] = m
    BY <1>1, <1>3 DEF LoopTypeOK
  <1>5. prefill' \in [Request -> Nat] /\ prefill'[r] = Len(h)
    BY <1>1 DEF LoopTypeOK, StartLoop
  <1>6. LoopTypeOK' /\ LoopWell(r)' /\ phase'[r] # "none"
    BY <1>4, <1>5 DEF LoopTypeOK, StartLoop, LoopWell
  <1>7. \A q \in Request \ {r} : /\ messages'[q] = messages[q] /\ prefill'[q] = prefill[q]
                                 /\ phase'[q] = phase[q] /\ step'[q] = step[q]
                                 /\ todo'[q] = todo[q]
    BY <1>3 DEF LoopTypeOK, StartLoop
  <1>. QED
    BY <1>2, <1>4, <1>5, <1>6, <1>7

LEMMA DropContextEffect ==
  ASSUME LoopTypeOK, NEW r \in Request, DropContext(r)
  PROVE  /\ LoopTypeOK' /\ phase'[r] = "none"
         /\ \A q \in Request \ {r} : /\ messages'[q] = messages[q] /\ prefill'[q] = prefill[q]
                                     /\ phase'[q] = phase[q] /\ step'[q] = step[q]
                                     /\ todo'[q] = todo[q]
  <1>1. /\ messages' \in [Request -> Seq(Message)]
        /\ todo' \in [Request -> Seq(ToolId)]
    BY EmptySeq DEF LoopTypeOK, DropContext
  <1>2. LoopTypeOK' /\ phase'[r] = "none"
    BY <1>1 DEF LoopTypeOK, DropContext
  <1>. QED
    BY <1>2 DEF LoopTypeOK, DropContext

LEMMA LeaveLoopEffect ==
  ASSUME LoopTypeOK, NEW r \in Request, LeaveLoop(r)
  PROVE  /\ LoopTypeOK' /\ phase'[r] = "ended"
         /\ UNCHANGED <<messages, prefill, step, todo>>
         /\ \A q \in Request \ {r} : phase'[q] = phase[q]
  BY DEF LoopTypeOK, LeaveLoop, EndLoop

----------------------------------------------------------------------------
\* What a run, or a failing save of it, writes to the thread.

LEMMA NewMessagesOwn ==
  ASSUME TypeOK, NEW r \in Request, ContextInv(r), loc[r] = "running"
  PROVE  /\ NewMessages(r) \in Seq(Message)
         /\ \A i \in 1..Len(NewMessages(r)) :
               /\ NewMessages(r)[i].turn = r
               /\ NewMessages(r)[i].text = "message" => r \in HeardIn(thread)
  <1> DEFINE m == messages[r]
  <1> DEFINE p == prefill[r]
  <1>1. m \in Seq(Message) /\ p \in Nat
    BY DEF TypeOK, LoopTypeOK
  <1>2. \A i \in 1..Len(m) : i > p => /\ m[i].turn = r
                                      /\ m[i].text = "message" => r \in HeardIn(thread)
    BY DEF ContextInv
  <1>3. NewMessages(r) = SubSeq(m, p + 1, Len(m))
    BY DEF NewMessages
  <1>4. Len(m) \in 0..Len(m) /\ p + 1 \in Nat \ {0}
    BY <1>1, LenProperties
  <1>5. /\ SubSeq(m, p + 1, Len(m)) \in Seq(Message)
        /\ \A i \in 1..Len(SubSeq(m, p + 1, Len(m))) :
              \E j \in (p + 1)..Len(m) : j \in 1..Len(m) /\ SubSeq(m, p + 1, Len(m))[i] = m[j]
    <2> HIDE DEF m, p
    <2>. QED
      BY <1>1, <1>4, SliceMember
  <1> DEFINE c == SubSeq(m, p + 1, Len(m))
  <1> HIDE DEF c, m, p
  <1>. QED
    BY <1>1, <1>2, <1>3, <1>5 DEF c

LEMMA PrefixOwn ==
  ASSUME NEW r, NEW n \in Seq(Message), NEW k \in 0..(Len(n) - 1),
         \A i \in 1..Len(n) : /\ n[i].turn = r
                              /\ n[i].text = "message" => r \in HeardIn(thread)
  PROVE  /\ SubSeq(n, 1, k) \in Seq(Message)
         /\ \A i \in 1..Len(SubSeq(n, 1, k)) :
               /\ SubSeq(n, 1, k)[i].turn = r
               /\ SubSeq(n, 1, k)[i].text = "message" => r \in HeardIn(thread)
  <1> DEFINE c == SubSeq(n, 1, k)
  <1>1. k \in 0..Len(n)
    BY LenProperties
  <1>2. /\ c \in Seq(Message)
        /\ \A i \in 1..Len(c) : \E j \in 1..k : j \in 1..Len(n) /\ c[i] = n[j]
    BY <1>1, SliceMember
  <1> HIDE DEF c
  <1>. QED
    BY <1>2 DEF c

\* The three ways a thread changes.
Grows(r, n) ==
  /\ n \in Seq(Message)
  /\ thread' = thread \o n
  /\ \A i \in 1..Len(n) : n[i].turn = r

GrowsQuietly(r, n) ==
  /\ Grows(r, n)
  /\ \A i \in 1..Len(n) : n[i].text = "message" => r \in HeardIn(thread)

LEMMA HearsEffect ==
  ASSUME TypeOK, NEW r \in Request, Hears(r)
  PROVE  /\ \E n : Grows(r, n)
         /\ HeardIn(thread') = HeardIn(thread) \cup {r}
  <1>1. thread \in Seq(Message) /\ UserText(r) \in Message
    BY MessageType DEF TypeOK
  <1>2. thread' = Append(thread, UserText(r))
    BY DEF Hears
  <1>3. thread' = thread \o <<UserText(r)>>
    BY <1>1, <1>2, AppendIsConcat
  <1>4. Grows(r, <<UserText(r)>>)
    <2>1. <<UserText(r)>> \in Seq(Message) /\ Len(<<UserText(r)>>) = 1
          /\ <<UserText(r)>>[1] = UserText(r)
      BY <1>1
    <2>2. UserText(r).turn = r
      BY DEF UserText
    <2>. QED
      BY <1>3, <2>1, <2>2 DEF Grows
  <1>. QED
    BY <1>1, <1>2, <1>4, HeardAppend

LEMMA SaveEffect ==
  ASSUME TypeOK, NEW r \in Request, ContextInv(r), SaveRun(r) \/ SaveFails(r)
  PROVE  /\ \E n : GrowsQuietly(r, n)
         /\ HeardIn(thread') = HeardIn(thread)
  <1>1. loc[r] = "running"
    BY DEF SaveRun, SaveFails
  <1>2. /\ NewMessages(r) \in Seq(Message)
        /\ \A i \in 1..Len(NewMessages(r)) :
               /\ NewMessages(r)[i].turn = r
               /\ NewMessages(r)[i].text = "message" => r \in HeardIn(thread)
    BY <1>1, NewMessagesOwn
  <1>3. PICK n : GrowsQuietly(r, n)
    <2>1. CASE SaveRun(r)
      BY <1>2, <2>1 DEF SaveRun, GrowsQuietly, Grows
    <2>2. CASE SaveFails(r)
      <3>1. PICK k \in 0..(Len(NewMessages(r)) - 1) :
               thread' = thread \o SubSeq(NewMessages(r), 1, k)
        BY <2>2 DEF SaveFails
      <3> HIDE DEF NewMessages
      <3>2. GrowsQuietly(r, SubSeq(NewMessages(r), 1, k))
        BY <1>2, <3>1, PrefixOwn DEF GrowsQuietly, Grows
      <3>. QED
        BY <3>2
    <2>. QED
      BY <2>1, <2>2
  <1>4. HeardIn(thread \o n) = HeardIn(thread)
    BY <1>3, HeardConcat DEF GrowsQuietly, Grows, TypeOK
  <1>. QED
    BY <1>3, <1>4 DEF GrowsQuietly, Grows

LEMMA GrowsType ==
  ASSUME TypeOK, NEW r, NEW n, Grows(r, n)
  PROVE  thread' \in Seq(Message)
  BY ConcatProperties DEF TypeOK, Grows
LEMMA RunHoldsWell ==
  ASSUME IInv, NEW r \in Request, loc[r] = "running"
  PROVE  /\ LoopTypeOK /\ LoopWell(r)
         /\ OwnAdditions(r, prefill[r], messages[r], messages[r])
  <1>1. TypeOK /\ HandlerInv(r) /\ ContextInv(r)
    BY DEF IInv
  <1>. QED
    BY <1>1 DEF HandlerInv, LoopWell, ContextInv, OwnAdditions, TypeOK

LEMMA RunStepEffect ==
  ASSUME IInv, NEW r \in Request, RunStep(r)
  PROVE  LoopEffect(r) /\ UNCHANGED sessionVars
  BY RunHoldsWell, LoopStepEffect DEF RunStep

----------------------------------------------------------------------------
\* Types.

LEMMA LoopTypeStep ==
  ASSUME IInv, [Next]_vars
  PROVE  LoopTypeOK' /\ thread' \in Seq(Message)
  <1>1. TypeOK /\ LoopTypeOK /\ thread \in Seq(Message)
    BY DEF IInv, TypeOK
  <1>2. CASE UNCHANGED vars
    BY <1>1, <1>2 DEF vars, loopVars, sessionVars, LoopTypeOK
  <1>3. ASSUME NEW r \in Request, UNCHANGED <<loopVars, thread>>
        PROVE  LoopTypeOK' /\ thread' \in Seq(Message)
    BY <1>1, <1>3 DEF loopVars, LoopTypeOK
  <1>4. ASSUME NEW r \in Request, Send(r) \/ Resume(r)
        PROVE  LoopTypeOK' /\ thread' \in Seq(Message)
    <2>1. UNCHANGED loopVars /\ (Hears(r) \/ UNCHANGED thread)
      BY <1>4 DEF Send, Resume
    <2>2. LoopTypeOK'
      BY <1>1, <2>1 DEF loopVars, LoopTypeOK
    <2>3. thread' \in Seq(Message)
      BY <1>1, <2>1, HearsEffect, GrowsType
    <2>. QED
      BY <2>2, <2>3
  <1>5. ASSUME NEW r \in Request, StartRun(r)
        PROVE  LoopTypeOK' /\ thread' \in Seq(Message)
    <2>1. Read(thread) \in Seq(Message) /\ StartLoop(r, Read(thread)) /\ UNCHANGED thread
      BY <1>1, <1>5, TrimType DEF StartRun, Read
    <2>. QED
      BY <1>1, <2>1, StartLoopEffect
  <1>6. ASSUME NEW r \in Request, RunStep(r)
        PROVE  LoopTypeOK' /\ thread' \in Seq(Message)
    BY <1>1, <1>6, RunStepEffect DEF LoopEffect, sessionVars
  <1>7. ASSUME NEW r \in Request, SaveRun(r) \/ SaveFails(r)
        PROVE  LoopTypeOK' /\ thread' \in Seq(Message)
    <2>1. ContextInv(r)
      BY DEF IInv
    <2>2. thread' \in Seq(Message)
      BY <1>1, <1>7, <2>1, SaveEffect, GrowsType DEF GrowsQuietly
    <2>3. DropContext(r)
      BY <1>7 DEF SaveRun, SaveFails, Return
    <2>. QED
      BY <1>1, <2>2, <2>3, DropContextEffect
  <1>8. ASSUME NEW r \in Request, LoopRaises(r) \/ Cancel(r)
        PROVE  LoopTypeOK' /\ thread' \in Seq(Message)
    <2>1. UNCHANGED thread /\ (LeaveLoop(r) \/ DropContext(r))
      BY <1>8 DEF LoopRaises, Cancel, sessionVars, Return
    <2>. QED
      BY <1>1, <2>1, LeaveLoopEffect, DropContextEffect
  <1>9. ASSUME NEW r \in Request, Notified(r) \/ CloseNotified(r) \/ SummaryFails(r)
        PROVE  LoopTypeOK' /\ thread' \in Seq(Message)
    <2>1. UNCHANGED thread /\ DropContext(r)
      BY <1>9 DEF Notified, CloseNotified, SummaryFails, Return
    <2>. QED
      BY <1>1, <2>1, DropContextEffect
  <1>10. ASSUME NEW r \in Request, Compact(r)
         PROVE  LoopTypeOK' /\ thread' \in Seq(Message)
    <2>1. Read(thread) \in Seq(Message)
      BY <1>1, TrimType DEF Read
    <2>. QED
      BY <1>1, <1>10, <2>1 DEF Compact, LoopTypeOK
  <1>11. ASSUME NEW r \in Request, Summarised(r)
         PROVE  LoopTypeOK' /\ thread' \in Seq(Message)
    <2>1. thread' \in Seq(Message) /\ DropContext(r)
      BY <1>11, MessageType DEF Summarised, Return
    <2>. QED
      BY <1>1, <2>1, DropContextEffect
  <1>. QED
    BY <1>2, <1>3, <1>4, <1>5, <1>6, <1>7, <1>8, <1>9, <1>10, <1>11
       DEF Next, HandlerStep, Busy, SendToClosed, Close

LEMMA TypeStep ==
  ASSUME IInv, [Next]_vars
  PROVE  TypeOK'
  <1>1. LoopTypeOK' /\ thread' \in Seq(Message)
    BY LoopTypeStep
  <1>2. TypeOK
    BY DEF IInv
  <1> USE DEF TypeOK
  <1>3. ASSUME NEW r \in Request, Busy(r) \/ SendToClosed(r)
        PROVE  TypeOK'
    BY <1>1, <1>2, <1>3 DEF Busy, SendToClosed, Answer, Goto
  <1>4. ASSUME NEW r \in Request, Send(r) \/ Resume(r)
        PROVE  TypeOK'
    BY <1>1, <1>2, <1>4 DEF Send, Resume, Hears, Goto
  <1>5. ASSUME NEW r \in Request, StartRun(r)
        PROVE  TypeOK'
    BY <1>1, <1>2, <1>5 DEF StartRun, Goto
  <1>6. ASSUME NEW r \in Request, RunStep(r) \/ LoopRaises(r)
        PROVE  TypeOK'
    BY <1>1, <1>2, <1>6 DEF RunStep, LoopRaises, sessionVars
  <1>7. ASSUME NEW r \in Request, SaveRun(r)
        PROVE  TypeOK'
    BY <1>1, <1>2, <1>7 DEF SaveRun, Return, Answer, Goto
  <1>8. ASSUME NEW r \in Request, SaveFails(r) \/ Notified(r) \/ CloseNotified(r) \/ SummaryFails(r)
        PROVE  TypeOK'
    BY <1>1, <1>2, <1>8 DEF SaveFails, Notified, CloseNotified, SummaryFails, Return, Answer, Goto
  <1>9. ASSUME NEW r \in Request, Cancel(r)
        PROVE  TypeOK'
    BY <1>1, <1>2, <1>9 DEF Cancel, Return, Answer, Goto
  <1>10. ASSUME NEW r \in Request, Close(r) \/ Compact(r)
         PROVE  TypeOK'
    BY <1>1, <1>2, <1>10 DEF Close, Compact, Goto
  <1>11. ASSUME NEW r \in Request, Summarised(r)
         PROVE  TypeOK'
    <2>1. HeardIn(messages[r]) \subseteq Request
      <3>1. messages[r] \in Seq(Message)
        BY <1>2 DEF LoopTypeOK
      <3>2. ASSUME NEW i \in 1..Len(messages[r]) PROVE messages[r][i].turn \in Request
        <4>1. messages[r][i] \in Message
          BY <3>1, ElementOfSeq
        <4>. QED
          BY <4>1 DEF Message
      <3>. QED
        BY <3>2 DEF HeardIn
    <2>. QED
      BY <1>1, <1>2, <1>11, <2>1 DEF Summarised, Return, Answer, Goto
  <1>12. CASE UNCHANGED vars
    BY <1>1, <1>2, <1>12 DEF vars, sessionVars
  <1>. QED
    BY <1>3, <1>4, <1>5, <1>6, <1>7, <1>8, <1>9, <1>10, <1>11, <1>12 DEF Next, HandlerStep

----------------------------------------------------------------------------
\* Handlers: the lock, the place, and what a request has said.

\* At most one request is between taking the lock and giving it back.
LEMMA Exclusive ==
  ASSUME IInv, NEW r \in Request, loc[r] \in Holding
  PROVE  /\ lock = r /\ ~Free
         /\ \A q \in Request \ {r} : loc[q] \notin Holding
  BY DEF IInv, HandlerInv, Free

\* Nobody is between them when the lock is free.
LEMMA NobodyHolds ==
  ASSUME IInv, Free
  PROVE  \A q \in Request : loc[q] \notin Holding
  BY DEF IInv, HandlerInv, Free

LEMMA HandlerStepInv ==
  ASSUME IInv, [Next]_vars, NEW q \in Request
  PROVE  HandlerInv(q)'
  <1>0. /\ TypeOK /\ HandlerInv(q) /\ \A r \in Request : ContextInv(r)
        /\ loc \in [Request -> {"idle", "resuming", "heard", "running", "notifying",
                                "closing", "summarising", "done"}]
        /\ LoopTypeOK
    BY DEF IInv, TypeOK
  <1>1. ASSUME NEW r \in Request, Busy(r) \/ SendToClosed(r)
        PROVE  HandlerInv(q)'
    BY <1>0, <1>1 DEF HandlerInv, Busy, SendToClosed, Answer, Goto, loopVars, Holding
  <1>2. ASSUME NEW r \in Request, Send(r) \/ Resume(r)
        PROVE  HandlerInv(q)'
    <2>1. HeardIn(thread') = HeardIn(thread) \cup (IF loc'[r] = "heard" THEN {r} ELSE {})
      BY <1>0, <1>2, HearsEffect DEF Send, Resume, Hears, Goto
    <2>2. CASE Send(r)
      BY <1>0, <2>1, <2>2, NobodyHolds DEF HandlerInv, Send, Hears, Goto, loopVars, Holding
    <2>3. CASE Resume(r)
      BY <1>0, <2>1, <2>3, Exclusive DEF HandlerInv, Resume, Hears, Goto, loopVars, Holding
    <2>. QED
      BY <1>2, <2>2, <2>3
  <1>3. ASSUME NEW r \in Request, StartRun(r)
        PROVE  HandlerInv(q)'
    <2>1. Read(thread) \in Seq(Message) /\ StartLoop(r, Read(thread))
      BY <1>0, <1>3, TrimType DEF StartRun, Read, TypeOK
    <2>2. /\ LoopWell(r)' /\ phase'[r] # "none"
          /\ \A p \in Request \ {r} : /\ phase'[p] = phase[p] /\ step'[p] = step[p]
                                      /\ todo'[p] = todo[p]
      BY <1>0, <2>1, StartLoopEffect
    <2>. QED
      BY <1>0, <1>3, <2>2 DEF HandlerInv, LoopWell, StartRun, Goto, Holding
  <1>4. ASSUME NEW r \in Request, RunStep(r)
        PROVE  HandlerInv(q)'
    <2>1. LoopEffect(r) /\ UNCHANGED sessionVars /\ loc[r] = "running"
      BY <1>4, RunStepEffect DEF RunStep
    <2>. QED
      BY <1>0, <2>1 DEF HandlerInv, LoopWell, LoopEffect, sessionVars
  <1>5. ASSUME NEW r \in Request, LoopRaises(r)
        PROVE  HandlerInv(q)'
    <2>1. LeaveLoop(r) /\ UNCHANGED sessionVars /\ loc[r] = "running"
      BY <1>5 DEF LoopRaises
    <2>. QED
      BY <1>0, <2>1, LeaveLoopEffect DEF HandlerInv, sessionVars
  <1>6. ASSUME NEW r \in Request, SaveRun(r) \/ SaveFails(r)
        PROVE  HandlerInv(q)'
    <2>1. DropContext(r) /\ loc[r] = "running" /\ HeardIn(thread') = HeardIn(thread)
      BY <1>0, <1>6, SaveEffect DEF SaveRun, SaveFails, Return
    <2>2. /\ phase'[r] = "none"
          /\ \A p \in Request \ {r} : /\ phase'[p] = phase[p] /\ step'[p] = step[p]
                                      /\ todo'[p] = todo[p]
      BY <1>0, <2>1, DropContextEffect
    <2>3. lock = r /\ \A p \in Request \ {r} : loc[p] \notin Holding
      BY <2>1, Exclusive DEF Holding
    <2>. QED
      BY <1>0, <1>6, <2>1, <2>2, <2>3
         DEF HandlerInv, SaveRun, SaveFails, Return, Answer, Goto, Holding
  <1>7. ASSUME NEW r \in Request, Notified(r) \/ CloseNotified(r) \/ SummaryFails(r)
        PROVE  HandlerInv(q)'
    <2>1. DropContext(r) /\ loc[r] \in Holding /\ UNCHANGED thread
      BY <1>7 DEF Notified, CloseNotified, SummaryFails, Return, Holding
    <2>2. /\ phase'[r] = "none"
          /\ \A p \in Request \ {r} : /\ phase'[p] = phase[p] /\ step'[p] = step[p]
                                      /\ todo'[p] = todo[p]
      BY <1>0, <2>1, DropContextEffect
    <2>3. lock = r /\ \A p \in Request \ {r} : loc[p] \notin Holding
      BY <2>1, Exclusive
    <2>. QED
      BY <1>0, <1>7, <2>1, <2>2, <2>3
         DEF HandlerInv, Notified, CloseNotified, SummaryFails, Return, Answer, Goto, Holding
  <1>8. ASSUME NEW r \in Request, Cancel(r)
        PROVE  HandlerInv(q)'
    <2>1. loc[r] \in Holding /\ UNCHANGED <<thread, status>>
      BY <1>8 DEF Cancel, Holding
    <2>2. lock = r /\ \A p \in Request \ {r} : loc[p] \notin Holding
      BY <2>1, Exclusive
    <2>3. CASE LeaveLoop(r) /\ UNCHANGED <<lock, loc>>
      BY <1>0, <2>1, <2>2, <2>3, LeaveLoopEffect DEF HandlerInv, LeaveLoop
    <2>4. CASE Return(r, "error")
      <3>1. /\ phase'[r] = "none"
            /\ \A p \in Request \ {r} : /\ phase'[p] = phase[p] /\ step'[p] = step[p]
                                        /\ todo'[p] = todo[p]
        BY <1>0, <2>4, DropContextEffect DEF Return
      <3>. QED
        BY <1>0, <2>1, <2>2, <2>4, <3>1 DEF HandlerInv, Return, Answer, Goto, Holding
    <2>. QED
      BY <1>8, <2>3, <2>4 DEF Cancel
  <1>9. ASSUME NEW r \in Request, Close(r) \/ Compact(r)
        PROVE  HandlerInv(q)'
    <2>1. Free /\ \A p \in Request : loc[p] \notin Holding
      BY <1>9, NobodyHolds DEF Close, Compact
    <2>. QED
      BY <1>0, <1>9, <2>1 DEF HandlerInv, Close, Compact, Goto, loopVars, Holding
  <1>10. ASSUME NEW r \in Request, Summarised(r)
         PROVE  HandlerInv(q)'
    <2>1. DropContext(r) /\ loc[r] \in Holding
      BY <1>10 DEF Summarised, Return, Holding
    <2>2. /\ phase'[r] = "none"
          /\ \A p \in Request \ {r} : /\ phase'[p] = phase[p] /\ step'[p] = step[p]
                                      /\ todo'[p] = todo[p]
      BY <1>0, <2>1, DropContextEffect
    <2>3. lock = r /\ \A p \in Request \ {r} : loc[p] \notin Holding
      BY <2>1, Exclusive
    <2>. QED
      BY <1>0, <1>10, <2>1, <2>2, <2>3 DEF HandlerInv, Summarised, Return, Answer, Goto, Holding
  <1>11. CASE UNCHANGED vars
    BY <1>0, <1>11 DEF HandlerInv, vars, loopVars, sessionVars
  <1>. QED
    BY <1>1, <1>2, <1>3, <1>4, <1>5, <1>6, <1>7, <1>8, <1>9, <1>10, <1>11 DEF Next, HandlerStep

----------------------------------------------------------------------------
\* Contexts: what a run adds is its own.

LEMMA ContextStep ==
  ASSUME IInv, [Next]_vars, NEW q \in Request
  PROVE  ContextInv(q)'
  <1>0. /\ TypeOK /\ ContextInv(q) /\ LoopTypeOK
        /\ loc \in [Request -> {"idle", "resuming", "heard", "running", "notifying",
                                "closing", "summarising", "done"}]
    BY DEF IInv, TypeOK
  <1>1. CASE UNCHANGED <<messages, prefill, thread>> /\ (loc'[q] = "running" => loc[q] = "running")
    BY <1>0, <1>1 DEF ContextInv
  <1>2. CASE loc'[q] # "running"
    BY <1>2 DEF ContextInv
  <1>3. ASSUME NEW r \in Request, Busy(r) \/ SendToClosed(r)
        PROVE  ContextInv(q)'
    BY <1>0, <1>1, <1>3 DEF Busy, SendToClosed, Answer, Goto, loopVars
  <1>4. ASSUME NEW r \in Request, Send(r) \/ Close(r) \/ Compact(r)
        PROVE  ContextInv(q)'
    <2>1. \A p \in Request : loc[p] # "running"
      BY <1>4, NobodyHolds DEF Send, Close, Compact, Holding
    <2>. QED
      BY <1>0, <1>2, <1>4, <2>1 DEF Send, Hears, Close, Compact, Goto
  <1>5. ASSUME NEW r \in Request, loc[r] \in Holding, loc'[r] # "running",
               \A p \in Request \ {r} : loc'[p] = loc[p]
        PROVE  ContextInv(q)'
    BY <1>2, <1>5, Exclusive DEF Holding
  <1>6. ASSUME NEW r \in Request, Resume(r) \/ SaveRun(r) \/ SaveFails(r) \/ Notified(r)
                                  \/ CloseNotified(r) \/ Summarised(r) \/ SummaryFails(r)
        PROVE  ContextInv(q)'
    <2>1. loc[r] \in Holding /\ loc'[r] # "running" /\ \A p \in Request \ {r} : loc'[p] = loc[p]
      BY <1>0, <1>6 DEF Resume, Hears, SaveRun, SaveFails, Notified, CloseNotified, Summarised,
                        SummaryFails, Return, Answer, Goto, Holding
    <2>. QED
      BY <1>5, <2>1
  <1>7. ASSUME NEW r \in Request, StartRun(r)
        PROVE  ContextInv(q)'
    <2>1. loc[r] \in Holding /\ loc[r] = "heard" /\ UNCHANGED thread
          /\ \A p \in Request \ {r} : loc'[p] = loc[p]
      BY <1>0, <1>7 DEF StartRun, Goto, Holding
    <2>2. CASE q # r
      BY <1>2, <2>1, <2>2, Exclusive DEF Holding
    <2>3. CASE q = r
      <3>1. Read(thread) \in Seq(Message) /\ StartLoop(r, Read(thread))
        BY <1>0, <1>7, TrimType DEF StartRun, Read, TypeOK
      <3>2. \A i \in 1..Len(messages'[r]) : i > prefill'[r] => messages'[r][i].turn = r
        BY <1>0, <3>1, StartLoopEffect
      <3>3. r \in HeardIn(thread)
        BY <2>1 DEF IInv, HandlerInv
      <3>. QED
        BY <2>1, <2>3, <3>2, <3>3 DEF ContextInv
    <2>. QED
      BY <2>2, <2>3
  <1>8. ASSUME NEW r \in Request, RunStep(r)
        PROVE  ContextInv(q)'
    <2>1. LoopEffect(r) /\ UNCHANGED <<loc, thread>> /\ loc[r] = "running"
      BY <1>8, RunStepEffect DEF RunStep, sessionVars
    <2>2. CASE q # r
      BY <1>0, <2>1, <2>2 DEF ContextInv, LoopEffect
    <2>3. CASE q = r
      BY <1>0, <2>1, <2>3 DEF ContextInv, LoopEffect, OwnAdditions
    <2>. QED
      BY <2>2, <2>3
  <1>9. ASSUME NEW r \in Request, LoopRaises(r)
        PROVE  ContextInv(q)'
    BY <1>0, <1>1, <1>9 DEF LoopRaises, LeaveLoop, sessionVars
  <1>10. ASSUME NEW r \in Request, Cancel(r)
         PROVE  ContextInv(q)'
    <2>1. loc[r] \in Holding
      BY <1>10 DEF Cancel, Holding
    <2>2. CASE LeaveLoop(r) /\ UNCHANGED <<loc, thread>>
      BY <1>1, <2>2 DEF LeaveLoop
    <2>3. CASE Return(r, "error")
      BY <1>0, <1>5, <2>1, <2>3 DEF Return, Answer, Goto
    <2>. QED
      BY <1>10, <2>2, <2>3 DEF Cancel
  <1>11. CASE UNCHANGED vars
    BY <1>1, <1>11 DEF vars, loopVars, sessionVars
  <1>. QED
    BY <1>3, <1>4, <1>6, <1>7, <1>8, <1>9, <1>10, <1>11 DEF Next, HandlerStep

----------------------------------------------------------------------------
\* Rows: those of one turn stay together.

Together(t) ==
  \A i, j, k \in 1..Len(t) : i < j /\ j < k /\ t[i].turn = t[k].turn => t[j].turn = t[i].turn

LastOnes(t, r) ==
  \A i \in 1..Len(t) : t[i].turn = r => \A j \in i..Len(t) : t[j].turn = r

LEMMA GrowTogether ==
  ASSUME NEW t \in Seq(Message), NEW n \in Seq(Message), NEW r,
         \A i \in 1..Len(n) : n[i].turn = r, Together(t), LastOnes(t, r)
  PROVE  /\ Together(t \o n) /\ LastOnes(t \o n, r)
         /\ \A i \in 1..Len(t \o n) :
               (t \o n)[i].turn = r \/ \E j \in 1..Len(t) : (t \o n)[i].turn = t[j].turn
  <1> DEFINE c == t \o n
  <1>1. /\ Len(c) = Len(t) + Len(n) /\ Len(t) \in Nat /\ Len(n) \in Nat
        /\ \A i \in 1..(Len(t) + Len(n)) : c[i] = IF i <= Len(t) THEN t[i] ELSE n[i - Len(t)]
    BY ConcatProperties, LenProperties
  <1> HIDE DEF c
  <1>2. /\ \A i \in 1..Len(t) : c[i].turn = t[i].turn
        /\ \A i \in 1..Len(c) : i > Len(t) => c[i].turn = r
    BY <1>1
  <1>3. LastOnes(c, r)
    BY <1>1, <1>2 DEF LastOnes
  <1>4. Together(c)
    <2> SUFFICES ASSUME NEW i \in 1..Len(c), NEW j \in 1..Len(c), NEW k \in 1..Len(c),
                        i < j, j < k, c[i].turn = c[k].turn
                 PROVE  c[j].turn = c[i].turn
      BY DEF Together
    <2>1. CASE k <= Len(t)
      BY <1>1, <1>2, <2>1 DEF Together
    <2>2. CASE k > Len(t)
      <3>1. c[i].turn = r
        BY <1>2, <2>2
      <3>. QED
        BY <1>1, <1>3, <3>1 DEF LastOnes
    <2>. QED
      BY <1>1, <2>1, <2>2
  <1>. QED
    BY <1>1, <1>2, <1>3, <1>4 DEF c

LEMMA RowsType ==
  ASSUME IInv
  PROVE  \A i \in 1..Len(thread) : thread[i].turn \in Request /\ thread[i].turn # Nobody
  <1>1. thread \in Seq(Message)
    BY DEF IInv, TypeOK
  <1>2. ASSUME NEW i \in 1..Len(thread) PROVE thread[i].turn \in Request
    <2>1. thread[i] \in Message
      BY <1>1, ElementOfSeq
    <2>. QED
      BY <2>1 DEF Message
  <1>. QED
    BY <1>2

\* A request none of whose rows is there may take the lock; others' rows only age.
LEMMA RowsStill ==
  ASSUME IInv, UNCHANGED thread, NEW r \in Request,
         \A p \in Request \ {r} : loc'[p] = loc[p],
         loc'[r] \in {"idle", "resuming"} => loc[r] \in {"idle", "resuming"},
         lock' \in {lock, Nobody} \/ (lock' = r /\ loc[r] \in {"idle", "resuming"})
  PROVE  RowsInv' /\ TurnsContiguous'
  <1>1. RowsInv /\ TurnsContiguous
    BY DEF IInv
  <1>2. TurnsContiguous'
    BY <1>1 DEF TurnsContiguous
  <1>3. \A i \in 1..Len(thread) : thread[i].turn \in Request /\ thread[i].turn # Nobody
    BY RowsType
  <1>4. ASSUME NEW i \in 1..Len(thread)
        PROVE  /\ loc'[thread[i].turn] \notin {"idle", "resuming"}
               /\ thread[i].turn = lock' => \A j \in i..Len(thread) : thread[j].turn = lock'
    <2>1. loc[thread[i].turn] \notin {"idle", "resuming"}
      BY <1>1 DEF RowsInv
    <2>2. loc'[thread[i].turn] \notin {"idle", "resuming"}
      BY <1>3, <2>1
    <2>3. thread[i].turn = lock' => lock' = lock
      BY <1>3, <2>1
    <2>. QED
      BY <1>1, <2>2, <2>3 DEF RowsInv
  <1>. QED
    BY <1>2, <1>4 DEF RowsInv

LEMMA RowsGrow ==
  ASSUME IInv, NEW r \in Request, NEW n, Grows(r, n), LastOnes(thread, r),
         \A p \in Request \ {r} : loc'[p] = loc[p],
         loc'[r] \notin {"idle", "resuming"}, lock' \in {r, Nobody}
  PROVE  RowsInv' /\ TurnsContiguous'
  <1>1. thread \in Seq(Message) /\ Together(thread) /\ RowsInv
    BY DEF IInv, TypeOK, TurnsContiguous, Together
  <1>2. /\ Together(thread') /\ LastOnes(thread', r)
        /\ \A i \in 1..Len(thread') :
              thread'[i].turn = r \/ \E j \in 1..Len(thread) : thread'[i].turn = thread[j].turn
    BY <1>1, GrowTogether DEF Grows
  <1>3. ASSUME NEW i \in 1..Len(thread')
        PROVE  /\ thread'[i].turn \in Request
               /\ loc'[thread'[i].turn] \notin {"idle", "resuming"}
    BY <1>1, <1>2, RowsType DEF RowsInv
  <1>4. ASSUME NEW i \in 1..Len(thread'), thread'[i].turn = lock'
        PROVE  \A j \in i..Len(thread') : thread'[j].turn = lock'
    <2>1. lock' = r
      BY <1>3, <1>4
    <2>. QED
      BY <1>2, <1>4, <2>1 DEF LastOnes
  <1>. QED
    BY <1>2, <1>3, <1>4 DEF RowsInv, TurnsContiguous, Together

LEMMA RowsStep ==
  ASSUME IInv, [Next]_vars
  PROVE  RowsInv' /\ TurnsContiguous'
  <1>0. /\ TypeOK /\ RowsInv /\ TurnsContiguous /\ LoopTypeOK
        /\ loc \in [Request -> {"idle", "resuming", "heard", "running", "notifying",
                                "closing", "summarising", "done"}]
    BY DEF IInv, TypeOK
  <1>1. ASSUME NEW r \in Request, loc[r] \in {"idle", "resuming"}
        PROVE  LastOnes(thread, r)
    BY <1>0, <1>1 DEF RowsInv, LastOnes
  <1>2. ASSUME NEW r \in Request,
               Busy(r) \/ SendToClosed(r) \/ StartRun(r) \/ Close(r) \/ Compact(r)
        PROVE  RowsInv' /\ TurnsContiguous'
    BY <1>0, <1>2, RowsStill DEF Busy, SendToClosed, StartRun, Close, Compact, Answer, Goto
  <1>3. ASSUME NEW r \in Request, Send(r) \/ Resume(r)
        PROVE  RowsInv' /\ TurnsContiguous'
    <2>1. CASE Hears(r)
      <3>1. LastOnes(thread, r) /\ \A p \in Request \ {r} : loc'[p] = loc[p]
        BY <1>0, <1>1, <1>3, <2>1 DEF Send, Resume, Hears, Goto
      <3>2. loc'[r] = "heard" /\ lock' = r
        <4>1. loc'[r] = "heard"
          BY <1>0, <2>1 DEF Hears, Goto
        <4>2. Resume(r) => lock = r
          BY Exclusive DEF Resume, Holding
        <4>. QED
          BY <1>3, <4>1, <4>2 DEF Send, Resume
      <3>. QED
        BY <1>0, <2>1, <3>1, <3>2, HearsEffect, RowsGrow
    <2>2. CASE Goto(r, "resuming") /\ UNCHANGED thread
      BY <1>0, <1>3, <2>2, RowsStill DEF Send, Resume, Goto
    <2>. QED
      BY <1>3, <2>1, <2>2 DEF Send, Resume
  <1>4. ASSUME NEW r \in Request, RunStep(r) \/ LoopRaises(r)
        PROVE  RowsInv' /\ TurnsContiguous'
    BY <1>0, <1>4, RowsStill DEF RunStep, LoopRaises, sessionVars
  <1>5. ASSUME NEW r \in Request, SaveRun(r) \/ SaveFails(r)
        PROVE  RowsInv' /\ TurnsContiguous'
    <2>1. lock = r
      BY <1>5, Exclusive DEF SaveRun, SaveFails, Holding
    <2>2. LastOnes(thread, r)
      BY <1>0, <2>1 DEF RowsInv, LastOnes
    <2>3. /\ \A p \in Request \ {r} : loc'[p] = loc[p]
          /\ loc'[r] \notin {"idle", "resuming"} /\ lock' \in {r, Nobody}
      BY <1>0, <1>5, <2>1 DEF SaveRun, SaveFails, Return, Answer, Goto
    <2>4. PICK n : GrowsQuietly(r, n)
      BY <1>5, SaveEffect DEF IInv
    <2>. QED
      BY <2>2, <2>3, <2>4, RowsGrow DEF GrowsQuietly
  <1>6. ASSUME NEW r \in Request,
               Notified(r) \/ CloseNotified(r) \/ SummaryFails(r) \/ Cancel(r)
        PROVE  RowsInv' /\ TurnsContiguous'
    <2>1. UNCHANGED thread /\ (Return(r, "sent") \/ Return(r, "closed") \/ Return(r, "error")
                               \/ UNCHANGED <<loc, lock>>)
      BY <1>6 DEF Notified, CloseNotified, SummaryFails, Cancel
    <2>2. CASE UNCHANGED <<loc, lock>>
      BY <2>1, <2>2, RowsStill
    <2>3. CASE lock' = Nobody /\ Goto(r, "done")
      BY <1>0, <2>1, <2>3, RowsStill DEF Goto
    <2>. QED
      BY <2>1, <2>2, <2>3 DEF Return, Answer
  <1>7. ASSUME NEW r \in Request, Summarised(r)
        PROVE  RowsInv' /\ TurnsContiguous'
    <2>1. thread' = Condensed(r) /\ lock' = Nobody /\ loc'[r] = "done"
      BY <1>0, <1>7 DEF Summarised, Return, Answer, Goto
    <2>2. \A i \in 1..Len(thread') : thread'[i].turn = r
      BY <2>1 DEF Condensed, Assistant
    <2>. QED
      BY <2>1, <2>2 DEF RowsInv, TurnsContiguous
  <1>8. CASE UNCHANGED vars
    BY <1>0, <1>8 DEF vars, sessionVars, RowsInv, TurnsContiguous
  <1>. QED
    BY <1>2, <1>3, <1>4, <1>5, <1>6, <1>7, <1>8 DEF Next, HandlerStep

----------------------------------------------------------------------------
\* meta.json: only a handler that publishes its session's new status is ahead.

LEMMA MetaStep ==
  ASSUME IInv, [Next]_vars
  PROVE  MetaInv'
  <1>0. /\ TypeOK /\ MetaInv
        /\ loc \in [Request -> {"idle", "resuming", "heard", "running", "notifying",
                                "closing", "summarising", "done"}]
    BY DEF IInv, TypeOK
  <1>1. ASSUME cancelled = {} => meta = status, UNCHANGED <<meta, status>>,
               cancelled \subseteq cancelled'
        PROVE  MetaInv'
    BY <1>1 DEF MetaInv
  <1>2. ASSUME NEW r \in Request, loc[r] \in Holding \ {"notifying"}
        PROVE  cancelled = {} => meta = status
    BY <1>0, <1>2, Exclusive DEF MetaInv, Holding
  <1>3. ASSUME Free PROVE cancelled = {} => meta = status
    BY <1>0, <1>3, NobodyHolds DEF MetaInv, Holding
  <1>4. ASSUME meta' = status' PROVE MetaInv'
    BY <1>4 DEF MetaInv
  <1>5. ASSUME NEW r \in Request, Busy(r)
        PROVE  MetaInv'
    BY <1>0, <1>5 DEF MetaInv, Busy, Answer, Goto
  <1>6. ASSUME NEW r \in Request, SendToClosed(r) \/ Send(r) \/ Compact(r)
        PROVE  MetaInv'
    BY <1>1, <1>3, <1>6 DEF SendToClosed, Send, Compact
  <1>7. ASSUME NEW r \in Request,
               Resume(r) \/ RunStep(r) \/ LoopRaises(r) \/ SaveFails(r)
               \/ CloseNotified(r) \/ Summarised(r) \/ SummaryFails(r)
        PROVE  MetaInv'
    <2>1. loc[r] \in Holding \ {"notifying"} /\ UNCHANGED <<meta, status, cancelled>>
      BY <1>7 DEF Resume, RunStep, LoopRaises, SaveFails, CloseNotified, Summarised,
                  SummaryFails, sessionVars, Holding
    <2>. QED
      BY <1>1, <1>2, <2>1
  <1>8. ASSUME NEW r \in Request, StartRun(r) \/ Notified(r) \/ Close(r)
        PROVE  MetaInv'
    BY <1>4, <1>8 DEF StartRun, Notified, Close
  <1>9. ASSUME NEW r \in Request, SaveRun(r)
        PROVE  MetaInv'
    <2>1. CASE r \in cancelled
      BY <1>9, <2>1 DEF SaveRun, MetaInv
    <2>2. CASE r \notin cancelled
      BY <1>0, <1>9, <2>2 DEF SaveRun, MetaInv, Goto
    <2>. QED
      BY <2>1, <2>2
  <1>10. ASSUME NEW r \in Request, Cancel(r)
         PROVE  MetaInv'
    BY <1>10 DEF Cancel, MetaInv
  <1>11. CASE UNCHANGED vars
    BY <1>0, <1>11 DEF MetaInv, vars, sessionVars
  <1>. QED
    BY <1>5, <1>6, <1>7, <1>8, <1>9, <1>10, <1>11 DEF Next, HandlerStep

----------------------------------------------------------------------------
\* The inductive invariant.

LEMMA InitInv == Init => IInv
  <1> SUFFICES ASSUME Init PROVE IInv
    OBVIOUS
  <1> USE DEF Init, LoopInit
  <1>1. TypeOK
    BY EmptySeq DEF TypeOK, LoopTypeOK
  <1>2. \A r \in Request : HandlerInv(r) /\ ContextInv(r)
    BY DEF HandlerInv, ContextInv, Holding
  <1>3. RowsInv /\ TurnsContiguous /\ MetaInv
    BY DEF RowsInv, TurnsContiguous, MetaInv
  <1>. QED
    BY <1>1, <1>2, <1>3 DEF IInv

LEMMA StepInv == IInv /\ [Next]_vars => IInv'
  <1> SUFFICES ASSUME IInv, [Next]_vars PROVE IInv'
    OBVIOUS
  <1>1. TypeOK' /\ RowsInv' /\ TurnsContiguous' /\ MetaInv'
    BY TypeStep, RowsStep, MetaStep
  <1>2. \A q \in Request : HandlerInv(q)' /\ ContextInv(q)'
    BY HandlerStepInv, ContextStep
  <1>. QED
    BY <1>1, <1>2 DEF IInv

\* Types, handlers, contexts, rows and meta.json support one another: each
\* of them needs the others to be kept by every step.
THEOREM Invariance == Spec => []IInv
  BY InitInv, StepInv, PTL DEF Spec

\* Types of all variables; in particular, no run goes beyond its step limit.
THEOREM TypeCorrect == Spec => []TypeOK
  <1>1. IInv => TypeOK
    BY DEF IInv
  <1>. QED
    BY <1>1, Invariance, PTL

\* What one request wrote to thread.jsonl is never interleaved with another's.
THEOREM TurnsStayTogether == Spec => []TurnsContiguous
  <1>1. IInv => TurnsContiguous
    BY DEF IInv
  <1>. QED
    BY <1>1, Invariance, PTL

\* When nobody holds the session, meta.json has its status.
THEOREM MetaIsFresh == Spec => []MetaFresh
  <1>1. IInv => MetaFresh
    BY NobodyHolds DEF IInv, MetaInv, MetaFresh, Free, Holding
  <1>. QED
    BY <1>1, Invariance, PTL

----------------------------------------------------------------------------
\* Dialogue.

LEMMA TalkStep ==
  ASSUME IInv, [Next]_vars
  PROVE  [Talk!Next]_Talk!vars
  <1>0. /\ TypeOK /\ \A r \in Request : HandlerInv(r) /\ ContextInv(r)
        /\ loc \in [Request -> {"idle", "resuming", "heard", "running", "notifying",
                                "closing", "summarising", "done"}]
    BY DEF IInv, TypeOK
  <1>1. CASE UNCHANGED <<lock, thread, status>>
    BY <1>1 DEF Talk!vars
  <1>2. ASSUME NEW r \in Request, lock = r, lock' = Nobody, HeardIn(thread') = HeardIn(thread),
               (status' # "closed") = (status # "closed")
        PROVE  Talk!Next
    BY <1>2 DEF Talk!Next, Talk!Leave
  <1>3. ASSUME NEW r \in Request, Send(r) \/ Resume(r)
        PROVE  [Talk!Next]_Talk!vars
    <2>1. lock \in {r, Nobody} /\ lock' = r /\ UNCHANGED status /\ status # "closed"
      <3>1. CASE Send(r)
        BY <3>1 DEF Send, Free
      <3>2. CASE Resume(r)
        BY <1>0, <3>2, Exclusive DEF Resume, Holding, HandlerInv
      <3>. QED
        BY <1>3, <3>1, <3>2
    <2>2. CASE Hears(r)
      <3>1. HeardIn(thread') = HeardIn(thread) \cup {r}
        BY <1>0, <2>2, HearsEffect
      <3>2. Talk!Hear(r)
        BY <2>1, <3>1 DEF Talk!Hear, Talk!Takes
      <3>. QED
        BY <3>2 DEF Talk!Next
    <2>3. CASE UNCHANGED thread /\ lock = Nobody
      BY <2>1, <2>3 DEF Talk!Next, Talk!Take
    <2>. QED
      BY <1>3, <2>2, <2>3 DEF Send, Resume, Free
  <1>4. ASSUME NEW r \in Request, SaveRun(r)
        PROVE  [Talk!Next]_Talk!vars
    <2>1. loc[r] = "running" /\ lock = r /\ HeardIn(thread') = HeardIn(thread) /\ status # "closed"
      BY <1>0, <1>4, Exclusive, SaveEffect DEF SaveRun, HandlerInv, Holding
    <2>2. CASE r \in cancelled
      <3>1. lock' = Nobody /\ UNCHANGED status
        BY <1>4, <2>2 DEF SaveRun, Return
      <3>. QED
        BY <1>2, <2>1, <3>1
    <2>3. CASE r \notin cancelled
      <3>1. UNCHANGED lock /\ status' \in {"closed", "waiting_for_input"}
        BY <1>4, <2>3 DEF SaveRun
      <3>2. CASE status' = "closed"
        <4>1. Talk!Close(r)
          BY <2>1, <3>1, <3>2 DEF Talk!Close, Talk!Takes
        <4>. QED
          BY <4>1 DEF Talk!Next
      <3>3. CASE status' = "waiting_for_input"
        BY <2>1, <3>1, <3>3 DEF Talk!vars
      <3>. QED
        BY <3>1, <3>2, <3>3
    <2>. QED
      BY <2>2, <2>3
  <1>5. ASSUME NEW r \in Request, SaveFails(r)
        PROVE  [Talk!Next]_Talk!vars
    <2>1. /\ lock = r /\ HeardIn(thread') = HeardIn(thread)
          /\ lock' = Nobody /\ UNCHANGED status
      BY <1>0, <1>5, Exclusive, SaveEffect DEF SaveFails, Return, Holding
    <2>. QED
      BY <1>2, <2>1
  <1>6. ASSUME NEW r \in Request, Notified(r) \/ CloseNotified(r) \/ SummaryFails(r)
        PROVE  [Talk!Next]_Talk!vars
    <2>1. lock = r
      BY <1>6, Exclusive DEF Notified, CloseNotified, SummaryFails, Holding
    <2>2. lock' = Nobody /\ UNCHANGED <<thread, status>>
      BY <1>6 DEF Notified, CloseNotified, SummaryFails, Return
    <2>. QED
      BY <1>2, <2>1, <2>2
  <1>7. ASSUME NEW r \in Request, Cancel(r)
        PROVE  [Talk!Next]_Talk!vars
    <2>1. lock = r /\ UNCHANGED <<thread, status>>
      BY <1>7, Exclusive DEF Cancel, Holding
    <2>2. lock' = Nobody \/ UNCHANGED lock
      BY <1>7 DEF Cancel, Return
    <2>. QED
      BY <1>1, <1>2, <2>1, <2>2
  <1>8. ASSUME NEW r \in Request, Close(r)
        PROVE  [Talk!Next]_Talk!vars
    <2>1. Talk!Close(r)
      BY <1>8 DEF Close, Free, Talk!Close, Talk!Takes
    <2>. QED
      BY <2>1 DEF Talk!Next
  <1>9. ASSUME NEW r \in Request, Compact(r)
        PROVE  [Talk!Next]_Talk!vars
    <2>1. Talk!Take(r)
      BY <1>9 DEF Compact, Free, Talk!Take
    <2>. QED
      BY <2>1 DEF Talk!Next
  <1>10. ASSUME NEW r \in Request, Summarised(r)
         PROVE  [Talk!Next]_Talk!vars
    <2>1. lock = r /\ lock' = Nobody /\ thread' = Condensed(r) /\ UNCHANGED status
      BY <1>10, Exclusive DEF Summarised, Return, Holding
    <2>2. Talk!Summarise(r)
      BY <2>1, HeardCondensed DEF Talk!Summarise
    <2>. QED
      BY <2>2 DEF Talk!Next
  <1>11. ASSUME NEW r \in Request,
                Busy(r) \/ SendToClosed(r) \/ StartRun(r) \/ RunStep(r) \/ LoopRaises(r)
         PROVE  [Talk!Next]_Talk!vars
    BY <1>1, <1>11 DEF Busy, SendToClosed, StartRun, RunStep, LoopRaises, sessionVars
  <1>12. CASE UNCHANGED vars
    BY <1>1, <1>12 DEF vars, sessionVars
  <1>. QED
    BY <1>3, <1>4, <1>5, <1>6, <1>7, <1>8, <1>9, <1>10, <1>11, <1>12 DEF Next, HandlerStep

LEMMA TalkInit == Init => Talk!Init
  <1> SUFFICES ASSUME Init PROVE Talk!Init
    OBVIOUS
  <1>1. HeardIn(<<>>) = {}
    BY DEF HeardIn
  <1>. QED
    BY <1>1 DEF Init, Talk!Init

\* A session keeps its promises to clients: every step of its handlers, also a
\* failing or cancelled one, is a step of Dialogue or invisible to it.
THEOREM DialogueRefinement == Spec => ImplementsDialogue
  <1>1. IInv /\ [Next]_vars => [Talk!Next]_Talk!vars
    BY TalkStep
  <1>. QED
    BY <1>1, TalkInit, Invariance, PTL DEF Spec, ImplementsDialogue, Talk!Spec
----------------------------------------------------------------------------
\* Lists of messages that grow by a reply, or by a result.

LEMMA Appended ==
  ASSUME NEW m \in Seq(Message), NEW x \in Message
  PROVE  /\ Append(m, x) \in Seq(Message) /\ Len(m) \in Nat
         /\ Len(Append(m, x)) = Len(m) + 1
         /\ \A i \in 1..Len(m) : Append(m, x)[i] = m[i]
         /\ Append(m, x)[Len(m) + 1] = x
  BY AppendProperties, LenProperties

LEMMA AppendedTwo ==
  ASSUME NEW m \in Seq(Message), NEW x \in Message, NEW y \in Message
  PROVE  /\ m \o <<x, y>> \in Seq(Message) /\ Len(m) \in Nat
         /\ Len(m \o <<x, y>>) = Len(m) + 2
         /\ \A i \in 1..Len(m) : (m \o <<x, y>>)[i] = m[i]
         /\ (m \o <<x, y>>)[Len(m) + 1] = x
         /\ (m \o <<x, y>>)[Len(m) + 2] = y
  <1>1. <<x, y>> \in Seq(Message) /\ Len(<<x, y>>) = 2 /\ <<x, y>>[1] = x /\ <<x, y>>[2] = y
    OBVIOUS
  <1> DEFINE n == <<x, y>>
  <1> HIDE DEF n
  <1>2. /\ m \o n \in Seq(Message) /\ Len(m \o n) = Len(m) + Len(n) /\ Len(m) \in Nat
        /\ \A i \in 1..Len(m) : (m \o n)[i] = m[i]
        /\ \A i \in 1..Len(n) : (m \o n)[Len(m) + i] = n[i]
    BY <1>1, Grown DEF n
  <1>. QED
    BY <1>1, <1>2 DEF n

\* add_tool_result either adds the id to the last message or adds a message.
LEMMA ResultAdded ==
  ASSUME NEW m \in Seq(Message), m # <<>>, NEW r \in Request, NEW id \in ToolId
  PROVE  /\ AddResult(m, r, id) \in Seq(Message) /\ Len(m) \in Nat \ {0}
         /\ m[Len(m)].results # {} =>
              /\ Len(AddResult(m, r, id)) = Len(m)
              /\ \A i \in 1..(Len(m) - 1) : AddResult(m, r, id)[i] = m[i]
              /\ AddResult(m, r, id)[Len(m)].uses = m[Len(m)].uses
              /\ AddResult(m, r, id)[Len(m)].results = m[Len(m)].results \cup {id}
         /\ m[Len(m)].results = {} =>
              /\ Len(AddResult(m, r, id)) = Len(m) + 1
              /\ \A i \in 1..Len(m) : AddResult(m, r, id)[i] = m[i]
              /\ AddResult(m, r, id)[Len(m) + 1].uses = {}
              /\ AddResult(m, r, id)[Len(m) + 1].results = {id}
  <1>0. Len(m) \in Nat \ {0}
    BY EmptySeq, LenProperties
  <1>1. CASE m[Len(m)].results # {}
    <2> DEFINE e == [m[Len(m)] EXCEPT !.results = @ \cup {id}]
    <2>1. Len(m) \in 1..Len(m)
      BY <1>0
    <2>2. m[Len(m)] \in Message
      BY <2>1, ElementOfSeq
    <2>3. e \in Message /\ e.uses = m[Len(m)].uses /\ e.results = m[Len(m)].results \cup {id}
      BY <2>2 DEF Message
    <2>4. AddResult(m, r, id) = [m EXCEPT ![Len(m)] = e]
      BY <1>1 DEF AddResult
    <2> HIDE DEF e
    <2>5. /\ [m EXCEPT ![Len(m)] = e] \in Seq(Message)
          /\ Len([m EXCEPT ![Len(m)] = e]) = Len(m)
          /\ \A j \in 1..Len(m) : [m EXCEPT ![Len(m)] = e][j] = IF j = Len(m) THEN e ELSE m[j]
      BY <2>1, <2>3, ExceptSeq
    <2>6. \A j \in 1..(Len(m) - 1) : j \in 1..Len(m) /\ j # Len(m)
      BY <1>0
    <2>7. /\ AddResult(m, r, id) \in Seq(Message)
          /\ Len(AddResult(m, r, id)) = Len(m)
          /\ \A i \in 1..(Len(m) - 1) : AddResult(m, r, id)[i] = m[i]
          /\ AddResult(m, r, id)[Len(m)] = e
      BY <2>1, <2>4, <2>5, <2>6
    <2>. QED
      BY <1>0, <1>1, <2>3, <2>7
  <1>2. CASE m[Len(m)].results = {}
    <2>1. AddResult(m, r, id) = Append(m, ResultsOf(r, {id}))
      BY <1>2 DEF AddResult
    <2>2. ResultsOf(r, {id}) \in Message
      BY MessageType
    <2>3. ResultsOf(r, {id}).uses = {} /\ ResultsOf(r, {id}).results = {id}
      BY DEF ResultsOf
    <2> DEFINE x == ResultsOf(r, {id})
    <2> HIDE DEF x
    <2>4. /\ Append(m, x) \in Seq(Message)
          /\ Len(Append(m, x)) = Len(m) + 1
          /\ \A i \in 1..Len(m) : Append(m, x)[i] = m[i]
          /\ Append(m, x)[Len(m) + 1] = x
      BY <2>2, Appended DEF x
    <2>. QED
      BY <1>0, <1>2, <2>1, <2>3, <2>4 DEF x
  <1>. QED
    BY <1>1, <1>2

LEMMA PairedAppend ==
  ASSUME NEW m \in Seq(Message), Paired(m), NEW x \in Message, x.results = {}
  PROVE  /\ x.uses = {} => Paired(Append(m, x))
         /\ PairedBut(Append(m, x), x.uses)
  <1> DEFINE a == Append(m, x)
  <1>1. /\ Len(m) \in Nat /\ Len(a) = Len(m) + 1 /\ a[Len(m) + 1] = x
        /\ \A i \in 1..Len(m) : a[i] = m[i]
    BY Appended
  <1> HIDE DEF a
  <1>2. ASSUME NEW i \in 1..Len(m)
        PROVE  /\ a[i].uses # {} => i < Len(m) /\ a[i + 1].results = a[i].uses
               /\ a[i].results # {} => i > 1 /\ a[i - 1].uses = a[i].results
    <2>1. /\ m[i].uses # {} => i < Len(m) /\ m[i + 1].results = m[i].uses
          /\ m[i].results # {} => i > 1 /\ m[i - 1].uses = m[i].results
      BY DEF Paired, PairedTo
    <2>2. i < Len(m) => a[i + 1] = m[i + 1]
      BY <1>1
    <2>3. i > 1 => a[i - 1] = m[i - 1]
      BY <1>1
    <2>. QED
      BY <1>1, <2>1, <2>2, <2>3
  <1>3. PairedTo(a, Len(m))
    BY <1>2 DEF PairedTo
  <1>4. PairedBut(a, x.uses)
    <2>1. Len(m) + 1 \in 1..Len(a) /\ PairedTo(a, (Len(m) + 1) - 1)
      BY <1>1, <1>3
    <2>. QED
      BY <1>1, <2>1 DEF PairedBut
  <1>5. ASSUME x.uses = {} PROVE Paired(a)
    <2>1. \A i \in 1..Len(a) : i \in 1..Len(m) \/ i = Len(m) + 1
      BY <1>1
    <2>. QED
      BY <1>1, <1>2, <1>5, <2>1 DEF Paired, PairedTo
  <1>. QED
    BY <1>4, <1>5 DEF a

\* Calls and, in the next message, the results of all of them.
LEMMA PairedCutShort ==
  ASSUME NEW m \in Seq(Message), Paired(m), NEW x \in Message, NEW y \in Message,
         x.results = {}, y.uses = {}, y.results = x.uses
  PROVE  Paired(m \o <<x, y>>)
  <1> DEFINE a == m \o <<x, y>>
  <1>1. /\ Len(m) \in Nat /\ Len(a) = Len(m) + 2
        /\ a[Len(m) + 1] = x /\ a[Len(m) + 2] = y
        /\ \A i \in 1..Len(m) : a[i] = m[i]
    BY AppendedTwo
  <1> HIDE DEF a
  <1>2. ASSUME NEW i \in 1..Len(m)
        PROVE  /\ a[i].uses # {} => i < Len(a) /\ a[i + 1].results = a[i].uses
               /\ a[i].results # {} => i > 1 /\ a[i - 1].uses = a[i].results
    <2>1. /\ m[i].uses # {} => i < Len(m) /\ m[i + 1].results = m[i].uses
          /\ m[i].results # {} => i > 1 /\ m[i - 1].uses = m[i].results
      BY DEF Paired, PairedTo
    <2>2. i < Len(m) => a[i + 1] = m[i + 1]
      BY <1>1
    <2>3. i > 1 => a[i - 1] = m[i - 1]
      BY <1>1
    <2>. QED
      BY <1>1, <2>1, <2>2, <2>3
  <1>3. ASSUME NEW i \in {Len(m) + 1, Len(m) + 2}
        PROVE  /\ a[i].uses # {} => i < Len(a) /\ a[i + 1].results = a[i].uses
               /\ a[i].results # {} => i > 1 /\ a[i - 1].uses = a[i].results
    <2>1. (Len(m) + 1) + 1 = Len(m) + 2 /\ (Len(m) + 2) - 1 = Len(m) + 1 /\ Len(m) + 2 > 1
      BY <1>1
    <2>. QED
      BY <1>1, <2>1
  <1>4. \A i \in 1..Len(a) : i \in 1..Len(m) \/ i \in {Len(m) + 1, Len(m) + 2}
    BY <1>1
  <1>. QED
    BY <1>2, <1>3, <1>4 DEF Paired, PairedTo, a

\* A result comes in: one call less is due; when none is, the list is paired.
LEMMA PairedResult ==
  ASSUME NEW m \in Seq(Message), NEW r \in Request, NEW id \in ToolId, NEW ids,
         PairedBut(m, {id} \cup ids)
  PROVE  /\ PairedBut(AddResult(m, r, id), ids)
         /\ ids = {} => Paired(AddResult(m, r, id))
  <1> DEFINE a == AddResult(m, r, id)
  <1>1. PICK k \in 1..Len(m) :
          /\ PairedTo(m, k - 1)
          /\ m[k].results = {}
          /\ \/ k = Len(m) /\ m[k].uses = {id} \cup ids
             \/ /\ k + 1 = Len(m)
                /\ m[k + 1].uses = {}
                /\ m[k + 1].results # {}
                /\ m[k].uses = m[k + 1].results \cup ({id} \cup ids)
    BY DEF PairedBut
  <1>2. m # <<>> /\ Len(m) \in Nat
    <2>1. Len(m) \in Nat
      BY LenProperties
    <2>2. Len(m) # 0
      BY <1>1, <2>1
    <2>. QED
      BY <2>1, <2>2, EmptySeq
  <1>3. /\ m[Len(m)].results # {} =>
             /\ Len(a) = Len(m)
             /\ \A i \in 1..(Len(m) - 1) : a[i] = m[i]
             /\ a[Len(m)].uses = m[Len(m)].uses
             /\ a[Len(m)].results = m[Len(m)].results \cup {id}
        /\ m[Len(m)].results = {} =>
             /\ Len(a) = Len(m) + 1
             /\ \A i \in 1..Len(m) : a[i] = m[i]
             /\ a[Len(m) + 1].uses = {}
             /\ a[Len(m) + 1].results = {id}
    BY <1>2, ResultAdded
  <1> HIDE DEF a
  <1>4. /\ k + 1 = Len(a) /\ k \in 1..Len(a)
        /\ \A i \in 1..k : a[i] = m[i]
        /\ a[k + 1].uses = {} /\ a[k + 1].results # {}
        /\ a[k].uses = a[k + 1].results \cup ids
    <2>1. CASE k = Len(m) /\ m[k].uses = {id} \cup ids
      <3>1. /\ Len(a) = k + 1 /\ \A i \in 1..k : a[i] = m[i]
            /\ a[k + 1].uses = {} /\ a[k + 1].results = {id}
        BY <1>1, <1>3, <2>1
      <3>2. k \in 1..k /\ k \in 1..Len(a)
        BY <1>2, <2>1, <3>1
      <3>. QED
        BY <2>1, <3>1, <3>2
    <2>2. CASE /\ k + 1 = Len(m)
               /\ m[k + 1].uses = {}
               /\ m[k + 1].results # {}
               /\ m[k].uses = m[k + 1].results \cup ({id} \cup ids)
      BY <1>1, <1>2, <1>3, <2>2
    <2>. QED
      BY <1>1, <2>1, <2>2
  <1>5. ASSUME NEW i \in 1..(k - 1)
        PROVE  /\ a[i].uses # {} => i < k - 1 /\ a[i + 1].results = a[i].uses
               /\ a[i].results # {} => i > 1 /\ a[i - 1].uses = a[i].results
    <2>1. /\ m[i].uses # {} => i < k - 1 /\ m[i + 1].results = m[i].uses
          /\ m[i].results # {} => i > 1 /\ m[i - 1].uses = m[i].results
      BY <1>1 DEF PairedTo
    <2>2. i \in 1..k /\ i + 1 \in 1..k /\ (i > 1 => i - 1 \in 1..k)
      BY <1>1, <1>2
    <2>. QED
      BY <1>4, <2>1, <2>2
  <1>6. PairedTo(a, k - 1)
    BY <1>5 DEF PairedTo
  <1>7. a[k].results = {}
    BY <1>1, <1>4
  <1>8. PairedBut(a, ids)
    BY <1>4, <1>6, <1>7 DEF PairedBut
  <1>9. ASSUME ids = {} PROVE Paired(a)
    <2>1. a[k].uses = a[k + 1].results
      BY <1>4, <1>9
    <2> SUFFICES ASSUME NEW i \in 1..Len(a)
                 PROVE  /\ a[i].uses # {} => i < Len(a) /\ a[i + 1].results = a[i].uses
                        /\ a[i].results # {} => i > 1 /\ a[i - 1].uses = a[i].results
      BY DEF Paired, PairedTo
    <2>2. CASE i \in 1..(k - 1)
      BY <1>2, <1>4, <1>5, <2>2
    <2>3. CASE i = k
      BY <1>2, <1>4, <1>7, <2>1, <2>3
    <2>4. CASE i = k + 1
      <3>1. i - 1 = k /\ i > 1
        BY <1>2, <2>4
      <3>. QED
        BY <1>4, <2>1, <2>4, <3>1
    <2>. QED
      BY <1>2, <1>4, <2>2, <2>3, <2>4
  <1>. QED
    BY <1>8, <1>9 DEF a

\* The ids of a reply's calls, and of those that are left after the first.
LEMMA CallIdsIds ==
  ASSUME NEW r, NEW n \in Nat
  PROVE  IdsOf(CallIds(r, n)) = IdSet(r, n)
  BY DEF IdsOf, CallIds, IdSet

LEMMA TailIds ==
  ASSUME NEW t \in Seq(ToolId), t # <<>>
  PROVE  /\ Head(t) \in ToolId /\ Tail(t) \in Seq(ToolId)
         /\ IdsOf(t) = {Head(t)} \cup IdsOf(Tail(t))
         /\ Tail(t) = <<>> => IdsOf(Tail(t)) = {}
  <1>1. /\ Head(t) \in ToolId /\ Tail(t) \in Seq(ToolId) /\ Head(t) = t[1]
        /\ Len(t) \in Nat \ {0} /\ Len(Tail(t)) = Len(t) - 1
        /\ \A i \in 1..Len(Tail(t)) : Tail(t)[i] = t[i + 1]
    BY HeadTailProperties, EmptySeq, LenProperties
  <1>2. ASSUME NEW x \in IdsOf(t) PROVE x \in {Head(t)} \cup IdsOf(Tail(t))
    <2>1. PICK i \in 1..Len(t) : x = t[i]
      BY <1>2 DEF IdsOf
    <2>2. CASE i > 1
      <3>1. i - 1 \in 1..Len(Tail(t)) /\ Tail(t)[i - 1] = t[i]
        BY <1>1, <2>2
      <3>. QED
        BY <2>1, <3>1 DEF IdsOf
    <2>3. CASE i = 1
      BY <1>1, <2>1, <2>3
    <2>. QED
      BY <1>1, <2>2, <2>3
  <1>3. ASSUME NEW x \in {Head(t)} \cup IdsOf(Tail(t)) PROVE x \in IdsOf(t)
    <2>1. CASE x = Head(t)
      <3>1. 1 \in 1..Len(t)
        BY <1>1
      <3>. QED
        BY <1>1, <2>1, <3>1 DEF IdsOf
    <2>2. CASE x \in IdsOf(Tail(t))
      <3>1. PICK i \in 1..Len(Tail(t)) : x = Tail(t)[i]
        BY <2>2 DEF IdsOf
      <3>2. i + 1 \in 1..Len(t) /\ x = t[i + 1]
        BY <1>1, <3>1
      <3>. QED
        BY <3>2 DEF IdsOf
    <2>. QED
      BY <1>3, <2>1, <2>2
  <1>4. Tail(t) = <<>> => IdsOf(Tail(t)) = {}
    <2>1. Len(<<>>) = 0
      OBVIOUS
    <2>. QED
      BY <2>1 DEF IdsOf
  <1>. QED
    BY <1>1, <1>2, <1>3, <1>4
----------------------------------------------------------------------------
\* How a run, and the thread, come to differ after a step.

Unmoved(q) ==
  /\ UNCHANGED thread
  /\ messages'[q] = messages[q] /\ prefill'[q] = prefill[q] /\ step'[q] = step[q]
  /\ todo'[q] = todo[q] /\ phase'[q] = phase[q]

LEMMA RunMoves ==
  ASSUME IInv, [Next]_vars, NEW q \in Request, loc'[q] = "running"
  PROVE  \/ StartRun(q)
         \/ loc[q] = "running" /\ UNCHANGED thread /\ LoopStep(q)
         \/ loc[q] = "running" /\ UNCHANGED thread /\ LeaveLoop(q) /\ (MayFail \/ Launched # {})
         \/ loc[q] = "running" /\ Unmoved(q)
  <1>0. /\ TypeOK /\ LoopTypeOK
        /\ loc \in [Request -> {"idle", "resuming", "heard", "running", "notifying",
                                "closing", "summarising", "done"}]
    BY DEF IInv, TypeOK
  <1>1. ASSUME NEW r \in Request,
               Busy(r) \/ SendToClosed(r) \/ Send(r) \/ Close(r) \/ Compact(r)
        PROVE  loc[q] = "running" /\ Unmoved(q)
    <2>1. Busy(r) \/ SendToClosed(r) => UNCHANGED <<loopVars, thread>>
      BY DEF Busy, SendToClosed
    <2>2. loc[r] = "idle" /\ r # q /\ loc'[q] = loc[q]
      BY <1>0, <1>1 DEF Busy, SendToClosed, Send, Close, Compact, Answer, Goto, Hears
    <2>3. ~Free
      BY <2>2, Exclusive DEF Holding
    <2>. QED
      BY <1>1, <2>1, <2>2, <2>3 DEF Send, Close, Compact, Unmoved, loopVars
  <1>2. ASSUME NEW r \in Request, r # q, loc[r] \in Holding,
               \A p \in Request \ {r} : loc'[p] = loc[p]
        PROVE  FALSE
    BY <1>2, Exclusive DEF Holding
  <1>3. ASSUME NEW r \in Request, HandlerStep(r) \/ LoopRaises(r) \/ SaveFails(r) \/ Cancel(r)
        PROVE  /\ loc[r] \in Holding
               /\ \A p \in Request \ {r} : loc'[p] = loc[p]
    BY <1>0, <1>3 DEF HandlerStep, Resume, Hears, StartRun, RunStep, SaveRun, Notified,
                      CloseNotified, Summarised, SummaryFails, LoopRaises, SaveFails, Cancel,
                      Return, Answer, Goto, Holding, sessionVars
  <1>4. ASSUME HandlerStep(q) \/ LoopRaises(q) \/ SaveFails(q) \/ Cancel(q)
        PROVE  \/ StartRun(q)
               \/ loc[q] = "running" /\ UNCHANGED thread /\ LoopStep(q)
               \/ loc[q] = "running" /\ UNCHANGED thread /\ LeaveLoop(q)
                  /\ (MayFail \/ Launched # {})
    <2>1. CASE RunStep(q)
      BY <2>1 DEF RunStep, sessionVars
    <2>2. CASE LoopRaises(q)
      BY <2>2 DEF LoopRaises, sessionVars
    <2>3. CASE Cancel(q)
      BY <1>0, <2>3 DEF Cancel, Return, Answer, Goto
    <2>4. CASE ~StartRun(q) /\ ~RunStep(q) /\ ~LoopRaises(q) /\ ~Cancel(q)
      <3>1. loc'[q] # "running"
        BY <1>0, <1>4, <2>4 DEF HandlerStep, Resume, Hears, SaveRun, Notified, CloseNotified,
                                Summarised, SummaryFails, SaveFails, Return, Answer, Goto
      <3>. QED
        BY <3>1
    <2>. QED
      BY <2>1, <2>2, <2>3, <2>4
  <1>5. CASE UNCHANGED vars
    BY <1>5 DEF vars, loopVars, sessionVars, Unmoved
  <1>6. ASSUME NEW r \in Request,
               Busy(r) \/ SendToClosed(r) \/ Send(r) \/ Close(r) \/ Compact(r)
               \/ HandlerStep(r) \/ LoopRaises(r) \/ SaveFails(r) \/ Cancel(r)
        PROVE  \/ StartRun(q)
               \/ loc[q] = "running" /\ UNCHANGED thread /\ LoopStep(q)
               \/ loc[q] = "running" /\ UNCHANGED thread /\ LeaveLoop(q)
                  /\ (MayFail \/ Launched # {})
               \/ loc[q] = "running" /\ Unmoved(q)
    BY <1>1, <1>2, <1>3, <1>4, <1>6
  <1>. QED
    BY <1>5, <1>6 DEF Next

\* The rows that a run of r leaves, when it is saved in full or in part.
Saves(r) ==
  /\ loc[r] = "running" /\ phase[r] = "ended" /\ loc'[r] \notin {"heard", "running"}
  /\ \E k \in 0..Len(NewMessages(r)) :
        /\ thread' = thread \o SubSeq(NewMessages(r), 1, k)
        /\ k = Len(NewMessages(r)) \/ MayFail

LEMMA NewMessagesType ==
  ASSUME TypeOK, NEW r \in Request
  PROVE  /\ NewMessages(r) \in Seq(Message)
         /\ SubSeq(NewMessages(r), 1, Len(NewMessages(r))) = NewMessages(r)
  <1> DEFINE n == NewMessages(r)
  <1>1. messages[r] \in Seq(Message) /\ prefill[r] + 1 \in Nat \ {0}
    BY DEF TypeOK, LoopTypeOK
  <1>2. Len(messages[r]) \in 0..Len(messages[r])
    BY <1>1, LenProperties
  <1>3. n \in Seq(Message)
    BY <1>1, <1>2, SliceMember DEF NewMessages
  <1> HIDE DEF n
  <1>4. Len(n) \in 0..Len(n) /\ 0 <= Len(n)
    BY <1>3, LenProperties
  <1>5. /\ SubSeq(n, 0 + 1, Len(n)) \in Seq(Message)
        /\ Len(SubSeq(n, 0 + 1, Len(n))) = Len(n) - 0
        /\ \A i \in 1..(Len(n) - 0) : SubSeq(n, 0 + 1, Len(n))[i] = n[0 + i]
    BY <1>3, <1>4, Cut
  <1>6. SubSeq(n, 1, Len(n)) = n
    BY <1>3, <1>4, <1>5, SeqEqual
  <1>. QED
    BY <1>3, <1>6 DEF n

LEMMA ThreadMoves ==
  ASSUME IInv, [Next]_vars
  PROVE  \/ /\ UNCHANGED thread
            /\ \A p \in Request : loc'[p] = "heard" => loc[p] = "heard"
            /\ \A p \in Request : loc'[p] = "running" => loc[p] \in {"heard", "running"}
         \/ \E r \in Request :
              /\ \A p \in Request \ {r} : loc'[p] = loc[p]
              /\ \/ loc[r] \in {"idle", "resuming"} /\ Hears(r)
                 \/ Saves(r)
                 \/ /\ loc[r] = "summarising" /\ loc'[r] = "done"
                    /\ thread' = Condensed(r)
  <1>0. /\ TypeOK /\ LoopTypeOK
        /\ loc \in [Request -> {"idle", "resuming", "heard", "running", "notifying",
                                "closing", "summarising", "done"}]
    BY DEF IInv, TypeOK
  <1> DEFINE Stays == /\ UNCHANGED thread
                      /\ \A p \in Request : loc'[p] = "heard" => loc[p] = "heard"
                      /\ \A p \in Request : loc'[p] = "running" => loc[p] \in {"heard", "running"}
  <1>1. ASSUME NEW r \in Request, \A p \in Request \ {r} : loc'[p] = loc[p], UNCHANGED thread,
               loc'[r] \in {loc[r], "resuming", "notifying", "closing", "summarising", "done"}
        PROVE  Stays
    BY <1>1
  <1>2. ASSUME NEW r \in Request, Busy(r) \/ SendToClosed(r) \/ Close(r) \/ Compact(r)
        PROVE  Stays
    BY <1>0, <1>1, <1>2 DEF Busy, SendToClosed, Close, Compact, Answer, Goto
  <1>3. ASSUME NEW r \in Request, Notified(r) \/ CloseNotified(r) \/ SummaryFails(r)
        PROVE  Stays
    BY <1>0, <1>1, <1>3 DEF Notified, CloseNotified, SummaryFails, Return, Answer, Goto
  <1>4. ASSUME NEW r \in Request, RunStep(r) \/ LoopRaises(r)
        PROVE  Stays
    BY <1>0, <1>4 DEF RunStep, LoopRaises, sessionVars
  <1>5. ASSUME NEW r \in Request, Cancel(r)
        PROVE  Stays
    BY <1>0, <1>1, <1>5 DEF Cancel, Return, Answer, Goto
  <1>6. ASSUME NEW r \in Request, StartRun(r)
        PROVE  Stays
    BY <1>0, <1>6 DEF StartRun, Goto
  <1>7. ASSUME NEW r \in Request, Send(r) \/ Resume(r)
        PROVE  /\ \A p \in Request \ {r} : loc'[p] = loc[p]
               /\ Stays \/ (loc[r] \in {"idle", "resuming"} /\ Hears(r))
    <2>1. \A p \in Request \ {r} : loc'[p] = loc[p]
      BY <1>0, <1>7 DEF Send, Resume, Hears, Goto
    <2>2. CASE Hears(r)
      BY <1>7, <2>1, <2>2 DEF Send, Resume
    <2>3. CASE ~Hears(r)
      <3>1. loc'[r] = "resuming" /\ UNCHANGED thread
        BY <1>0, <1>7, <2>3 DEF Send, Resume, Goto
      <3>. QED
        BY <1>1, <2>1, <3>1
    <2>. QED
      BY <2>2, <2>3
  <1>8. ASSUME NEW r \in Request, SaveRun(r) \/ SaveFails(r)
        PROVE  (\A p \in Request \ {r} : loc'[p] = loc[p]) /\ Saves(r)
    <2>1. \A p \in Request \ {r} : loc'[p] = loc[p]
      BY <1>0, <1>8 DEF SaveRun, SaveFails, Return, Answer, Goto
    <2>2. loc[r] = "running" /\ phase[r] = "ended" /\ loc'[r] \notin {"heard", "running"}
      BY <1>0, <1>8 DEF SaveRun, SaveFails, Return, Answer, Goto
    <2>3. Len(NewMessages(r)) \in Nat /\ Len(NewMessages(r)) \in 0..Len(NewMessages(r))
      BY <1>0, NewMessagesType, LenProperties
    <2>4. CASE SaveRun(r)
      <3>1. thread' = thread \o SubSeq(NewMessages(r), 1, Len(NewMessages(r)))
        BY <1>0, <2>4, NewMessagesType DEF SaveRun
      <3>. QED
        BY <2>1, <2>2, <2>3, <3>1 DEF Saves
    <2>5. CASE SaveFails(r)
      <3>1. PICK k \in 0..(Len(NewMessages(r)) - 1) :
               thread' = thread \o SubSeq(NewMessages(r), 1, k)
        BY <2>5 DEF SaveFails
      <3>2. MayFail /\ k \in 0..Len(NewMessages(r))
        BY <2>3, <2>5, <3>1 DEF SaveFails
      <3>. QED
        BY <2>1, <2>2, <3>1, <3>2 DEF Saves
    <2>. QED
      BY <1>8, <2>4, <2>5
  <1>9. ASSUME NEW r \in Request, Summarised(r)
        PROVE  /\ \A p \in Request \ {r} : loc'[p] = loc[p]
               /\ loc[r] = "summarising" /\ loc'[r] = "done" /\ thread' = Condensed(r)
    BY <1>0, <1>9 DEF Summarised, Return, Answer, Goto
  <1>10. CASE UNCHANGED vars
    BY <1>10 DEF vars, sessionVars
  <1> DEFINE Moves(r) == /\ \A p \in Request \ {r} : loc'[p] = loc[p]
                         /\ \/ loc[r] \in {"idle", "resuming"} /\ Hears(r)
                            \/ Saves(r)
                            \/ /\ loc[r] = "summarising" /\ loc'[r] = "done"
                               /\ thread' = Condensed(r)
  <1>11. ASSUME NEW r \in Request, Send(r) \/ Resume(r) \/ SaveRun(r) \/ SaveFails(r) \/ Summarised(r)
         PROVE  Stays \/ Moves(r)
    <2> HIDE DEF Stays
    <2>. QED
      BY <1>7, <1>8, <1>9, <1>11
  <1> HIDE DEF Stays, Moves
  <1>12. ASSUME Next PROVE Stays \/ \E r \in Request : Moves(r)
    <2>1. PICK r \in Request :
            \/ Busy(r) \/ SendToClosed(r) \/ Send(r) \/ Close(r) \/ Compact(r)
            \/ HandlerStep(r) \/ LoopRaises(r) \/ SaveFails(r) \/ Cancel(r)
      BY <1>12 DEF Next
    <2>2. Stays \/ Moves(r)
      BY <2>1, <1>2, <1>3, <1>4, <1>5, <1>6, <1>11, Zenon DEF HandlerStep
    <2>. QED
      BY <2>2
  <1>. QED
    BY <1>10, <1>12 DEF Stays, Moves
----------------------------------------------------------------------------
\* What the LLM is sent.

LoopPaired(r) ==
  /\ phase[r] \in {"planning", "condensing"} => Paired(messages[r])
  /\ phase[r] = "acting" => PairedBut(messages[r], TodoIds(r))

LEMMA ReplyType ==
  ASSUME LoopTypeOK, NEW r \in Request, LoopWell(r), phase[r] = "planning", NEW n \in 0..MaxCalls
  PROVE  /\ Assistant(r, IdSet(r, n)) \in Message
         /\ Assistant(r, IdSet(r, n)).uses = IdSet(r, n) /\ Assistant(r, IdSet(r, n)).results = {}
         /\ ResultsOf(r, IdSet(r, n)) \in Message
         /\ ResultsOf(r, IdSet(r, n)).uses = {} /\ ResultsOf(r, IdSet(r, n)).results = IdSet(r, n)
         /\ n = 0 => IdSet(r, n) = {}
         /\ IdSet(r, n) = IdsOf(CallIds(r, n))
  <1>1. step[r] \in 1..MaxSteps
    BY DEF LoopTypeOK, LoopWell
  <1>2. /\ Assistant(r, IdSet(r, n)) \in Message
        /\ ResultsOf(r, IdSet(r, n)) \in Message
    BY <1>1, IdsType, MessageType
  <1>3. n = 0 => IdSet(r, n) = {}
    BY DEF IdSet
  <1>4. IdSet(r, n) = IdsOf(CallIds(r, n))
    BY CallIdsIds
  <1>. QED
    BY <1>2, <1>3, <1>4 DEF Assistant, ResultsOf

LEMMA PairedLoopStep ==
  ASSUME NoStrayCalls, LoopTypeOK, NEW r \in Request, LoopWell(r), LoopPaired(r), LoopStep(r)
  PROVE  LoopPaired(r)'
  <1> DEFINE m == messages[r]
  <1>1. m \in Seq(Message) /\ messages \in [Request -> Seq(Message)]
        /\ todo \in [Request -> Seq(ToolId)] /\ todo[r] \in Seq(ToolId)
        /\ DOMAIN phase = Request
    BY DEF LoopTypeOK
  <1>2. ASSUME NEW n \in 0..MaxCalls, PlansTools(r, n)
        PROVE  LoopPaired(r)'
    <2> DEFINE x == Assistant(r, IdSet(r, n))
    <2>1. phase[r] = "planning" /\ Paired(m)
      BY <1>2 DEF PlansTools
    <2>2. x \in Message /\ x.uses = IdsOf(CallIds(r, n)) /\ x.results = {}
      BY <2>1, ReplyType
    <2>3. messages'[r] = Append(m, x) /\ todo'[r] = CallIds(r, n) /\ phase'[r] = "acting"
      BY <1>1, <1>2 DEF PlansTools
    <2> HIDE DEF x, m
    <2>4. PairedBut(Append(m, x), x.uses)
      BY <1>1, <2>1, <2>2, PairedAppend
    <2>. QED
      BY <2>2, <2>3, <2>4 DEF LoopPaired, TodoIds
  <1>3. ASSUME NEW reply \in Reply, PlansNothing(r, reply[1], reply[2])
        PROVE  LoopPaired(r)'
    <2>0. reply[2] \in 0..MaxCalls /\ reply = <<reply[1], reply[2]>>
          /\ reply[1] \in {"end_turn", "tool_use", "max_tokens", "other"}
      OBVIOUS
    <2> DEFINE n == reply[2]
    <2> DEFINE x == Assistant(r, IdSet(r, n))
    <2> DEFINE y == ResultsOf(r, IdSet(r, n))
    <2>1. phase[r] = "planning" /\ Paired(m) /\ EndStep(r, reply[1])
      BY <1>3 DEF PlansNothing
    <2>2. /\ x \in Message /\ x.uses = IdSet(r, n) /\ x.results = {}
          /\ y \in Message /\ y.uses = {} /\ y.results = IdSet(r, n)
          /\ n = 0 => IdSet(r, n) = {}
      BY <2>0, <2>1, ReplyType
    <2>3. phase'[r] # "acting"
      BY <1>1, <2>1 DEF EndStep, EndLoop, NextStep
    <2>4. ASSUME phase'[r] \in {"planning", "condensing"}
          PROVE  Paired(messages'[r])
      <3>1. reply[1] # "end_turn"
        BY <1>1, <2>1, <2>4 DEF EndStep, EndLoop
      <3>2. CASE reply[1] = "max_tokens" /\ n > 0
        <4>1. messages'[r] = m \o <<x, y>>
          BY <1>1, <1>3, <3>2 DEF PlansNothing, CutShort
        <4>2. y.results = x.uses
          BY <2>2
        <4> HIDE DEF m, x, y, n
        <4>3. Paired(m \o <<x, y>>)
          BY <1>1, <2>1, <2>2, <4>2, PairedCutShort
        <4>. QED
          BY <4>1, <4>3
      <3>3. CASE ~(reply[1] = "max_tokens" /\ n > 0)
        <4>1. messages'[r] = Append(m, x)
          BY <1>1, <1>3, <3>3 DEF PlansNothing
        <4>2. n = 0
          BY <1>3, <2>0, <3>1, <3>3 DEF PlansNothing, NoStrayCalls
        <4>3. x.uses = {}
          BY <2>2, <4>2
        <4> HIDE DEF m, x, n
        <4>4. Paired(Append(m, x))
          BY <1>1, <2>1, <2>2, <4>3, PairedAppend
        <4>. QED
          BY <4>1, <4>4
      <3>. QED
        BY <3>2, <3>3
    <2>. QED
      BY <2>3, <2>4 DEF LoopPaired
  <1>4. CASE PlanFails(r)
    BY <1>1, <1>4 DEF PlanFails, EndLoop, LoopPaired
  <1>5. CASE ToolReturns(r)
    <2> DEFINE a == AddResult(m, r, Head(todo[r]))
    <2>1. phase[r] = "acting" /\ todo[r] # <<>> /\ PairedBut(m, IdsOf(todo[r]))
      BY <1>5 DEF ToolReturns, LoopWell, LoopPaired, TodoIds
    <2>2. /\ Head(todo[r]) \in ToolId
          /\ IdsOf(todo[r]) = {Head(todo[r])} \cup IdsOf(Tail(todo[r]))
          /\ Tail(todo[r]) = <<>> => IdsOf(Tail(todo[r])) = {}
      BY <1>1, <2>1, TailIds
    <2>3. messages'[r] = a /\ todo'[r] = Tail(todo[r])
      BY <1>1, <1>5 DEF ToolReturns
    <2>4. /\ PairedBut(a, IdsOf(Tail(todo[r])))
          /\ IdsOf(Tail(todo[r])) = {} => Paired(a)
      <3> DEFINE ids == IdsOf(Tail(todo[r]))
      <3> DEFINE id == Head(todo[r])
      <3>1. PairedBut(m, {id} \cup ids) /\ id \in ToolId
        BY <2>1, <2>2
      <3> HIDE DEF m, ids, id
      <3>2. PairedBut(AddResult(m, r, id), ids) /\ (ids = {} => Paired(AddResult(m, r, id)))
        BY <1>1, <3>1, PairedResult
      <3>. QED
        BY <3>2 DEF ids, id
    <2>5. phase'[r] # "acting" => todo'[r] = <<>>
      BY <1>1, <1>5, <2>1 DEF ToolReturns
    <2>. QED
      BY <2>2, <2>3, <2>4, <2>5 DEF LoopPaired, TodoIds
  <1>6. CASE Condenses(r)
    <2>1. phase'[r] = "planning" /\ Paired(m)
      BY <1>1, <1>6 DEF Condenses, NextStep, LoopPaired
    <2>2. messages'[r] \in {Condensed(r), m}
      BY <1>1, <1>6 DEF Condenses
    <2>3. Paired(Condensed(r))
      <3>1. Len(Condensed(r)) = 2 /\ \A i \in 1..2 : Condensed(r)[i].uses = {} /\ Condensed(r)[i].results = {}
        BY DEF Condensed, Assistant
      <3>. QED
        BY <3>1 DEF Paired, PairedTo
    <2>. QED
      BY <2>1, <2>2, <2>3 DEF LoopPaired
  <1>. QED
    BY <1>2, <1>3, <1>4, <1>5, <1>6 DEF LoopStep

LEMMA PairedStep ==
  ASSUME NoStrayCalls, IInv, [Next]_vars, NEW q \in Request, PairedInv(q)
  PROVE  PairedInv(q)'
  <1> SUFFICES ASSUME loc'[q] = "running", Paired(Read(thread'))
               PROVE  LoopPaired(q)'
    BY DEF PairedInv, LoopPaired
  <1>0. TypeOK /\ LoopTypeOK /\ thread \in Seq(Message) /\ DOMAIN phase = Request
    BY DEF IInv, TypeOK, LoopTypeOK
  <1>1. CASE StartRun(q)
    <2>1. messages'[q] = IF Read(thread) = <<>> THEN <<UserText(q)>> ELSE Read(thread)
      BY <1>0, <1>1 DEF StartRun, StartLoop, LoopTypeOK
    <2>2. phase'[q] = "planning" /\ thread' = thread
      BY <1>0, <1>1 DEF StartRun, StartLoop
    <2>3. Paired(<<UserText(q)>>)
      <3>1. /\ Len(<<UserText(q)>>) = 1
            /\ <<UserText(q)>>[1].uses = {} /\ <<UserText(q)>>[1].results = {}
        BY DEF UserText
      <3>. QED
        BY <3>1 DEF Paired, PairedTo
    <2>. QED
      BY <2>1, <2>2, <2>3 DEF LoopPaired
  <1>2. CASE loc[q] = "running" /\ UNCHANGED thread /\ LoopStep(q)
    <2>1. LoopWell(q) /\ LoopPaired(q)
      BY <1>2, RunHoldsWell DEF PairedInv, LoopPaired
    <2>. QED
      BY <1>0, <1>2, <2>1, PairedLoopStep
  <1>3. CASE LeaveLoop(q)
    BY <1>0, <1>3 DEF LeaveLoop, EndLoop, LoopPaired
  <1>4. CASE loc[q] = "running" /\ Unmoved(q)
    BY <1>4 DEF Unmoved, PairedInv, LoopPaired, TodoIds
  <1>. QED
    BY <1>1, <1>2, <1>3, <1>4, RunMoves

\* The LLM is never sent a list in which calls and results are not paired by
\* a run that began with a paired one, if replies carry tool calls only where
\* the loop executes them, answers them or ends: whatever is cut short,
\* summarised, cancelled or raised on the way.
THEOREM RequestsArePaired ==
  ASSUME NoStrayCalls PROVE Spec => []RequestsPaired
  <1> DEFINE P == \A r \in Request : PairedInv(r)
  <1>1. Init => P
    BY DEF Init, PairedInv
  <1>2. P /\ IInv /\ [Next]_vars => P'
    BY PairedStep
  <1>3. P /\ IInv => RequestsPaired
    BY DEF PairedInv, RequestsPaired, IInv, HandlerInv
  <1>. QED
    BY <1>1, <1>2, <1>3, Invariance, PTL DEF Spec
----------------------------------------------------------------------------
\* What runs leave in the thread.

LoopCalls(r) ==
  /\ phase[r] # "condensing"
  /\ prefill[r] <= Len(messages[r])
  /\ OrderlyFrom(messages[r], prefill[r])
  /\ CallsUpTo(messages[r], prefill[r], r, IF phase[r] = "planning" THEN step[r] - 1 ELSE step[r])
  /\ phase[r] = "acting" => Awaiting(messages[r], prefill[r], TodoIds(r))

LEMMA UsesType ==
  ASSUME NEW m \in Seq(Message), NEW i \in 1..Len(m)
  PROVE  m[i] \in Message /\ m[i].uses \subseteq ToolId /\ m[i].results \subseteq ToolId
  <1>1. m[i] \in Message
    BY ElementOfSeq
  <1>. QED
    BY <1>1 DEF Message

LEMMA CallsUpToMore ==
  ASSUME NEW m \in Seq(Message), NEW p \in Nat, NEW r, NEW s \in Nat, NEW s2 \in Nat, s <= s2,
         CallsUpTo(m, p, r, s)
  PROVE  CallsUpTo(m, p, r, s2)
  <1> SUFFICES ASSUME NEW i \in (p + 1)..Len(m), NEW id \in m[i].uses
               PROVE  id[1] = r /\ id[2] <= s2
    BY DEF CallsUpTo
  <1>1. id \in ToolId
    <2>1. i \in 1..Len(m)
      BY LenProperties
    <2>. QED
      BY <2>1, UsesType
  <1>2. id[1] = r /\ id[2] <= s
    BY DEF CallsUpTo
  <1>3. id[2] \in Nat
    BY <1>1 DEF ToolId
  <1>. QED
    BY <1>2, <1>3

\* A message that makes the calls of the next step, or none, and answers only
\* calls of the last message.
LEMMA OrderlyAppend ==
  ASSUME NEW m \in Seq(Message), NEW p \in Nat, p <= Len(m), OrderlyFrom(m, p),
         NEW r, NEW s \in Nat \ {0}, NEW x \in Message,
         \/ CallsUpTo(m, p, r, s - 1) /\ \A id \in x.uses : id[1] = r /\ id[2] = s
         \/ CallsUpTo(m, p, r, s) /\ x.uses = {},
         x.results # {} => Len(m) > p /\ x.results \subseteq m[Len(m)].uses
  PROVE  OrderlyFrom(Append(m, x), p) /\ CallsUpTo(Append(m, x), p, r, s)
  <1> DEFINE a == Append(m, x)
  <1>1. /\ Len(m) \in Nat /\ Len(a) = Len(m) + 1 /\ a[Len(m) + 1] = x
        /\ \A i \in 1..Len(m) : a[i] = m[i]
    BY Appended
  <1> HIDE DEF a
  <1>2. \A i \in (p + 1)..Len(a) : i \in (p + 1)..Len(m) \/ i = Len(m) + 1
    BY <1>1
  <1>3. ASSUME NEW i \in (p + 1)..Len(a), a[i].results # {}
        PROVE  i > p + 1 /\ a[i].results \subseteq a[i - 1].uses
    <2>1. CASE i \in (p + 1)..Len(m)
      <3>1. i > p + 1 /\ m[i].results \subseteq m[i - 1].uses
        BY <1>1, <1>3, <2>1 DEF OrderlyFrom
      <3>2. i - 1 \in 1..Len(m) /\ i \in 1..Len(m)
        BY <1>1, <2>1, <3>1
      <3>. QED
        BY <1>1, <3>1, <3>2
    <2>2. CASE i = Len(m) + 1
      <3>1. Len(m) > p /\ x.results \subseteq m[Len(m)].uses
        BY <1>1, <1>3, <2>2
      <3>2. Len(m) \in 1..Len(m) /\ i - 1 = Len(m) /\ i > p + 1
        BY <1>1, <2>2, <3>1
      <3>. QED
        BY <1>1, <2>2, <3>1, <3>2
    <2>. QED
      BY <1>2, <2>1, <2>2
  <1>4. ASSUME NEW i \in (p + 1)..Len(a), NEW id \in a[i].uses
        PROVE  id[1] = r /\ id[2] <= s
    <2>1. CASE i \in (p + 1)..Len(m)
      <3>1. CallsUpTo(m, p, r, s)
        BY CallsUpToMore
      <3>. QED
        BY <1>1, <1>4, <2>1, <3>1 DEF CallsUpTo
    <2>2. CASE i = Len(m) + 1
      BY <1>1, <1>4, <2>2
    <2>. QED
      BY <1>2, <2>1, <2>2
  <1>5. ASSUME NEW i \in (p + 1)..Len(m)
        PROVE  m[i].uses \cap x.uses = {}
    <2>1. CASE CallsUpTo(m, p, r, s - 1) /\ \A id \in x.uses : id[1] = r /\ id[2] = s
      <3>1. ASSUME NEW id \in m[i].uses PROVE id \notin x.uses
        <4>1. id[2] <= s - 1
          BY <2>1 DEF CallsUpTo
        <4>2. ~(s <= s - 1)
          OBVIOUS
        <4>. QED
          BY <2>1, <4>1, <4>2
      <3>. QED
        BY <3>1
    <2>2. CASE x.uses = {}
      BY <2>2
    <2>. QED
      BY <2>1, <2>2
  <1>6. ASSUME NEW i \in (p + 1)..Len(a), NEW j \in (p + 1)..Len(a), i # j
        PROVE  a[i].uses \cap a[j].uses = {}
    <2>1. CASE i \in (p + 1)..Len(m) /\ j \in (p + 1)..Len(m)
      BY <1>1, <1>6, <2>1 DEF OrderlyFrom
    <2>2. CASE i \in (p + 1)..Len(m) /\ j = Len(m) + 1
      BY <1>1, <1>5, <2>2
    <2>3. CASE j \in (p + 1)..Len(m) /\ i = Len(m) + 1
      BY <1>1, <1>5, <2>3
    <2>. QED
      BY <1>2, <1>6, <2>1, <2>2, <2>3
  <1>. QED
    BY <1>3, <1>4, <1>6 DEF OrderlyFrom, CallsUpTo, a

\* A result of one of the calls that are awaited.
LEMMA OrderlyResult ==
  ASSUME NEW m \in Seq(Message), NEW p \in Nat, p <= Len(m), OrderlyFrom(m, p),
         NEW r \in Request, NEW s \in Nat \ {0}, CallsUpTo(m, p, r, s),
         NEW id \in ToolId, NEW ids, Awaiting(m, p, {id} \cup ids)
  PROVE  /\ p <= Len(AddResult(m, r, id))
         /\ OrderlyFrom(AddResult(m, r, id), p) /\ CallsUpTo(AddResult(m, r, id), p, r, s)
         /\ Awaiting(AddResult(m, r, id), p, ids)
  <1> DEFINE a == AddResult(m, r, id)
  <1>1. PICK k \in (p + 1)..Len(m) :
          /\ {id} \cup ids \subseteq m[k].uses
          /\ \/ k = Len(m) /\ m[k].results = {}
             \/ k + 1 = Len(m) /\ m[k + 1].results # {}
    BY DEF Awaiting
  <1>2. Len(m) \in Nat /\ m # <<>>
    <2>1. Len(m) \in Nat /\ Len(m) # 0
      BY <1>1, LenProperties
    <2>. QED
      BY <2>1, EmptySeq
  <1>3. CASE k = Len(m) /\ m[k].results = {}
    <2> DEFINE x == ResultsOf(r, {id})
    <2>1. x \in Message /\ x.uses = {} /\ x.results = {id}
      BY MessageType DEF ResultsOf
    <2>2. a = Append(m, x)
      BY <1>3 DEF AddResult
    <2> HIDE DEF x, a
    <2>3. x.results # {} => Len(m) > p /\ x.results \subseteq m[Len(m)].uses
      BY <1>1, <1>2, <1>3, <2>1
    <2>4. OrderlyFrom(a, p) /\ CallsUpTo(a, p, r, s)
      BY <2>1, <2>2, <2>3, OrderlyAppend
    <2>5. /\ Len(a) = Len(m) + 1 /\ a[Len(m) + 1] = x
          /\ \A i \in 1..Len(m) : a[i] = m[i]
      BY <2>1, <2>2, Appended
    <2>6. k \in (p + 1)..Len(a) /\ k + 1 = Len(a) /\ a[k + 1] = x /\ a[k] = m[k]
      BY <1>1, <1>2, <1>3, <2>5
    <2>7. Awaiting(a, p, ids)
      BY <1>1, <2>1, <2>6 DEF Awaiting
    <2>. QED
      BY <1>2, <2>4, <2>5, <2>7 DEF a
  <1>4. CASE k + 1 = Len(m) /\ m[k + 1].results # {}
    <2>1. /\ Len(a) = Len(m)
          /\ \A i \in 1..(Len(m) - 1) : a[i] = m[i]
          /\ a[Len(m)].uses = m[Len(m)].uses
          /\ a[Len(m)].results = m[Len(m)].results \cup {id}
      <3>1. m[Len(m)].results # {}
        BY <1>4
      <3>. QED
        BY <1>2, <3>1, ResultAdded
    <2> HIDE DEF a
    <2>2. \A i \in (p + 1)..Len(m) : a[i].uses = m[i].uses /\ (i # Len(m) => a[i] = m[i])
      BY <1>2, <2>1
    <2>3. ASSUME NEW i \in (p + 1)..Len(a), a[i].results # {}
          PROVE  i > p + 1 /\ a[i].results \subseteq a[i - 1].uses
      <3>1. CASE i # Len(m)
        <4>1. i > p + 1 /\ m[i].results \subseteq m[i - 1].uses
          BY <2>1, <2>2, <2>3, <3>1 DEF OrderlyFrom
        <4>2. i - 1 \in (p + 1)..Len(m)
          BY <1>2, <2>1, <4>1
        <4>. QED
          BY <2>1, <2>2, <3>1, <4>1, <4>2
      <3>2. CASE i = Len(m)
        <4>1. i > p + 1 /\ m[i].results \subseteq m[i - 1].uses
          BY <1>2, <1>4, <2>1, <3>2 DEF OrderlyFrom
        <4>2. i - 1 = k /\ i - 1 \in (p + 1)..Len(m)
          BY <1>1, <1>2, <1>4, <3>2
        <4>. QED
          BY <1>1, <2>1, <2>2, <3>2, <4>1, <4>2
      <3>. QED
        BY <3>1, <3>2
    <2>4. OrderlyFrom(a, p)
      <3>1. ASSUME NEW i \in (p + 1)..Len(a), NEW j \in (p + 1)..Len(a), i # j
            PROVE  a[i].uses \cap a[j].uses = {}
        BY <2>1, <2>2, <3>1 DEF OrderlyFrom
      <3>. QED
        BY <2>3, <3>1 DEF OrderlyFrom
    <2>5. CallsUpTo(a, p, r, s)
      BY <2>1, <2>2 DEF CallsUpTo
    <2>6. k \in (p + 1)..Len(a) /\ k + 1 = Len(a) /\ a[k + 1].results # {} /\ a[k].uses = m[k].uses
      BY <1>1, <1>2, <1>4, <2>1, <2>2
    <2>7. Awaiting(a, p, ids)
      BY <1>1, <2>6 DEF Awaiting
    <2>. QED
      BY <2>1, <2>4, <2>5, <2>7 DEF a
  <1>. QED
    BY <1>1, <1>3, <1>4

LEMMA TwoAppends ==
  ASSUME NEW m \in Seq(Message), NEW x \in Message, NEW y \in Message
  PROVE  m \o <<x, y>> = Append(Append(m, x), y)
  <1>1. /\ m \o <<x, y>> \in Seq(Message) /\ Len(m) \in Nat
        /\ Len(m \o <<x, y>>) = Len(m) + 2
        /\ \A i \in 1..Len(m) : (m \o <<x, y>>)[i] = m[i]
        /\ (m \o <<x, y>>)[Len(m) + 1] = x
        /\ (m \o <<x, y>>)[Len(m) + 2] = y
    BY AppendedTwo
  <1>2. /\ Append(m, x) \in Seq(Message)
        /\ Len(Append(m, x)) = Len(m) + 1
        /\ \A i \in 1..Len(m) : Append(m, x)[i] = m[i]
        /\ Append(m, x)[Len(m) + 1] = x
    BY Appended
  <1> DEFINE a == Append(m, x)
  <1> DEFINE c == m \o <<x, y>>
  <1> HIDE DEF a, c
  <1>3. /\ Append(a, y) \in Seq(Message)
        /\ Len(Append(a, y)) = Len(a) + 1
        /\ \A i \in 1..Len(a) : Append(a, y)[i] = a[i]
        /\ Append(a, y)[Len(a) + 1] = y
    BY <1>2, Appended DEF a
  <1>4. \A i \in 1..Len(c) : i \in 1..Len(m) \/ i = Len(m) + 1 \/ i = Len(m) + 2
    BY <1>1 DEF c
  <1>5. Len(c) = Len(Append(a, y))
    BY <1>1, <1>2, <1>3 DEF a, c
  <1>6. ASSUME NEW i \in 1..Len(c) PROVE c[i] = Append(a, y)[i]
    <2>1. CASE i \in 1..Len(m)
      BY <1>1, <1>2, <1>3, <2>1 DEF a, c
    <2>2. CASE i = Len(m) + 1
      BY <1>1, <1>2, <1>3, <2>2 DEF a, c
    <2>3. CASE i = Len(m) + 2
      BY <1>1, <1>2, <1>3, <2>3 DEF a, c
    <2>. QED
      BY <1>4, <2>1, <2>2, <2>3
  <1>7. c = Append(a, y)
    BY <1>1, <1>3, <1>5, <1>6, SeqEqual DEF c
  <1>. QED
    BY <1>7 DEF a, c

\* Where a step goes when no summary is ever due.
LEMMA EndStepPlain ==
  ASSUME ~AutoCompact, LoopTypeOK, NEW r \in Request, step[r] \in Nat, NEW stop, EndStep(r, stop)
  PROVE  \/ phase'[r] = "ended" /\ step'[r] = step[r]
         \/ phase'[r] = "planning" /\ step'[r] = step[r] + 1
  BY DEF EndStep, EndLoop, NextStep, LoopTypeOK

LEMMA CallsLoopStep ==
  ASSUME ~AutoCompact, LoopTypeOK, NEW r \in Request, LoopWell(r), LoopCalls(r), LoopStep(r)
  PROVE  LoopCalls(r)'
  <1> DEFINE m == messages[r]
  <1> DEFINE p == prefill[r]
  <1> DEFINE s == step[r]
  <1>1. /\ m \in Seq(Message) /\ messages \in [Request -> Seq(Message)] /\ p \in Nat
        /\ todo \in [Request -> Seq(ToolId)] /\ todo[r] \in Seq(ToolId)
        /\ DOMAIN phase = Request /\ DOMAIN step = Request
        /\ s \in Nat /\ Len(m) \in Nat
    BY LenProperties DEF LoopTypeOK
  <1>2. /\ phase[r] # "condensing" /\ p <= Len(m) /\ OrderlyFrom(m, p)
        /\ phase[r] = "planning" => CallsUpTo(m, p, r, s - 1)
        /\ phase[r] # "planning" => CallsUpTo(m, p, r, s)
        /\ phase[r] = "acting" => Awaiting(m, p, IdsOf(todo[r]))
        /\ phase[r] \in {"planning", "acting"} => s \in Nat \ {0}
    BY <1>1 DEF LoopCalls, LoopWell, TodoIds
  <1>3. ASSUME NEW n \in 0..MaxCalls, NEW x, x = Assistant(r, IdSet(r, n)), phase[r] = "planning"
        PROVE  /\ Append(m, x) \in Seq(Message) /\ Len(Append(m, x)) = Len(m) + 1
               /\ OrderlyFrom(Append(m, x), p) /\ CallsUpTo(Append(m, x), p, r, s)
               /\ Append(m, x)[Len(m) + 1] = x /\ x \in Message
               /\ x.uses = IdSet(r, n) /\ x.results = {}
    <2>1. x \in Message /\ x.uses = IdSet(r, n) /\ x.results = {}
      BY <1>3, ReplyType
    <2>2. \A id \in x.uses : id[1] = r /\ id[2] = s
      BY <2>1 DEF IdSet
    <2> HIDE DEF m, p, s
    <2>3. OrderlyFrom(Append(m, x), p) /\ CallsUpTo(Append(m, x), p, r, s)
      BY <1>1, <1>2, <1>3, <2>1, <2>2, OrderlyAppend
    <2>. QED
      BY <1>1, <2>1, <2>3, Appended
  <1>4. ASSUME NEW a \in Seq(Message), messages'[r] = a, prefill' = prefill, p <= Len(a),
               OrderlyFrom(a, p), CallsUpTo(a, p, r, s), s \in Nat \ {0},
               \/ phase'[r] = "ended" /\ step'[r] = step[r]
               \/ phase'[r] = "planning" /\ step'[r] = step[r] + 1
        PROVE  LoopCalls(r)'
    <2>1. phase'[r] = "planning" => step'[r] - 1 = s
      BY <1>4
    <2>. QED
      BY <1>4, <2>1 DEF LoopCalls
  <1>5. ASSUME NEW n \in 0..MaxCalls, PlansTools(r, n)
        PROVE  LoopCalls(r)'
    <2> DEFINE x == Assistant(r, IdSet(r, n))
    <2>1. /\ phase[r] = "planning" /\ messages'[r] = Append(m, x) /\ todo'[r] = CallIds(r, n)
          /\ phase'[r] = "acting" /\ prefill' = prefill /\ step' = step
      BY <1>1, <1>5 DEF PlansTools
    <2> HIDE DEF x
    <2>2. /\ Append(m, x) \in Seq(Message) /\ Len(Append(m, x)) = Len(m) + 1
          /\ OrderlyFrom(Append(m, x), p) /\ CallsUpTo(Append(m, x), p, r, s)
          /\ Append(m, x)[Len(m) + 1] = x
          /\ x.uses = IdSet(r, n) /\ x.results = {}
      BY <1>3, <2>1 DEF x
    <2>3. IdsOf(CallIds(r, n)) = IdSet(r, n)
      BY CallIdsIds
    <2> DEFINE a == Append(m, x)
    <2> HIDE DEF a
    <2>4. Awaiting(a, p, IdSet(r, n))
      <3>1. Len(m) + 1 \in (p + 1)..Len(a) /\ a[Len(m) + 1] = x /\ Len(a) = Len(m) + 1
        BY <1>1, <1>2, <2>2 DEF a
      <3>. QED
        BY <2>2, <3>1 DEF Awaiting
    <2>5. p <= Len(a)
      BY <1>1, <1>2, <2>2 DEF a
    <2>. QED
      BY <2>1, <2>2, <2>3, <2>4, <2>5 DEF LoopCalls, TodoIds, a
  <1>6. ASSUME NEW reply \in Reply, PlansNothing(r, reply[1], reply[2])
        PROVE  LoopCalls(r)'
    <2> DEFINE n == reply[2]
    <2> DEFINE x == Assistant(r, IdSet(r, n))
    <2> DEFINE y == ResultsOf(r, IdSet(r, n))
    <2>0. n \in 0..MaxCalls
      OBVIOUS
    <2>1. /\ phase[r] = "planning" /\ prefill' = prefill
          /\ \/ phase'[r] = "ended" /\ step'[r] = step[r]
             \/ phase'[r] = "planning" /\ step'[r] = step[r] + 1
      BY <1>1, <1>6, EndStepPlain DEF PlansNothing
    <2>2. /\ Append(m, x) \in Seq(Message) /\ Len(Append(m, x)) = Len(m) + 1
          /\ OrderlyFrom(Append(m, x), p) /\ CallsUpTo(Append(m, x), p, r, s)
          /\ Append(m, x)[Len(m) + 1] = x /\ x \in Message
          /\ x.uses = IdSet(r, n) /\ x.results = {}
      BY <1>3, <2>0, <2>1
    <2>3. CASE messages'[r] = Append(m, x)
      <3> DEFINE a == Append(m, x)
      <3>1. p <= Len(a) /\ s \in Nat \ {0}
        BY <1>1, <1>2, <2>1, <2>2
      <3> HIDE DEF a
      <3>. QED
        BY <1>4, <2>1, <2>2, <2>3, <3>1 DEF a
    <2>4. CASE messages'[r] = m \o <<x, y>>
      <3>1. y \in Message /\ y.uses = {} /\ y.results = IdSet(r, n)
        BY <2>0, <2>1, ReplyType
      <3> DEFINE a == Append(m, x)
      <3> HIDE DEF m, p, s, x, y, a, n
      <3>2. messages'[r] = Append(a, y)
        BY <1>1, <2>2, <2>4, <3>1, TwoAppends DEF a
      <3>3. p < Len(a) /\ s \in Nat \ {0} /\ a \in Seq(Message)
        BY <1>1, <1>2, <2>1, <2>2 DEF a
      <3>4. y.results # {} => Len(a) > p /\ y.results \subseteq a[Len(a)].uses
        BY <2>2, <3>1, <3>3, LenProperties DEF a
      <3>5. OrderlyFrom(Append(a, y), p) /\ CallsUpTo(Append(a, y), p, r, s)
        <4>1. p <= Len(a) /\ OrderlyFrom(a, p) /\ CallsUpTo(a, p, r, s)
          BY <1>1, <2>2, <3>3, LenProperties DEF a
        <4>. QED
          BY <1>1, <3>1, <3>3, <3>4, <4>1, OrderlyAppend
      <3>6. Append(a, y) \in Seq(Message) /\ p <= Len(Append(a, y))
        BY <1>1, <3>1, <3>3, Appended
      <3>. QED
        BY <1>4, <2>1, <3>2, <3>3, <3>5, <3>6 DEF s
    <2>5. messages'[r] \in {Append(m, x), m \o <<x, y>>}
      BY <1>1, <1>6 DEF PlansNothing, CutShort
    <2>. QED
      BY <2>3, <2>4, <2>5
  <1>7. CASE PlanFails(r)
    <2>1. /\ phase[r] = "planning" /\ messages'[r] = m /\ prefill' = prefill
          /\ phase'[r] = "ended" /\ step'[r] = step[r]
      BY <1>1, <1>7 DEF PlanFails, EndLoop
    <2>2. CallsUpTo(m, p, r, s)
      <3>1. s - 1 \in Nat /\ s - 1 <= s /\ CallsUpTo(m, p, r, s - 1)
        BY <1>2, <2>1
      <3> HIDE DEF m, p, s
      <3>. QED
        BY <1>1, <3>1, CallsUpToMore
    <2>3. s \in Nat \ {0}
      BY <1>2, <2>1
    <2>. QED
      BY <1>1, <1>2, <1>4, <2>1, <2>2, <2>3
  <1>8. CASE ToolReturns(r)
    <2> DEFINE id == Head(todo[r])
    <2> DEFINE ids == IdsOf(Tail(todo[r]))
    <2> DEFINE a == AddResult(m, r, id)
    <2>1. /\ phase[r] = "acting" /\ todo[r] # <<>>
          /\ messages'[r] = a /\ todo'[r] = Tail(todo[r]) /\ prefill' = prefill
      BY <1>1, <1>8 DEF ToolReturns, LoopWell
    <2>2. id \in ToolId /\ IdsOf(todo[r]) = {id} \cup ids
      BY <1>1, <2>1, TailIds
    <2>3. Awaiting(m, p, {id} \cup ids) /\ CallsUpTo(m, p, r, s) /\ s \in Nat \ {0}
      BY <1>2, <2>1, <2>2
    <2>4. /\ p <= Len(a) /\ OrderlyFrom(a, p) /\ CallsUpTo(a, p, r, s) /\ Awaiting(a, p, ids)
          /\ a \in Seq(Message)
      <3>1. m # <<>>
        <4>1. Len(m) # 0
          BY <1>1, <2>3 DEF Awaiting
        <4>. QED
          BY <4>1
      <3> HIDE DEF m, p, s, id, ids
      <3>. QED
        BY <1>1, <1>2, <2>2, <2>3, <3>1, OrderlyResult, ResultAdded
    <2>5. CASE todo'[r] = <<>>
      <3>1. \/ phase'[r] = "ended" /\ step'[r] = step[r]
            \/ phase'[r] = "planning" /\ step'[r] = step[r] + 1
        BY <1>1, <1>8, <2>5, EndStepPlain DEF ToolReturns
      <3> HIDE DEF a
      <3>. QED
        BY <1>4, <2>1, <2>3, <2>4, <3>1
    <2>6. CASE todo'[r] # <<>>
      <3>1. phase'[r] = "acting" /\ step'[r] = step[r]
        BY <1>8, <2>1, <2>6 DEF ToolReturns
      <3> HIDE DEF a
      <3>. QED
        BY <2>1, <2>4, <3>1 DEF LoopCalls, TodoIds
    <2>. QED
      BY <2>5, <2>6
  <1>9. CASE Condenses(r)
    BY <1>2, <1>9 DEF Condenses
  <1>. QED
    BY <1>5, <1>6, <1>7, <1>8, <1>9 DEF LoopStep

LEMMA CallsStep ==
  ASSUME ~AutoCompact, IInv, [Next]_vars, NEW q \in Request, CallsInv(q)
  PROVE  CallsInv(q)'
  <1> SUFFICES ASSUME loc'[q] = "running" PROVE LoopCalls(q)'
    BY DEF CallsInv, LoopCalls
  <1>0. /\ TypeOK /\ LoopTypeOK /\ thread \in Seq(Message) /\ DOMAIN phase = Request
        /\ messages[q] \in Seq(Message) /\ prefill[q] \in Nat /\ step[q] \in 0..MaxSteps
    BY DEF IInv, TypeOK, LoopTypeOK
  <1>1. CASE StartRun(q)
    <2> DEFINE h == Read(thread)
    <2> DEFINE m == IF h = <<>> THEN <<UserText(q)>> ELSE h
    <2>1. /\ messages'[q] = m /\ prefill'[q] = Len(h) /\ step'[q] = 1 /\ phase'[q] = "planning"
      BY <1>0, <1>1 DEF StartRun, StartLoop, LoopTypeOK
    <2>2. h \in Seq(Message) /\ Len(h) \in Nat
      BY <1>0, TrimType, LenProperties DEF Read
    <2>3. /\ Len(h) <= Len(m)
          /\ \A i \in (Len(h) + 1)..Len(m) : i = 1 /\ m[i].uses = {} /\ m[i].results = {}
      <3>1. CASE h = <<>>
        <4>1. /\ Len(h) = 0 /\ Len(m) = 1 /\ m[1] = UserText(q)
          BY <3>1
        <4>. QED
          BY <4>1 DEF UserText
      <3>2. CASE h # <<>>
        BY <2>2, <3>2
      <3>. QED
        BY <3>1, <3>2
    <2> HIDE DEF h, m
    <2>4. OrderlyFrom(m, Len(h)) /\ CallsUpTo(m, Len(h), q, 0)
      BY <2>3 DEF OrderlyFrom, CallsUpTo
    <2>. QED
      BY <2>1, <2>3, <2>4 DEF LoopCalls
  <1>2. CASE loc[q] = "running" /\ UNCHANGED thread /\ LoopStep(q)
    <2>1. LoopWell(q) /\ LoopCalls(q)
      BY <1>2, RunHoldsWell DEF CallsInv, LoopCalls
    <2>. QED
      BY <1>0, <1>2, <2>1, CallsLoopStep
  <1>3. CASE loc[q] = "running" /\ LeaveLoop(q)
    <2>1. LoopCalls(q) /\ LoopWell(q)
      BY <1>3, RunHoldsWell DEF CallsInv, LoopCalls
    <2>2. /\ phase'[q] = "ended" /\ phase[q] \in {"planning", "acting", "condensing"}
          /\ UNCHANGED <<messages, prefill, step>>
      BY <1>0, <1>3 DEF LeaveLoop, EndLoop
    <2>3. CallsUpTo(messages[q], prefill[q], q, step[q])
      <3>1. CASE phase[q] = "planning"
        <4>1. /\ step[q] - 1 \in Nat /\ step[q] \in Nat /\ step[q] - 1 <= step[q]
              /\ CallsUpTo(messages[q], prefill[q], q, step[q] - 1)
          BY <1>0, <2>1, <3>1 DEF LoopWell, LoopCalls
        <4>. QED
          BY <1>0, <4>1, CallsUpToMore
      <3>2. CASE phase[q] # "planning"
        BY <2>1, <3>2 DEF LoopCalls
      <3>. QED
        BY <3>1, <3>2
    <2>. QED
      BY <2>1, <2>2, <2>3 DEF LoopCalls
  <1>4. CASE loc[q] = "running" /\ Unmoved(q)
    BY <1>4 DEF Unmoved, CallsInv, LoopCalls, TodoIds
  <1>. QED
    BY <1>1, <1>2, <1>3, <1>4, RunMoves

\* What a run saves, in full or in part, is orderly, and its calls are its own.
LEMMA SavedOrderly ==
  ASSUME IInv, NEW r \in Request, loc[r] = "running", CallsInv(r),
         NEW k \in 0..Len(NewMessages(r))
  PROVE  /\ SubSeq(NewMessages(r), 1, k) \in Seq(Message)
         /\ OrderlyFrom(SubSeq(NewMessages(r), 1, k), 0)
         /\ \A i \in 1..Len(SubSeq(NewMessages(r), 1, k)) :
               /\ SubSeq(NewMessages(r), 1, k)[i].turn = r
               /\ \A id \in SubSeq(NewMessages(r), 1, k)[i].uses : id[1] = r
  <1> DEFINE m == messages[r]
  <1> DEFINE p == prefill[r]
  <1> DEFINE n == NewMessages(r)
  <1>1. /\ m \in Seq(Message) /\ p \in Nat /\ p <= Len(m) /\ Len(m) \in 0..Len(m) /\ Len(m) \in Nat
        /\ OrderlyFrom(m, p) /\ n = SubSeq(m, p + 1, Len(m))
        /\ \A i \in (p + 1)..Len(m) : \A id \in m[i].uses : id[1] = r
    BY LenProperties DEF IInv, TypeOK, LoopTypeOK, CallsInv, CallsUpTo, NewMessages
  <1>2. \A i \in 1..Len(n) : n[i].turn = r
    BY NewMessagesOwn DEF IInv
  <1> HIDE DEF m, p, n
  <1>3. /\ n \in Seq(Message) /\ Len(n) = Len(m) - p /\ OrderlyFrom(n, 0)
        /\ \A i \in 1..(Len(m) - p) : n[i] = m[p + i]
    BY <1>1, Cut, OrderlyCut
  <1>4. ASSUME NEW i \in 1..Len(n) PROVE \A id \in n[i].uses : id[1] = r
    <2>1. p + i \in (p + 1)..Len(m) /\ n[i] = m[p + i]
      BY <1>1, <1>3
    <2>. QED
      BY <1>1, <2>1
  <1>5. k \in 0..Len(n) /\ 0 <= k
    BY DEF n
  <1> DEFINE c == SubSeq(n, 0 + 1, k)
  <1>6. /\ c \in Seq(Message) /\ Len(c) = k /\ OrderlyFrom(c, 0)
        /\ \A i \in 1..k : c[i] = n[i] /\ i \in 1..Len(n)
    BY <1>3, <1>5, Cut, OrderlyCut
  <1>7. c = SubSeq(NewMessages(r), 1, k)
    BY DEF n
  <1> HIDE DEF c
  <1>. QED
    BY <1>2, <1>4, <1>6, <1>7

LEMMA RowCallsStep ==
  ASSUME IInv, [Next]_vars, OrderInv
  PROVE  RowCallsInv'
  <1>0. /\ thread \in Seq(Message) /\ RowsInv /\ OrderlyFrom(thread, 0) /\ Len(thread) \in Nat
        /\ \A i \in 1..Len(thread) :
              /\ thread[i].turn \in Request
              /\ \A id \in thread[i].uses : id[1] = thread[i].turn /\ loc[id[1]] \notin {"heard", "running"}
        /\ loc \in [Request -> {"idle", "resuming", "heard", "running", "notifying",
                                "closing", "summarising", "done"}]
    BY RowsType, LenProperties DEF IInv, TypeOK, OrderInv, RowCallsInv
  <1>1. CASE /\ UNCHANGED thread
             /\ \A p \in Request : loc'[p] = "heard" => loc[p] = "heard"
             /\ \A p \in Request : loc'[p] = "running" => loc[p] \in {"heard", "running"}
    BY <1>0, <1>1 DEF RowCallsInv
  <1>2. ASSUME NEW r \in Request, NEW n \in Seq(Message), thread' = thread \o n, OrderlyFrom(n, 0),
               \A p \in Request \ {r} : loc'[p] = loc[p],
               \A i \in 1..Len(n) : n[i].turn = r /\ \A id \in n[i].uses :
                                       id[1] = r /\ loc'[r] \notin {"heard", "running"},
               \A i \in 1..Len(thread) : \A id \in thread[i].uses : id[1] # r
        PROVE  RowCallsInv'
    <2> DEFINE c == thread \o n
    <2>1. /\ Len(c) = Len(thread) + Len(n) /\ Len(n) \in Nat
          /\ \A i \in 1..Len(thread) : c[i] = thread[i]
          /\ \A i \in (Len(thread) + 1)..(Len(thread) + Len(n)) :
                 i - Len(thread) \in 1..Len(n) /\ c[i] = n[i - Len(thread)]
      BY <1>0, Grown
    <2>2. OrderlyFrom(c, 0)
      <3>1. \A i \in 1..Len(thread), j \in 1..Len(n) : thread[i].uses \cap n[j].uses = {}
        BY <1>2
      <3>. QED
        BY <1>0, <1>2, <3>1, OrderlyConcat
    <2> HIDE DEF c
    <2>3. ASSUME NEW i \in 1..Len(c), NEW id \in c[i].uses
          PROVE  id[1] = c[i].turn /\ loc'[id[1]] \notin {"heard", "running"}
      <3>1. CASE i <= Len(thread)
        <4>1. /\ i \in 1..Len(thread) /\ c[i] = thread[i] /\ id \in thread[i].uses
          BY <1>0, <2>1, <2>3, <3>1
        <4>. QED
          BY <1>0, <1>2, <4>1
      <3>2. CASE i > Len(thread)
        <4>1. /\ i - Len(thread) \in 1..Len(n) /\ c[i] = n[i - Len(thread)]
          BY <1>0, <2>1, <3>2
        <4>. QED
          BY <1>2, <2>3, <4>1
      <3>. QED
        BY <1>0, <2>1, <3>1, <3>2
    <2>4. thread' = c
      BY <1>2 DEF c
    <2>. QED
      BY <2>2, <2>3, <2>4 DEF RowCallsInv
  <1>3. ASSUME NEW r \in Request, \A p \in Request \ {r} : loc'[p] = loc[p],
               loc[r] \in {"idle", "resuming"}, Hears(r)
        PROVE  RowCallsInv'
    <2> DEFINE n == <<UserText(r)>>
    <2>1. UserText(r) \in Message /\ UserText(r).turn = r /\ UserText(r).uses = {}
          /\ UserText(r).results = {}
      BY MessageType DEF UserText
    <2>2. n \in Seq(Message) /\ Len(n) = 1 /\ n[1] = UserText(r)
      BY <2>1
    <2>3. thread' = thread \o n
      BY <1>0, <1>3, <2>1, AppendIsConcat DEF Hears
    <2>4. \A i \in 1..Len(thread) : \A id \in thread[i].uses : id[1] # r
      BY <1>0, <1>3 DEF RowsInv
    <2> HIDE DEF n
    <2>5. OrderlyFrom(n, 0)
      BY <2>1, <2>2 DEF OrderlyFrom
    <2>. QED
      BY <1>2, <1>3, <2>1, <2>2, <2>3, <2>4, <2>5
  <1>4. ASSUME NEW r \in Request, \A p \in Request \ {r} : loc'[p] = loc[p], Saves(r)
        PROVE  RowCallsInv'
    <2>1. PICK k \in 0..Len(NewMessages(r)) : thread' = thread \o SubSeq(NewMessages(r), 1, k)
      BY <1>4 DEF Saves
    <2> DEFINE n == SubSeq(NewMessages(r), 1, k)
    <2>2. /\ n \in Seq(Message) /\ OrderlyFrom(n, 0)
          /\ \A i \in 1..Len(n) : n[i].turn = r /\ \A id \in n[i].uses : id[1] = r
      BY <1>4, SavedOrderly DEF Saves, OrderInv
    <2>3. \A i \in 1..Len(thread) : \A id \in thread[i].uses : id[1] # r
      BY <1>0, <1>4 DEF Saves
    <2> HIDE DEF n
    <2>. QED
      BY <1>2, <1>4, <2>1, <2>2, <2>3 DEF n, Saves
  <1>5. ASSUME NEW r, thread' = Condensed(r)
        PROVE  RowCallsInv'
    <2>1. /\ Len(Condensed(r)) = 2
          /\ \A i \in 1..2 : Condensed(r)[i].uses = {} /\ Condensed(r)[i].results = {}
      BY DEF Condensed, Assistant
    <2>. QED
      BY <1>5, <2>1 DEF RowCallsInv, OrderlyFrom
  <1>. QED
    BY <1>1, <1>3, <1>4, <1>5, ThreadMoves

\* read_messages never returns a tool call without its results, or results
\* without their call, as long as no run is summarised in the middle: whatever
\* the LLM replies, and wherever a run is cut by its limit, an exception or a
\* cancellation, or its save stops.
THEOREM ThreadAlwaysReadsPaired ==
  ASSUME ~AutoCompact PROVE Spec => []ThreadReadsPaired
  <1>1. Init => OrderInv
    <2> SUFFICES ASSUME Init PROVE OrderInv
      OBVIOUS
    <2>1. RowCallsInv
      BY DEF Init, RowCallsInv, OrderlyFrom
    <2>. QED
      BY <2>1 DEF Init, OrderInv, CallsInv
  <1>2. OrderInv /\ IInv /\ [Next]_vars => OrderInv'
    BY CallsStep, RowCallsStep DEF OrderInv
  <1>3. OrderInv /\ IInv => ThreadReadsPaired
    BY OrderlyReadsPaired DEF OrderInv, RowCallsInv, IInv, TypeOK, ThreadReadsPaired, Read
  <1>. QED
    BY <1>1, <1>2, <1>3, Invariance, PTL DEF Spec
----------------------------------------------------------------------------
\* Calls that are answered: what is in the thread is read, run and kept.

DueLoop(r) ==
  /\ OneKind(messages[r])
  /\ AnsweredBut(messages[r], IF phase[r] = "acting" THEN TodoIds(r) ELSE {})

\* The calls of a new message are due; those that it answers no longer are.
LEMMA DueAppend ==
  ASSUME NEW m \in Seq(Message), NEW x \in Message, NEW ids,
         AnsweredBut(m, ids \cup x.results), OneKind(m),
         x.uses = {} \/ x.results = {}, x.uses \subseteq ids
  PROVE  AnsweredBut(Append(m, x), ids) /\ OneKind(Append(m, x))
  <1> DEFINE a == Append(m, x)
  <1>1. /\ Len(m) \in Nat /\ Len(a) = Len(m) + 1 /\ a[Len(m) + 1] = x
        /\ \A i \in 1..Len(m) : a[i] = m[i]
        /\ \A i \in 1..Len(a) : i \in 1..Len(m) \/ i = Len(m) + 1
    BY Appended
  <1> HIDE DEF a
  <1>2. OneKind(a)
    BY <1>1 DEF OneKind
  <1>3. ASSUME NEW i \in 1..Len(a), NEW id \in a[i].uses \ ids
        PROVE  \E j \in (i + 1)..Len(a) : id \in a[j].results
    <2>1. i \in 1..Len(m) /\ a[i] = m[i]
      BY <1>1, <1>3
    <2>2. CASE id \in x.results
      <3>1. Len(m) + 1 \in (i + 1)..Len(a)
        BY <1>1, <2>1
      <3>. QED
        BY <1>1, <2>2, <3>1
    <2>3. CASE id \notin x.results
      <3>1. PICK j \in (i + 1)..Len(m) : id \in m[j].results
        BY <1>3, <2>1, <2>3 DEF AnsweredBut
      <3>2. j \in (i + 1)..Len(a) /\ a[j] = m[j]
        BY <1>1, <2>1, <3>1
      <3>. QED
        BY <3>1, <3>2
    <2>. QED
      BY <2>2, <2>3
  <1>. QED
    BY <1>2, <1>3 DEF AnsweredBut, a

LEMMA DueResult ==
  ASSUME NEW m \in Seq(Message), m # <<>>, NEW r \in Request, NEW id \in ToolId, NEW ids,
         AnsweredBut(m, {id} \cup ids), OneKind(m)
  PROVE  AnsweredBut(AddResult(m, r, id), ids) /\ OneKind(AddResult(m, r, id))
  <1> DEFINE a == AddResult(m, r, id)
  <1>0. Len(m) \in Nat \ {0}
    BY ResultAdded
  <1>1. CASE m[Len(m)].results = {}
    <2> DEFINE x == ResultsOf(r, {id})
    <2>1. x \in Message /\ x.uses = {} /\ x.results = {id}
      BY MessageType DEF ResultsOf
    <2>2. a = Append(m, x)
      BY <1>1 DEF AddResult
    <2>3. ids \cup x.results = {id} \cup ids
      BY <2>1
    <2> HIDE DEF x, a
    <2>4. AnsweredBut(Append(m, x), ids) /\ OneKind(Append(m, x))
      BY <2>1, <2>3, DueAppend
    <2>. QED
      BY <2>2, <2>4 DEF a
  <1>2. CASE m[Len(m)].results # {}
    <2>1. /\ Len(a) = Len(m)
          /\ \A i \in 1..(Len(m) - 1) : a[i] = m[i]
          /\ a[Len(m)].uses = m[Len(m)].uses
          /\ a[Len(m)].results = m[Len(m)].results \cup {id}
      BY <1>2, ResultAdded
    <2>2. Len(m) \in 1..Len(m) /\ m[Len(m)].uses = {}
      BY <1>0, <1>2 DEF OneKind
    <2> HIDE DEF a
    <2>3. ASSUME NEW i \in 1..Len(m)
          PROVE  /\ a[i].uses = m[i].uses /\ m[i].results \subseteq a[i].results
                 /\ i = Len(m) \/ a[i] = m[i]
      BY <1>0, <2>1
    <2>4. OneKind(a)
      BY <2>1, <2>2, <2>3 DEF OneKind
    <2>5. ASSUME NEW i \in 1..Len(a), NEW x \in a[i].uses \ ids
          PROVE  \E j \in (i + 1)..Len(a) : x \in a[j].results
      <3>1. i \in 1..(Len(m) - 1) /\ x \in m[i].uses
        BY <1>0, <2>1, <2>2, <2>3, <2>5
      <3>2. CASE x = id
        <4>1. Len(m) \in (i + 1)..Len(a) /\ x \in a[Len(m)].results
          BY <1>0, <2>1, <3>1, <3>2
        <4>. QED
          BY <4>1
      <3>3. CASE x # id
        <4>1. PICK j \in (i + 1)..Len(m) : x \in m[j].results
          BY <2>1, <2>5, <3>1, <3>3 DEF AnsweredBut
        <4>2. j \in (i + 1)..Len(a) /\ j \in 1..Len(m)
          BY <1>0, <2>1, <3>1, <4>1
        <4>. QED
          BY <2>3, <4>1, <4>2
      <3>. QED
        BY <3>2, <3>3
    <2>. QED
      BY <2>4, <2>5 DEF AnsweredBut, a
  <1>. QED
    BY <1>1, <1>2

LEMMA DueLoopStep ==
  ASSUME AllAnswered, LoopTypeOK, NEW r \in Request, LoopWell(r), DueLoop(r), LoopStep(r)
  PROVE  DueLoop(r)'
  <1> DEFINE m == messages[r]
  <1>1. /\ m \in Seq(Message) /\ messages \in [Request -> Seq(Message)]
        /\ todo \in [Request -> Seq(ToolId)] /\ todo[r] \in Seq(ToolId)
        /\ DOMAIN phase = Request
    BY DEF LoopTypeOK
  <1>2. /\ OneKind(m)
        /\ phase[r] # "acting" => AnsweredBut(m, {})
        /\ phase[r] = "acting" => AnsweredBut(m, IdsOf(todo[r]))
    BY DEF DueLoop, TodoIds
  <1>3. ASSUME NEW n \in 0..MaxCalls, PlansTools(r, n)
        PROVE  DueLoop(r)'
    <2> DEFINE x == Assistant(r, IdSet(r, n))
    <2>1. phase[r] = "planning"
      BY <1>3 DEF PlansTools
    <2>2. x \in Message /\ x.uses = IdsOf(CallIds(r, n)) /\ x.results = {}
      BY <2>1, ReplyType
    <2>3. messages'[r] = Append(m, x) /\ todo'[r] = CallIds(r, n) /\ phase'[r] = "acting"
      BY <1>1, <1>3 DEF PlansTools
    <2> HIDE DEF x, m
    <2>4. AnsweredBut(m, x.uses \cup x.results)
      BY <1>2, <2>1 DEF AnsweredBut
    <2>5. AnsweredBut(Append(m, x), x.uses) /\ OneKind(Append(m, x))
      BY <1>1, <1>2, <2>2, <2>4, DueAppend
    <2>. QED
      BY <2>2, <2>3, <2>5 DEF DueLoop, TodoIds
  <1>4. ASSUME NEW reply \in Reply, PlansNothing(r, reply[1], reply[2])
        PROVE  DueLoop(r)'
    <2> DEFINE n == reply[2]
    <2> DEFINE x == Assistant(r, IdSet(r, n))
    <2> DEFINE y == ResultsOf(r, IdSet(r, n))
    <2>0. n \in 0..MaxCalls /\ reply = <<reply[1], n>>
          /\ reply[1] \in {"end_turn", "tool_use", "max_tokens", "other"}
      OBVIOUS
    <2>1. phase[r] = "planning" /\ phase'[r] # "acting"
      BY <1>1, <1>4 DEF PlansNothing, EndStep, EndLoop, NextStep
    <2>2. /\ x \in Message /\ x.uses = IdSet(r, n) /\ x.results = {}
          /\ y \in Message /\ y.uses = {} /\ y.results = IdSet(r, n)
          /\ n = 0 => IdSet(r, n) = {}
      BY <2>0, <2>1, ReplyType
    <2>3. AnsweredBut(m, {})
      BY <1>2, <2>1
    <2>4. CASE reply[1] = "max_tokens" /\ n > 0
      <3>1. messages'[r] = m \o <<x, y>>
        BY <1>1, <1>4, <2>4 DEF PlansNothing, CutShort
      <3>2. y.results = x.uses
        BY <2>2
      <3> DEFINE a == Append(m, x)
      <3> HIDE DEF m, x, y, n
      <3>3. AnsweredBut(m, x.uses \cup x.results)
        BY <2>3 DEF AnsweredBut
      <3>4. a \in Seq(Message) /\ AnsweredBut(a, x.uses) /\ OneKind(a)
        BY <1>1, <1>2, <2>2, <3>3, DueAppend, Appended
      <3> HIDE DEF a
      <3>5. {} \cup y.results = x.uses
        BY <3>2
      <3>6. AnsweredBut(Append(a, y), {}) /\ OneKind(Append(a, y))
        BY <2>2, <3>4, <3>5, DueAppend
      <3>7. messages'[r] = Append(a, y)
        BY <1>1, <2>2, <3>1, TwoAppends DEF a
      <3>. QED
        BY <2>1, <3>6, <3>7 DEF DueLoop
    <2>5. CASE ~(reply[1] = "max_tokens" /\ n > 0)
      <3>1. messages'[r] = Append(m, x)
        BY <1>1, <1>4, <2>5 DEF PlansNothing
      <3>2. n = 0
        BY <1>4, <2>0, <2>5 DEF PlansNothing, AllAnswered, NoStrayCalls
      <3>3. x.uses = {} /\ {} \cup x.results = {}
        BY <2>2, <3>2
      <3> HIDE DEF m, x, n
      <3>4. AnsweredBut(Append(m, x), {}) /\ OneKind(Append(m, x))
        BY <1>1, <1>2, <2>2, <2>3, <3>3, DueAppend
      <3>. QED
        BY <2>1, <3>1, <3>4 DEF DueLoop
    <2>. QED
      BY <2>4, <2>5
  <1>5. CASE PlanFails(r)
    <2>1. phase[r] = "planning" /\ phase'[r] = "ended" /\ messages'[r] = m
      BY <1>1, <1>5 DEF PlanFails, EndLoop
    <2>. QED
      BY <1>2, <2>1 DEF DueLoop
  <1>6. CASE ToolReturns(r)
    <2> DEFINE id == Head(todo[r])
    <2> DEFINE ids == IdsOf(Tail(todo[r]))
    <2> DEFINE a == AddResult(m, r, id)
    <2>1. /\ phase[r] = "acting" /\ todo[r] # <<>>
          /\ messages'[r] = a /\ todo'[r] = Tail(todo[r])
          /\ todo'[r] # <<>> => phase'[r] = "acting"
      BY <1>1, <1>6 DEF ToolReturns, LoopWell
    <2>2. /\ id \in ToolId /\ IdsOf(todo[r]) = {id} \cup ids
          /\ Tail(todo[r]) = <<>> => ids = {}
      BY <1>1, <2>1, TailIds
    <2>3. CASE m = <<>>
      <3>1. a = Append(m, ResultsOf(r, {id}))
        BY <2>3 DEF AddResult
      <3>2. Len(a) = 1 /\ a[1].uses = {}
        BY <2>3, <3>1 DEF ResultsOf
      <3> HIDE DEF a
      <3>3. OneKind(a) /\ \A x : AnsweredBut(a, x)
        BY <3>2 DEF OneKind, AnsweredBut
      <3>. QED
        BY <2>1, <3>3 DEF DueLoop
    <2>4. CASE m # <<>>
      <3>1. AnsweredBut(m, {id} \cup ids)
        BY <1>2, <2>1, <2>2
      <3> HIDE DEF m, id, ids
      <3>2. AnsweredBut(a, ids) /\ OneKind(a)
        BY <1>1, <1>2, <2>2, <2>4, <3>1, DueResult
      <3> HIDE DEF a
      <3>3. CASE todo'[r] = <<>>
        <4>1. ids = {}
          BY <2>1, <2>2, <3>3
        <4>2. phase'[r] # "acting"
          BY <1>1, <1>6, <3>3 DEF ToolReturns, EndStep, EndLoop, NextStep
        <4>. QED
          BY <2>1, <3>2, <4>1, <4>2 DEF DueLoop
      <3>4. CASE todo'[r] # <<>>
        BY <2>1, <3>2, <3>4 DEF DueLoop, TodoIds, ids
      <3>. QED
        BY <3>3, <3>4
    <2>. QED
      BY <2>3, <2>4
  <1>7. CASE Condenses(r)
    <2>1. phase[r] = "condensing" /\ phase'[r] = "planning" /\ messages'[r] \in {Condensed(r), m}
      BY <1>1, <1>7 DEF Condenses, NextStep
    <2>2. OneKind(Condensed(r)) /\ AnsweredBut(Condensed(r), {})
      <3>1. /\ Len(Condensed(r)) = 2
            /\ \A i \in 1..2 : Condensed(r)[i].uses = {} /\ Condensed(r)[i].results = {}
        BY DEF Condensed, Assistant
      <3>. QED
        BY <3>1 DEF OneKind, AnsweredBut
    <2>. QED
      BY <1>2, <2>1, <2>2 DEF DueLoop
  <1>. QED
    BY <1>3, <1>4, <1>5, <1>6, <1>7 DEF LoopStep

LEMMA DueStep ==
  ASSUME AllAnswered, IInv, [Next]_vars, AnsweredInv, NEW q \in Request
  PROVE  DueInv(q)'
  <1> SUFFICES ASSUME loc'[q] = "running" PROVE DueLoop(q)'
    BY DEF DueInv, DueLoop
  <1>0. /\ TypeOK /\ LoopTypeOK /\ thread \in Seq(Message) /\ DOMAIN phase = Request
        /\ OneKind(thread) /\ AnsweredBut(thread, {}) /\ DueInv(q)
    BY DEF IInv, TypeOK, LoopTypeOK, AnsweredInv
  <1>1. CASE StartRun(q)
    <2>1. Read(thread) = thread
      BY <1>0, AnsweredReadsFull DEF Read
    <2>2. /\ messages'[q] = IF thread = <<>> THEN <<UserText(q)>> ELSE thread
          /\ phase'[q] = "planning"
      BY <1>0, <1>1, <2>1 DEF StartRun, StartLoop, LoopTypeOK
    <2>3. OneKind(<<UserText(q)>>) /\ AnsweredBut(<<UserText(q)>>, {})
      <3>1. Len(<<UserText(q)>>) = 1 /\ <<UserText(q)>>[1].uses = {}
        BY DEF UserText
      <3>. QED
        BY <3>1 DEF OneKind, AnsweredBut
    <2>. QED
      BY <1>0, <2>2, <2>3 DEF DueLoop
  <1>2. CASE loc[q] = "running" /\ UNCHANGED thread /\ LoopStep(q)
    <2>1. LoopWell(q) /\ DueLoop(q)
      BY <1>0, <1>2, RunHoldsWell DEF DueInv, DueLoop
    <2>. QED
      BY <1>0, <1>2, <2>1, DueLoopStep
  <1>3. CASE loc[q] = "running" /\ Unmoved(q)
    BY <1>0, <1>3 DEF Unmoved, DueInv, DueLoop, TodoIds
  <1>. QED
    BY <1>1, <1>2, <1>3, RunMoves DEF AllAnswered

\* How the thread, and what is noted as covered, move.
LEMMA HeardStep ==
  ASSUME AllAnswered, IInv, [Next]_vars, AnsweredInv
  PROVE  HeardIn(thread) \cup covered \subseteq HeardIn(thread') \cup covered'
  <1>0. TypeOK /\ \A r \in Request : ContextInv(r) /\ FullInv(r)
    BY DEF IInv, AnsweredInv
  <1>1. ASSUME NEW r \in Request, Send(r) \/ Resume(r)
        PROVE  HeardIn(thread) \subseteq HeardIn(thread') /\ UNCHANGED covered
    <2>1. UNCHANGED covered /\ (Hears(r) \/ UNCHANGED thread)
      BY <1>1 DEF Send, Resume
    <2>. QED
      BY <1>0, <2>1, HearsEffect
  <1>2. ASSUME NEW r \in Request, SaveRun(r) \/ SaveFails(r)
        PROVE  HeardIn(thread) \subseteq HeardIn(thread') /\ UNCHANGED covered
    <2>1. UNCHANGED covered
      BY <1>2 DEF SaveRun, SaveFails
    <2>. QED
      BY <1>0, <1>2, <2>1, SaveEffect
  <1>3. ASSUME NEW r \in Request, Summarised(r)
        PROVE  covered' = covered \cup HeardIn(thread)
    BY <1>0, <1>3 DEF Summarised, FullInv
  <1>4. ASSUME NEW r \in Request,
               \/ Busy(r) \/ SendToClosed(r) \/ StartRun(r) \/ Close(r) \/ Compact(r)
               \/ RunStep(r) \/ LoopRaises(r) \/ Cancel(r)
               \/ Notified(r) \/ CloseNotified(r) \/ SummaryFails(r)
        PROVE  UNCHANGED <<thread, covered>>
    BY <1>4 DEF Busy, SendToClosed, StartRun, Close, Compact, RunStep, LoopRaises, Cancel,
                Notified, CloseNotified, SummaryFails, sessionVars
  <1>5. CASE UNCHANGED vars
    BY <1>5 DEF vars, sessionVars
  <1>6. ASSUME Next
        PROVE  HeardIn(thread) \cup covered \subseteq HeardIn(thread') \cup covered'
    <2>1. PICK r \in Request :
            \/ Busy(r) \/ SendToClosed(r) \/ Send(r) \/ Close(r) \/ Compact(r)
            \/ HandlerStep(r) \/ LoopRaises(r) \/ SaveFails(r) \/ Cancel(r)
      BY <1>6 DEF Next
    <2>2. \/ HeardIn(thread) \subseteq HeardIn(thread') /\ UNCHANGED covered
          \/ covered' = covered \cup HeardIn(thread)
          \/ UNCHANGED <<thread, covered>>
      BY <2>1, <1>1, <1>2, <1>3, <1>4, Zenon DEF HandlerStep
    <2>. QED
      BY <2>2
  <1>. QED
    BY <1>5, <1>6

LEMMA SentStep ==
  ASSUME IInv, [Next]_vars, NEW q \in Request, answered'[q] = "sent", answered[q] # "sent"
  PROVE  q \in HeardIn(thread) /\ UNCHANGED thread
  <1>0. /\ TypeOK /\ HandlerInv(q)
        /\ answered \in [Request -> {"none", "busy", "refused", "error", "sent", "closed", "summary"}]
    BY DEF IInv, TypeOK
  <1>1. ASSUME NEW r \in Request,
               \/ Busy(r) \/ SendToClosed(r) \/ Send(r) \/ StartRun(r) \/ Close(r) \/ Compact(r)
               \/ Resume(r) \/ RunStep(r) \/ LoopRaises(r) \/ SaveFails(r) \/ SaveRun(r) \/ Cancel(r)
               \/ Summarised(r) \/ CloseNotified(r) \/ SummaryFails(r)
        PROVE  FALSE
    BY <1>0, <1>1 DEF Busy, SendToClosed, Send, StartRun, Close, Compact, Resume, RunStep,
                      LoopRaises, SaveFails, SaveRun, Cancel, Summarised, CloseNotified,
                      SummaryFails, Return, Answer, sessionVars
  <1>2. ASSUME NEW r \in Request, Notified(r)
        PROVE  q \in HeardIn(thread) /\ UNCHANGED thread
    <2>1. r = q
      BY <1>0, <1>2 DEF Notified, Return, Answer
    <2>. QED
      BY <1>0, <1>2, <2>1 DEF Notified, HandlerInv
  <1>3. CASE UNCHANGED vars
    BY <1>3 DEF vars, sessionVars
  <1>. QED
    BY <1>1, <1>2, <1>3 DEF Next, HandlerStep

LEMMA SummaryMoves ==
  ASSUME IInv, [Next]_vars, NEW q \in Request, loc'[q] = "summarising"
  PROVE  \/ Compact(q)
         \/ loc[q] = "summarising" /\ messages'[q] = messages[q] /\ UNCHANGED thread
  <1>0. /\ TypeOK /\ LoopTypeOK
        /\ loc \in [Request -> {"idle", "resuming", "heard", "running", "notifying",
                                "closing", "summarising", "done"}]
    BY DEF IInv, TypeOK
  <1>1. ASSUME NEW r \in Request, Busy(r) \/ SendToClosed(r)
        PROVE  loc[q] = "summarising" /\ messages'[q] = messages[q] /\ UNCHANGED thread
    BY <1>0, <1>1 DEF Busy, SendToClosed, Answer, Goto, loopVars
  <1>2. ASSUME NEW r \in Request, Send(r) \/ Close(r) \/ Compact(r), r # q
        PROVE  FALSE
    <2>1. loc'[q] = loc[q] /\ Free
      BY <1>0, <1>2 DEF Send, Close, Compact, Goto, Hears
    <2>. QED
      BY <2>1, NobodyHolds DEF Holding
  <1>3. ASSUME NEW r \in Request,
               HandlerStep(r) \/ LoopRaises(r) \/ SaveFails(r) \/ Cancel(r), r # q
        PROVE  FALSE
    <2>1. loc[r] \in Holding /\ loc'[q] = loc[q]
      BY <1>0, <1>3 DEF HandlerStep, Resume, Hears, StartRun, RunStep, SaveRun, Notified,
                        CloseNotified, Summarised, SummaryFails, LoopRaises, SaveFails, Cancel,
                        Return, Answer, Goto, Holding, sessionVars
    <2>. QED
      BY <1>3, <2>1, Exclusive DEF Holding
  <1>4. ASSUME Send(q) \/ Close(q) \/ HandlerStep(q) \/ LoopRaises(q) \/ SaveFails(q) \/ Cancel(q)
        PROVE  FALSE
    BY <1>0, <1>4 DEF Send, Close, HandlerStep, Resume, Hears, StartRun, RunStep, SaveRun, Notified,
                      CloseNotified, Summarised, SummaryFails, LoopRaises, SaveFails, Cancel,
                      Return, Answer, Goto, sessionVars
  <1>5. CASE UNCHANGED vars
    BY <1>5 DEF vars, loopVars, sessionVars
  <1>6. ASSUME Next
        PROVE  \/ Compact(q)
               \/ loc[q] = "summarising" /\ messages'[q] = messages[q] /\ UNCHANGED thread
    <2>1. PICK r \in Request :
            \/ Busy(r) \/ SendToClosed(r) \/ Send(r) \/ Close(r) \/ Compact(r)
            \/ HandlerStep(r) \/ LoopRaises(r) \/ SaveFails(r) \/ Cancel(r)
      BY <1>6 DEF Next
    <2>2. CASE r = q
      BY <1>1, <1>4, <2>1, <2>2, Zenon
    <2>3. CASE r # q
      BY <1>1, <1>2, <1>3, <2>1, <2>3, Zenon
    <2>. QED
      BY <2>2, <2>3
  <1>. QED
    BY <1>5, <1>6

LEMMA FullStep ==
  ASSUME AllAnswered, IInv, IInv', [Next]_vars, AnsweredInv, NEW q \in Request
  PROVE  FullInv(q)'
  <1>0. /\ TypeOK /\ LoopTypeOK /\ thread \in Seq(Message) /\ AnsweredBut(thread, {}) /\ FullInv(q)
        /\ HandlerInv(q)' /\ (q # Nobody)
    BY DEF IInv, TypeOK, AnsweredInv
  <1>1. ASSUME loc'[q] = "heard"
        PROVE  thread' # <<>> /\ thread'[Len(thread')] = UserText(q)
    <2>1. CASE UNCHANGED thread /\ loc[q] = "heard"
      BY <1>0, <2>1 DEF FullInv
    <2>2. ASSUME NEW r \in Request, Hears(r)
          PROVE  thread' # <<>> /\ thread'[Len(thread')] = UserText(q)
      <3>1. loc'[r] = "heard"
        BY <2>2 DEF Hears, Goto, IInv, TypeOK
      <3>2. HandlerInv(r)'
        BY DEF IInv
      <3>3. lock' = r /\ lock' = q
        BY <1>0, <1>1, <3>1, <3>2 DEF HandlerInv, Holding
      <3>4. thread' = Append(thread, UserText(q)) /\ UserText(q) \in Message
        BY <2>2, <3>3, MessageType DEF Hears
      <3>5. /\ thread' \in Seq(Message) /\ Len(thread') = Len(thread) + 1 /\ Len(thread) \in Nat
            /\ thread'[Len(thread) + 1] = UserText(q)
        BY <1>0, <3>4, Appended
      <3>6. Len(thread') # 0
        BY <3>5
      <3>. QED
        BY <3>5, <3>6
    <2>3. ASSUME NEW r \in Request, loc[r] \in {"running", "summarising"}, r # q, loc'[q] = loc[q]
          PROVE  FALSE
      BY <1>1, <2>3, Exclusive DEF Holding
    <2>4. ASSUME NEW r \in Request, loc[r] \in {"running", "summarising"},
                 loc'[r] \notin {"heard", "running"}, \A p \in Request \ {r} : loc'[p] = loc[p]
          PROVE  FALSE
      BY <1>1, <2>3, <2>4
    <2>. QED
      BY <1>1, <2>1, <2>2, <2>4, ThreadMoves DEF Saves
  <1>2. ASSUME loc'[q] = "summarising"
        PROVE  messages'[q] = thread'
    <2>1. CASE Compact(q)
      <3>1. Read(thread) = thread
        BY <1>0, AnsweredReadsFull DEF Read
      <3>. QED
        BY <1>0, <2>1, <3>1 DEF Compact, LoopTypeOK
    <2>2. CASE loc[q] = "summarising" /\ messages'[q] = messages[q] /\ UNCHANGED thread
      BY <1>0, <2>2 DEF FullInv
    <2>. QED
      BY <1>2, <2>1, <2>2, SummaryMoves
  <1>. QED
    BY <1>1, <1>2 DEF FullInv

LEMMA SeesStep ==
  ASSUME AllAnswered, IInv, [Next]_vars, AnsweredInv
  PROVE  RunSeesMessage'
  <1> SUFFICES ASSUME NEW q \in Request,
                      loc'[q] = "running", phase'[q] = "planning", step'[q] = 1
               PROVE  messages'[q] # <<>> /\ messages'[q][Len(messages'[q])] = UserText(q)
    BY DEF RunSeesMessage
  <1>0. /\ TypeOK /\ LoopTypeOK /\ thread \in Seq(Message) /\ AnsweredBut(thread, {}) /\ FullInv(q)
        /\ RunSeesMessage /\ DOMAIN phase = Request /\ DOMAIN step = Request /\ step[q] \in 0..MaxSteps
    BY DEF IInv, TypeOK, LoopTypeOK, AnsweredInv
  <1>1. CASE StartRun(q)
    <2>1. Read(thread) = thread
      BY <1>0, AnsweredReadsFull DEF Read
    <2>2. thread # <<>> /\ thread[Len(thread)] = UserText(q)
      BY <1>0, <1>1 DEF StartRun, FullInv
    <2>3. messages'[q] = thread
      BY <1>0, <1>1, <2>1, <2>2 DEF StartRun, StartLoop, LoopTypeOK
    <2>. QED
      BY <2>2, <2>3
  <1>2. CASE loc[q] = "running" /\ LoopStep(q)
    <2>1. LoopWell(q)
      BY <1>2, RunHoldsWell
    <2>2. phase'[q] = "planning" => step'[q] = step[q] + 1 /\ step[q] >= 1
      BY <1>0, <1>2, <2>1 DEF LoopStep, PlansTools, PlansNothing, PlanFails, ToolReturns, Condenses,
                              EndStep, EndLoop, NextStep, LoopWell
    <2>. QED
      BY <1>0, <2>2
  <1>3. CASE loc[q] = "running" /\ Unmoved(q)
    BY <1>0, <1>3 DEF Unmoved, RunSeesMessage
  <1>. QED
    BY <1>1, <1>2, <1>3, RunMoves DEF AllAnswered

LEMMA ThreadAnsweredStep ==
  ASSUME AllAnswered, IInv, [Next]_vars, AnsweredInv
  PROVE  OneKind(thread') /\ AnsweredBut(thread', {})
  <1>0. /\ TypeOK /\ LoopTypeOK /\ thread \in Seq(Message) /\ OneKind(thread) /\ AnsweredBut(thread, {})
        /\ \A r \in Request : DueInv(r)
    BY DEF IInv, TypeOK, AnsweredInv
  <1>1. ASSUME NEW r \in Request, Hears(r)
        PROVE  OneKind(thread') /\ AnsweredBut(thread', {})
    <2> DEFINE x == UserText(r)
    <2>1. x \in Message /\ x.uses = {} /\ x.results = {} /\ thread' = Append(thread, x)
      BY <1>1, MessageType DEF Hears, UserText
    <2> HIDE DEF x
    <2>2. {} \cup x.results = {}
      BY <2>1
    <2>. QED
      BY <1>0, <2>1, <2>2, DueAppend
  <1>2. ASSUME NEW r \in Request, Saves(r)
        PROVE  OneKind(thread') /\ AnsweredBut(thread', {})
    <2> DEFINE m == messages[r]
    <2> DEFINE p == prefill[r]
    <2> DEFINE n == NewMessages(r)
    <2>1. thread' = thread \o n
      BY <1>0, <1>2, NewMessagesType DEF Saves, AllAnswered
    <2>2. /\ m \in Seq(Message) /\ p \in Nat /\ Len(m) \in Nat /\ n \in Seq(Message)
          /\ OneKind(m) /\ AnsweredBut(m, {}) /\ n = SubSeq(m, p + 1, Len(m))
      BY <1>0, <1>2, NewMessagesType, LenProperties DEF Saves, DueInv, LoopTypeOK, NewMessages
    <2> HIDE DEF m, p, n
    <2>3. OneKind(n) /\ AnsweredBut(n, {})
      <3>1. CASE p <= Len(m)
        BY <2>2, <3>1, AnsweredCut
      <3>2. CASE p > Len(m)
        <4>1. Len(n) = 0
          <5>1. \A i \in (p + 1)..Len(m) : m[i] \in Message
            BY <2>2, <3>2
          <5>. QED
            BY <2>2, <3>2, <5>1, SubSeqProperties
        <4>. QED
          BY <4>1 DEF OneKind, AnsweredBut
      <3>. QED
        BY <2>2, <3>1, <3>2
    <2>. QED
      BY <1>0, <2>1, <2>2, <2>3, AnsweredConcat
  <1>3. ASSUME NEW r, thread' = Condensed(r)
        PROVE  OneKind(thread') /\ AnsweredBut(thread', {})
    <2>1. /\ Len(Condensed(r)) = 2
          /\ \A i \in 1..2 : Condensed(r)[i].uses = {} /\ Condensed(r)[i].results = {}
      BY DEF Condensed, Assistant
    <2>. QED
      BY <1>3, <2>1 DEF OneKind, AnsweredBut
  <1>4. CASE UNCHANGED thread
    BY <1>0, <1>4
  <1>. QED
    BY <1>1, <1>2, <1>3, <1>4, ThreadMoves

LEMMA AnsweredStep ==
  ASSUME AllAnswered, IInv, [Next]_vars, AnsweredInv
  PROVE  AnsweredInv'
  <1>1. IInv'
    BY StepInv
  <1>2. \A r \in Request : DueInv(r)' /\ FullInv(r)'
    BY <1>1, DueStep, FullStep
  <1>3. NothingLost'
    <2> SUFFICES ASSUME NEW q \in Request,
                        loc'[q] \in {"heard", "running", "notifying"} \/ answered'[q] = "sent"
                 PROVE  q \in HeardIn(thread') \cup covered'
      BY DEF NothingLost
    <2>1. CASE loc'[q] \in {"heard", "running", "notifying"}
      BY <1>1, <2>1 DEF IInv, HandlerInv
    <2>2. CASE answered'[q] = "sent"
      <3>1. q \in HeardIn(thread) \cup covered
        BY <2>2, SentStep DEF AnsweredInv, NothingLost
      <3>. QED
        BY <3>1, HeardStep
    <2>. QED
      BY <2>1, <2>2
  <1>. QED
    BY <1>2, <1>3, SeesStep, ThreadAnsweredStep DEF AnsweredInv

LEMMA AnsweredInit == Init => AnsweredInv
  <1> SUFFICES ASSUME Init PROVE AnsweredInv
    OBVIOUS
  <1>1. OneKind(thread) /\ AnsweredBut(thread, {})
    BY DEF Init, OneKind, AnsweredBut
  <1>2. \A r \in Request : DueInv(r) /\ FullInv(r)
    BY DEF Init, DueInv, FullInv
  <1>3. RunSeesMessage /\ NothingLost
    BY DEF Init, RunSeesMessage, NothingLost
  <1>. QED
    BY <1>1, <1>2, <1>3 DEF AnsweredInv

\* When every reply's calls are executed or answered and no run is left in the
\* middle of a step, the message that a run is to answer is the last thing the
\* LLM is first sent: nothing before it makes read_messages drop it.
THEOREM RunsSeeTheirMessage ==
  ASSUME AllAnswered PROVE Spec => []RunSeesMessage
  <1>1. AnsweredInv /\ IInv /\ [Next]_vars => AnsweredInv'
    BY AnsweredStep
  <1>2. AnsweredInv => RunSeesMessage
    BY DEF AnsweredInv
  <1>. QED
    BY <1>1, <1>2, AnsweredInit, Invariance, PTL DEF Spec

\* Under the same conditions a message whose sender was told it was run is
\* in the thread, or was part of what a summary was made of.
THEOREM NothingIsLost ==
  ASSUME AllAnswered PROVE Spec => []NothingLost
  <1>1. AnsweredInv /\ IInv /\ [Next]_vars => AnsweredInv'
    BY AnsweredStep
  <1>2. AnsweredInv => NothingLost
    BY DEF AnsweredInv
  <1>. QED
    BY <1>1, <1>2, AnsweredInit, Invariance, PTL DEF Spec
=============================================================================
