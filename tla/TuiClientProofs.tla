-------------------------- MODULE TuiClientProofs ---------------------------
(***************************************************************************)
(* For any number of calls and connections and any room on the way:        *)
(* InputMatchesRun from the inductive invariant IInv of TuiClient, the     *)
(* types, RequestsShown from ShownInv, and NothingLeftOpen from LeftInv    *)
(* on top of the other two.                                                *)
(***************************************************************************)
EXTENDS TuiClient, TLAPS

-----------------------------------------------------------------------------
(* What is on its way.                                                      *)

\* Without its head, a sequence of messages has no more of anything.
LEMMA FewerMessages ==
  ASSUME NEW s \in Seq(Messages), s # <<>>
  PROVE  /\ Tail(s) \in Seq(Messages) /\ Head(s) \in Messages
         /\ NoForeign(s) => NoForeign(Tail(s)) /\ ~Foreign(Head(s))
         /\ NoEnd(s) => NoEnd(Tail(s)) /\ ~Ends(Head(s))
         /\ OneEnd(s) => OneEnd(Tail(s))
         /\ OneEnd(s) /\ Ends(Head(s)) => NoEnd(Tail(s))
  <1>1. /\ Tail(s) \in Seq(Messages) /\ Head(s) \in Messages
        /\ 1 \in DOMAIN s /\ Head(s) = s[1]
        /\ \A i \in DOMAIN Tail(s) : i \in Nat /\ i + 1 \in DOMAIN s /\ Tail(s)[i] = s[i + 1] /\ i + 1 # 1
    OBVIOUS
  <1>. QED
    BY <1>1 DEF NoForeign, NoEnd, OneEnd

LEMMA FewerCommands ==
  ASSUME NEW s \in Seq(Commands), s # <<>>
  PROVE  /\ Tail(s) \in Seq(Commands) /\ Head(s) \in Commands
         /\ NoSend(s) => NoSend(Tail(s)) /\ Head(s).op # "send"
         /\ OneSend(s) => OneSend(Tail(s))
         /\ OneSend(s) /\ Head(s).op = "send" => NoSend(Tail(s))
  <1>1. /\ Tail(s) \in Seq(Commands) /\ Head(s) \in Commands
        /\ 1 \in DOMAIN s /\ Head(s) = s[1]
        /\ \A i \in DOMAIN Tail(s) : i \in Nat /\ i + 1 \in DOMAIN s /\ Tail(s)[i] = s[i + 1] /\ i + 1 # 1
    OBVIOUS
  <1>. QED
    BY <1>1 DEF NoSend, OneSend

\* A step publishes one message or two.
LEMMA MoreMessages ==
  ASSUME NEW s \in Seq(Messages), NEW m \in Messages
  PROVE  /\ s \o <<m>> \in Seq(Messages)
         /\ NoForeign(s) /\ ~Foreign(m) => NoForeign(s \o <<m>>)
         /\ NoEnd(s) /\ ~Ends(m) => NoEnd(s \o <<m>>)
         /\ OneEnd(s) /\ ~Ends(m) => OneEnd(s \o <<m>>)
         /\ NoEnd(s) => OneEnd(s \o <<m>>)
  <1>1. /\ s \o <<m>> \in Seq(Messages)
        /\ \A i \in DOMAIN (s \o <<m>>) :
             \/ i \in DOMAIN s /\ (s \o <<m>>)[i] = s[i]
             \/ i = Len(s) + 1 /\ (s \o <<m>>)[i] = m
    OBVIOUS
  <1>. QED
    BY <1>1 DEF NoForeign, NoEnd, OneEnd

LEMMA ManyMessages ==
  ASSUME NEW s \in Seq(Messages), NEW t \in Seq(Messages), NoForeign(t), NoEnd(t)
  PROVE  /\ s \o t \in Seq(Messages)
         /\ NoForeign(s) => NoForeign(s \o t)
         /\ NoEnd(s) => NoEnd(s \o t)
         /\ OneEnd(s) => OneEnd(s \o t)
  <1>1. /\ s \o t \in Seq(Messages)
        /\ \A i \in DOMAIN (s \o t) :
             \/ i \in DOMAIN s /\ (s \o t)[i] = s[i]
             \/ i - Len(s) \in DOMAIN t /\ (s \o t)[i] = t[i - Len(s)]
    OBVIOUS
  <1>. QED
    BY <1>1 DEF NoForeign, NoEnd, OneEnd

LEMMA MoreCommands ==
  ASSUME NEW s \in Seq(Commands), NEW c \in Commands
  PROVE  /\ Append(s, c) \in Seq(Commands)
         /\ NoSend(s) /\ c.op # "send" => NoSend(Append(s, c))
         /\ OneSend(s) /\ c.op # "send" => OneSend(Append(s, c))
         /\ NoSend(s) => OneSend(Append(s, c))
  <1>1. /\ Append(s, c) \in Seq(Commands)
        /\ \A i \in DOMAIN Append(s, c) :
             \/ i \in DOMAIN s /\ Append(s, c)[i] = s[i]
             \/ i = Len(s) + 1 /\ Append(s, c)[i] = c
    OBVIOUS
  <1>. QED
    BY <1>1 DEF NoSend, OneSend

LEMMA Nothing ==
  /\ <<>> \in Seq(Messages) /\ <<>> \in Seq(Commands)
  /\ NoForeign(<<>>) /\ NoEnd(<<>>) /\ OneEnd(<<>>) /\ NoSend(<<>>) /\ OneSend(<<>>)
  BY DEF NoForeign, NoEnd, OneEnd, NoSend, OneSend

LEMMA MessageIsOne ==
  /\ \A t \in SessionMessages \cup Answers : Message(t, 0) \in Messages
  /\ \A t \in SessionMessages \cup ToolMessages \cup PermissionMessages \cup Answers :
        \A c \in 0..MaxCalls : Message(t, c) \in Messages
  /\ Calls \subseteq 0..MaxCalls /\ Free \notin Calls /\ Gone # Free
  BY TuiAssumption DEF Message, Messages, Calls, Free, Gone

THEOREM InitInv == Init => IInv
  <1> SUFFICES ASSUME Init PROVE IInv
    OBVIOUS
  <1>1. Typed
    BY Nothing DEF Init, Typed
  <1>2. OneMessage /\ PromptOpen
    BY Nothing DEF Init, OneMessage, PromptOpen
  <1>. QED
    BY <1>1, <1>2 DEF IInv

-----------------------------------------------------------------------------
(* The steps.                                                               *)

\* A step after which there is no more on its way than before.
LEMMA NoNewMessage ==
  ASSUME IInv, busy' = busy, worker' \in {worker, "none", "compact"},
         spoiled' = {} => spoiled = {},
         run' = "running" => run = "running",
         NoForeign(down) => NoForeign(down'), NoEnd(down) => NoEnd(down'),
         OneEnd(down) => OneEnd(down'),
         NoSend(up) => NoSend(up'), OneSend(up) => OneSend(up')
  PROVE  spoiled' = {} => OneMessage'
  BY DEF IInv, OneMessage

\* A step that does not touch the prompt.
LEMMA PromptStays ==
  ASSUME IInv, busy' = busy, prompt' = prompt,
         spoiled' = {} => spoiled = {},
         sock' = "serving" => sock = "serving",
         blocks' = {} => blocks = {},
         pump' = Free => pump = Free
  PROVE  spoiled' = {} => PromptOpen'
  BY DEF IInv, PromptOpen

LEMMA FinallyStep ==
  ASSUME IInv, NEW next \in {"dead", "pausing"}, Finally(next),
         UNCHANGED <<busy, worker, blocks, run, spoiled>>
  PROVE  IInv'
  <1>1. Typed'
    BY Nothing DEF IInv, Typed, Finally
  <1>2. spoiled' = {} => OneMessage'
    BY Nothing, NoNewMessage DEF Finally
  <1>3. PromptOpen'
    BY DEF PromptOpen, Finally
  <1>. QED
    BY <1>1, <1>2, <1>3 DEF IInv

LEMMA SocketLoopStep ==
  ASSUME IInv, SocketLoop
  PROVE  IInv'
  <1> USE DEF client, daemon
  <1>1. CASE Connect
    <2>1. <<[op |-> "subscribe", call |-> 0]>> \in Seq(Commands)
          /\ NoSend(<<[op |-> "subscribe", call |-> 0]>>)
          /\ OneSend(<<[op |-> "subscribe", call |-> 0]>>)
      BY MessageIsOne, TuiAssumption DEF Commands, NoSend, OneSend
    <2>2. Typed'
      BY <1>1, <2>1, Nothing DEF IInv, Typed, Connect
    <2>3. spoiled' = {} => OneMessage'
      BY <1>1, <2>1, Nothing, NoNewMessage DEF Connect
    <2>4. PromptOpen'
      BY <1>1 DEF PromptOpen, Connect
    <2>. QED
      BY <2>2, <2>3, <2>4 DEF IInv
  <1>2. CASE CreateSession
    <2>1. CASE reading
      <3>1. [op |-> "create", call |-> 0] \in Commands
        BY TuiAssumption DEF Commands
      <3>2. up' = Append(up, [op |-> "create", call |-> 0])
        BY <1>2, <2>1 DEF CreateSession, Command
      <3>3. /\ up' \in Seq(Commands)
            /\ NoSend(up) => NoSend(up')
            /\ OneSend(up) => OneSend(up')
        BY <3>1, <3>2, MoreCommands DEF IInv, Typed
      <3>4. Typed'
        BY <1>2, <2>1, <3>3 DEF IInv, Typed, CreateSession
      <3>5. spoiled' = {} => OneMessage'
        BY <1>2, <2>1, <3>3, NoNewMessage DEF CreateSession
      <3>6. PromptOpen'
        BY <1>2, <2>1 DEF PromptOpen, CreateSession
      <3>. QED
        BY <3>4, <3>5, <3>6 DEF IInv
    <2>2. CASE ~reading
      BY <1>2, <2>2, FinallyStep DEF CreateSession
    <2>. QED
      BY <2>1, <2>2
  <1>3. CASE Serve
    <2>1. Typed'
      BY <1>3 DEF IInv, Typed, Serve
    <2>2. spoiled' = {} => OneMessage'
      BY <1>3, NoNewMessage DEF Serve
    <2>3. PromptOpen'
      BY <1>3 DEF PromptOpen, Serve
    <2>. QED
      BY <2>1, <2>2, <2>3 DEF IInv
  <1>4. CASE Disconnected
    BY <1>4, FinallyStep DEF Disconnected
  <1>5. CASE Retry
    <2>1. Typed'
      BY <1>5 DEF IInv, Typed, Retry
    <2>2. spoiled' = {} => OneMessage'
      BY <1>5, NoNewMessage DEF Retry
    <2>3. PromptOpen'
      BY <1>5 DEF PromptOpen, Retry
    <2>. QED
      BY <2>1, <2>2, <2>3 DEF IInv
  <1>6. CASE ReadEnds
    <2>1. CASE sock \in {"subscribing", "creating"}
      BY <1>6, <2>1, FinallyStep DEF ReadEnds
    <2>2. CASE sock \notin {"subscribing", "creating"}
      <3>1. Typed'
        BY <1>6, <2>2, Nothing DEF IInv, Typed, ReadEnds
      <3>2. spoiled' = {} => OneMessage'
        BY <1>6, <2>2, Nothing, NoNewMessage DEF ReadEnds
      <3>3. spoiled' = {} => PromptOpen'
        BY <1>6, <2>2, MessageIsOne, PromptStays DEF ReadEnds
      <3>. QED
        BY <3>1, <3>2, <3>3 DEF IInv
    <2>. QED
      BY <2>1, <2>2
  <1>. QED
    BY <1>1, <1>2, <1>3, <1>4, <1>5, <1>6 DEF SocketLoop

\* The first message is gone; nothing else came or went.
LEMMA Dispatched ==
  ASSUME IInv, NEW m, Dispatch(m)
  PROVE  /\ m \in Messages /\ down' \in Seq(Messages)
         /\ NoForeign(down) => NoForeign(down') /\ ~Foreign(m)
         /\ NoEnd(down) => NoEnd(down') /\ ~Ends(m)
         /\ OneEnd(down) => OneEnd(down')
         /\ OneEnd(down) /\ Ends(m) => NoEnd(down')
         /\ UNCHANGED <<worker, run, spoiled>>
  <1>1. /\ down \in Seq(Messages) /\ down # <<>> /\ m = Head(down) /\ down' = Tail(down)
        /\ UNCHANGED <<worker, run, spoiled>>
    BY DEF Dispatch, IInv, Typed, daemon
  <1>. QED
    BY <1>1, FewerMessages

\* The client is only made ready by the end of its message, or by another session.
LEMMA OnReadyStep ==
  ASSUME IInv, OnReady
  PROVE  IInv'
  <1>1. PICK t \in {"waiting", "otherWaiting", "refused"} : Dispatch(Message(t, 0))
    BY DEF OnReady
  <1>2. /\ busy' = FALSE /\ prompt' = TRUE /\ up' = up /\ blocks' = blocks
    BY DEF OnReady
  <1>3. Typed'
    BY <1>1, <1>2, Dispatched DEF IInv, Typed
  <1>4. PromptOpen'
    BY <1>2 DEF PromptOpen
  <1>5. ASSUME spoiled' = {} PROVE OneMessage'
    <2>1. spoiled = {} /\ OneMessage
      BY <1>1, <1>5, Dispatched DEF IInv
    <2>2. ~Foreign(Message(t, 0))
      BY <1>1, <2>1, Dispatched DEF OneMessage
    <2>3. Ends(Message(t, 0))
      BY <2>2 DEF Foreign, Ends, Message
    <2>4. ~NoEnd(down) /\ NoEnd(down') /\ OneEnd(down') /\ NoForeign(down')
      BY <1>1, <2>1, <2>3, Dispatched DEF OneMessage
    <2>5. worker # "send" /\ NoSend(up) /\ run # "running"
      BY <2>1, <2>4 DEF OneMessage
    <2>. QED
      BY <1>1, <1>2, <2>1, <2>4, <2>5, Dispatched DEF OneMessage
  <1>. QED
    BY <1>3, <1>4, <1>5 DEF IInv

\* An event that leaves the client as busy as it was.
LEMMA EventStep ==
  ASSUME IInv, NEW m, Dispatch(m), busy' = busy, up' = up
  PROVE  /\ spoiled' = {} => spoiled = {} /\ OneMessage'
         /\ prompt' \in BOOLEAN /\ blocks' \subseteq Calls => Typed'
  <1>1. Typed /\ worker' = worker /\ down' \in Seq(Messages)
    BY Dispatched DEF IInv
  <1>2. spoiled' = {} => OneMessage'
    BY Dispatched, NoNewMessage
  <1>. QED
    BY <1>1, <1>2, Dispatched DEF Typed

LEMMA ReaderStep ==
  ASSUME IInv, Reader
  PROVE  IInv'
  <1>0. blocks \subseteq Calls /\ prompt \in BOOLEAN
    BY DEF IInv, Typed
  <1>1. CASE OnHandshake
    <2>1. PICK m \in {Message("subscribed", 0), Message("created", 0)} :
              Dispatch(m) /\ sock' = m.type /\ UNCHANGED <<busy, prompt, blocks, pump, up>>
      BY <1>1 DEF OnHandshake
    <2>2. Typed' /\ (spoiled' = {} => OneMessage')
      BY <2>1, <1>0, EventStep
    <2>3. sock' # "serving"
      BY <2>1 DEF Message
    <2>. QED
      BY <2>2, <2>3 DEF IInv, PromptOpen
  <1>2. CASE OnHandshakeError
    BY <1>2, FinallyStep DEF OnHandshakeError, daemon
  <1>3. CASE OnClosed
    <2>1. Dispatch(Message("otherClosed", 0)) /\ Foreign(Message("otherClosed", 0))
      BY <1>3 DEF OnClosed, Foreign, Message
    <2>2. spoiled' # {}
      BY <2>1, Dispatched DEF IInv, OneMessage
    <2>3. Typed'
      BY <1>3, <2>1, Dispatched DEF IInv, Typed, OnClosed
    <2>. QED
      BY <2>2, <2>3 DEF IInv
  <1>4. CASE OnCallStarted \/ OnCallFinished
    <2>1. /\ \E m : Dispatch(m)
          /\ UNCHANGED <<sock, busy, prompt, blocks, pump, up>>
      BY <1>4 DEF OnCallStarted, OnCallFinished
    <2>2. Typed' /\ (spoiled' = {} => spoiled = {} /\ OneMessage')
      BY <2>1, <1>0, EventStep
    <2>3. spoiled' = {} => PromptOpen'
      BY <2>1, <2>2, PromptStays
    <2>. QED
      BY <2>2, <2>3 DEF IInv
  <1>5. CASE OnPermissionRequested
    <2>1. PICK c \in Calls : /\ Dispatch(Message("requested", c))
                             /\ blocks' = blocks \cup {c} /\ prompt' = FALSE
                             /\ UNCHANGED <<busy, up>>
      BY <1>5 DEF OnPermissionRequested, AddPermissionBlock
    <2>2. Typed' /\ (spoiled' = {} => OneMessage')
      BY <2>1, <1>0, EventStep
    <2>. QED
      BY <2>1, <2>2 DEF IInv, PromptOpen
  <1>6. CASE OnPermissionDenied
    <2>1. PICK c \in Calls : /\ Dispatch(Message("denied", c))
                             /\ blocks' = blocks \ {c}
                             /\ IF c \in blocks THEN prompt' = (blocks' = {} \/ prompt)
                                ELSE prompt' = prompt
                             /\ UNCHANGED <<sock, busy, up, pump>>
      BY <1>6 DEF OnPermissionDenied, Resolve
    <2>2. prompt' \in BOOLEAN
      BY <2>1, <1>0, Zenon
    <2>3. Typed' /\ (spoiled' = {} => spoiled = {} /\ OneMessage')
      BY <2>1, <2>2, <1>0, EventStep
    <2>4. CASE c \in blocks
      <3>1. blocks' = {} => prompt'
        BY <2>1, <2>4, Zenon
      <3>. QED
        BY <3>1, <2>3 DEF IInv, PromptOpen
    <2>5. CASE c \notin blocks
      <3>1. spoiled' = {} => PromptOpen'
        BY <2>1, <2>3, <2>5, PromptStays
      <3>. QED
        BY <3>1, <2>3 DEF IInv
    <2>. QED
      BY <2>4, <2>5
  <1>7. CASE OnResponded
    <2>1. /\ Dispatch(Message("responded", pump))
          /\ prompt' = (blocks = {} \/ prompt)
          /\ UNCHANGED <<busy, up, blocks>>
      BY <1>7 DEF OnResponded
    <2>2. prompt' \in BOOLEAN /\ (blocks' = {} => prompt')
      BY <2>1, <1>0, Zenon
    <2>3. Typed' /\ (spoiled' = {} => OneMessage')
      BY <2>1, <2>2, <1>0, EventStep
    <2>. QED
      BY <2>2, <2>3 DEF IInv, PromptOpen
  <1>. QED
    BY <1>1, <1>2, <1>3, <1>4, <1>5, <1>6, <1>7, OnReadyStep DEF Reader

\* A message is submitted only while there is none.
LEMMA SubmittedStep ==
  ASSUME IInv, Submitted
  PROVE  IInv'
  <1>1. /\ ~busy /\ worker = "none" /\ up = <<>>
        /\ UNCHANGED <<sock, blocks, pump, up, down, run, spoiled>>
    BY DEF Submitted, daemon
  <1>2. CASE busy' = TRUE /\ prompt' = FALSE /\ worker' = "send"
    <2>1. Typed'
      BY <1>1, <1>2 DEF IInv, Typed
    <2>2. spoiled' = {} => OneMessage'
      BY <1>1, <1>2 DEF IInv, OneMessage
    <2>. QED
      BY <1>2, <2>1, <2>2 DEF IInv, PromptOpen
  <1>3. CASE worker' = "compact" /\ UNCHANGED <<busy, prompt>>
    <2>1. Typed'
      BY <1>1, <1>3 DEF IInv, Typed
    <2>2. spoiled' = {} => OneMessage'
      BY <1>1, <1>3, NoNewMessage
    <2>3. spoiled' = {} => PromptOpen'
      BY <1>1, <1>3, PromptStays
    <2>. QED
      BY <2>1, <2>2, <2>3 DEF IInv
  <1>. QED
    BY <1>2, <1>3 DEF Submitted

LEMMA UserStep ==
  ASSUME IInv, User
  PROVE  IInv'
  <1>1. CASE Pick \/ PickUnfocused
    <2>1. UNCHANGED <<sock, busy, prompt, worker, blocks, pump, up, down, run, spoiled>>
      BY <1>1 DEF Pick, PickUnfocused, daemon
    <2>2. Typed'
      BY <2>1 DEF IInv, Typed
    <2>3. spoiled' = {} => OneMessage'
      BY <2>1, NoNewMessage
    <2>4. spoiled' = {} => PromptOpen'
      BY <2>1, PromptStays
    <2>. QED
      BY <2>2, <2>3, <2>4 DEF IInv
  <1>. QED
    BY <1>1, SubmittedStep DEF User

\* The worker's message is sent, dropped, or given back with an error.
LEMMA StartWorkerStep ==
  ASSUME IInv, StartWorker
  PROVE  IInv'
  <1>1. /\ worker \in {"send", "compact"} /\ worker' = "none"
        /\ UNCHANGED <<sock, blocks, pump, down, run, spoiled>>
    BY DEF StartWorker, IInv, Typed, daemon
  <1>2. CASE up' = Append(up, [op |-> worker, call |-> 0]) /\ UNCHANGED <<busy, prompt>>
    <2>1. [op |-> worker, call |-> 0] \in Commands
      BY <1>1, TuiAssumption DEF Commands
    <2>2. /\ up' \in Seq(Commands)
          /\ NoSend(up) /\ worker # "send" => NoSend(up')
          /\ OneSend(up) /\ worker # "send" => OneSend(up')
          /\ NoSend(up) => OneSend(up')
      BY <1>2, <2>1, MoreCommands DEF IInv, Typed
    <2>3. Typed'
      BY <1>1, <1>2, <2>2 DEF IInv, Typed
    <2>4. spoiled' = {} => OneMessage'
      BY <1>1, <1>2, <2>2 DEF IInv, OneMessage
    <2>5. spoiled' = {} => PromptOpen'
      BY <1>1, <1>2, PromptStays
    <2>. QED
      BY <2>3, <2>4, <2>5 DEF IInv
  <1>3. CASE up' = up /\ UNCHANGED <<busy, prompt>>
    <2>1. Typed'
      BY <1>1, <1>3 DEF IInv, Typed
    <2>2. spoiled' = {} => OneMessage'
      BY <1>1, <1>3, NoNewMessage
    <2>3. spoiled' = {} => PromptOpen'
      BY <1>1, <1>3, PromptStays
    <2>. QED
      BY <2>1, <2>2, <2>3 DEF IInv
  <1>4. CASE up' = up /\ worker = "send" /\ busy' = FALSE /\ prompt' = TRUE
    <2>1. Typed'
      BY <1>1, <1>4 DEF IInv, Typed
    <2>2. spoiled' = {} => OneMessage'
      BY <1>1, <1>4 DEF IInv, OneMessage
    <2>. QED
      BY <1>4, <2>1, <2>2 DEF IInv, PromptOpen
  <1>. QED
    BY <1>2, <1>3, <1>4 DEF StartWorker, Command

LEMMA DecidedStep ==
  ASSUME IInv, Decided
  PROVE  IInv'
  <1>0. blocks \subseteq Calls /\ prompt \in BOOLEAN /\ up \in Seq(Commands)
    BY DEF IInv, Typed
  <1>1. UNCHANGED <<sock, busy, worker, down, run, spoiled>> /\ blocks' \subseteq Calls
    BY <1>0 DEF Decided, Resolve, daemon
  <1>2. CASE \E c \in Calls, d \in {"allow", "deny"} :
               up' = Append(up, [op |-> d, call |-> c]) /\ pump' = c /\ prompt' = prompt
    <2>1. PICK c \in Calls, d \in {"allow", "deny"} :
               up' = Append(up, [op |-> d, call |-> c]) /\ pump' = c /\ prompt' = prompt
      BY <1>2
    <2>2. [op |-> d, call |-> c] \in Commands /\ c # Free
      BY MessageIsOne DEF Commands
    <2>3. /\ up' \in Seq(Commands)
          /\ NoSend(up) => NoSend(up')
          /\ OneSend(up) => OneSend(up')
      BY <1>0, <2>1, <2>2, MoreCommands
    <2>4. Typed'
      BY <1>1, <2>1, <2>3 DEF IInv, Typed
    <2>5. spoiled' = {} => OneMessage'
      BY <1>1, <2>3, NoNewMessage
    <2>. QED
      BY <2>1, <2>2, <2>4, <2>5 DEF IInv, PromptOpen
  <1>3. CASE /\ up' = up
             /\ \/ pump' = Free /\ prompt' = (blocks' = {} \/ prompt)
                \/ pump' = Gone /\ prompt' = prompt
    <2>1. prompt' \in BOOLEAN /\ (blocks' = {} => pump' # Free \/ prompt')
      BY <1>0, <1>3, MessageIsOne, Zenon
    <2>2. Typed'
      BY <1>1, <1>3, <2>1 DEF IInv, Typed
    <2>3. spoiled' = {} => OneMessage'
      BY <1>1, <1>3, NoNewMessage
    <2>. QED
      BY <2>1, <2>2, <2>3 DEF IInv, PromptOpen
  <1>. QED
    BY <1>2, <1>3 DEF Decided, Command

-----------------------------------------------------------------------------
(* The daemon.                                                              *)

\* A step of the daemon that leaves the client alone.
LEMMA DaemonStep ==
  ASSUME IInv, UNCHANGED client, up' \in Seq(Commands), down' \in Seq(Messages)
  PROVE  /\ Typed'
         /\ (spoiled' = {} => spoiled = {}) => (spoiled' = {} => PromptOpen')
  <1> USE DEF client
  <1>1. Typed'
    BY DEF IInv, Typed
  <1>2. (spoiled' = {} => spoiled = {}) => (spoiled' = {} => PromptOpen')
    BY PromptStays
  <1>. QED
    BY <1>1, <1>2

\* The first command is handled.
LEMMA Handled ==
  ASSUME IInv, NEW op, Handle(op)
  PROVE  /\ up' \in Seq(Commands) /\ Head(up) \in Commands /\ Head(up).op = op
         /\ NoSend(up) => NoSend(up') /\ op # "send"
         /\ OneSend(up) => OneSend(up')
         /\ OneSend(up) /\ op = "send" => NoSend(up')
         /\ UNCHANGED client /\ spoiled' = spoiled
         /\ down \in Seq(Messages)
  <1>1. up \in Seq(Commands) /\ up # <<>> /\ up' = Tail(up) /\ Head(up).op = op
    BY DEF Handle, IInv, Typed
  <1>. QED
    BY <1>1, FewerCommands DEF Handle, IInv, Typed

LEMMA HandlersStep ==
  ASSUME IInv, Handlers
  PROVE  IInv'
  <1>1. CASE HandleHandshake \/ HandleRespond
    <2>1. PICK m \in Messages : /\ down' = down \o <<m>> /\ ~Foreign(m) /\ ~Ends(m)
                                /\ run' = run
                                /\ \E op : Handle(op)
      <3>1. CASE HandleHandshake
        <4>1. PICK t \in {"subscribed", "created", "failed"} : down' = down \o <<Message(t, 0)>>
          BY <3>1 DEF HandleHandshake, Push
        <4>2. Message(t, 0) \in Messages
          BY MessageIsOne DEF Answers
        <4>3. ~Foreign(Message(t, 0)) /\ ~Ends(Message(t, 0))
          BY DEF Foreign, Ends, Message
        <4>. QED
          BY <3>1, <4>1, <4>2, <4>3 DEF HandleHandshake, daemon
      <3>2. CASE HandleRespond
        <4>1. /\ down' = down \o <<Message("responded", Head(up).call)>>
              /\ \E op : Handle(op)
              /\ run' = run
          BY <3>2 DEF HandleRespond, Push
        <4>2. Head(up).call \in 0..MaxCalls
          BY <4>1, Handled DEF Commands
        <4>3. Message("responded", Head(up).call) \in Messages
          BY <4>2, MessageIsOne DEF Answers
        <4>4. ~Foreign(Message("responded", Head(up).call)) /\ ~Ends(Message("responded", Head(up).call))
          BY DEF Foreign, Ends, Message
        <4>. QED
          BY <4>1, <4>3, <4>4
      <3>. QED
        BY <1>1, <3>1, <3>2
    <2>2. /\ down' \in Seq(Messages)
          /\ NoForeign(down) => NoForeign(down')
          /\ NoEnd(down) => NoEnd(down')
          /\ OneEnd(down) => OneEnd(down')
      BY <2>1, MoreMessages DEF IInv, Typed
    <2>3. Typed' /\ (spoiled' = {} => PromptOpen')
      BY <2>1, <2>2, Handled, DaemonStep
    <2>4. busy' = busy /\ worker' = worker
      BY <2>1, Handled DEF client
    <2>5. spoiled' = {} => OneMessage'
      BY <2>1, <2>2, <2>4, Handled, NoNewMessage
    <2>. QED
      BY <2>3, <2>5 DEF IInv
  <1>2. CASE HandleCompact
    <2>1. Handle("compact") /\ down' = down /\ (run' = "running" => run = "running")
      BY <1>2 DEF HandleCompact
    <2>2. Typed' /\ (spoiled' = {} => PromptOpen')
      BY <2>1, Handled, DaemonStep
    <2>3. busy' = busy /\ worker' = worker
      BY <2>1, Handled DEF client
    <2>4. spoiled' = {} => OneMessage'
      BY <2>1, <2>3, Handled, NoNewMessage
    <2>. QED
      BY <2>2, <2>4 DEF IInv
  <1>3. CASE HandleSend
    <2>1. Handle("send")
      BY <1>3 DEF HandleSend
    <2>2. busy' = busy /\ worker' = worker
      BY <2>1, Handled DEF client
    <2>3. ~NoSend(up) /\ (spoiled' = {} => spoiled = {} /\ OneMessage)
      BY <2>1, Handled DEF IInv
    <2>4. CASE run = "idle"
      <3>1. run' = "running" /\ down' = down
        BY <1>3, <2>4 DEF HandleSend
      <3>2. Typed' /\ (spoiled' = {} => PromptOpen')
        BY <2>1, <3>1, Handled, DaemonStep
      <3>3. spoiled' = {} => OneMessage'
        BY <2>1, <2>2, <2>3, <3>1, Handled DEF OneMessage
      <3>. QED
        BY <3>2, <3>3 DEF IInv
    <2>5. CASE run # "idle"
      <3>1. run' = run /\ down' = down \o <<Message("refused", 0)>>
        BY <1>3, <2>5 DEF HandleSend, Push
      <3>2. Message("refused", 0) \in Messages /\ ~Foreign(Message("refused", 0))
        BY MessageIsOne DEF Answers, Foreign, Message
      <3>3. /\ down' \in Seq(Messages)
            /\ NoForeign(down) => NoForeign(down')
            /\ NoEnd(down) => OneEnd(down')
        BY <3>1, <3>2, MoreMessages DEF IInv, Typed
      <3>4. Typed' /\ (spoiled' = {} => PromptOpen')
        BY <2>1, <3>3, Handled, DaemonStep
      <3>5. spoiled' = {} => OneMessage'
        BY <2>1, <2>2, <2>3, <3>1, <3>3, Handled DEF OneMessage
      <3>. QED
        BY <3>4, <3>5 DEF IInv
    <2>. QED
      BY <2>4, <2>5
  <1>. QED
    BY <1>1, <1>2, <1>3 DEF Handlers

\* The events of a call do not touch the session's message.
LEMMA CallEventsStep ==
  ASSUME IInv, Daemon, spoiled' = spoiled, run' = run,
         NEW t \in Seq(Messages), NoForeign(t), NoEnd(t), down' = down \o t
  PROVE  IInv'
  <1>1. /\ down' \in Seq(Messages)
        /\ NoForeign(down) => NoForeign(down')
        /\ NoEnd(down) => NoEnd(down')
        /\ OneEnd(down) => OneEnd(down')
    BY ManyMessages DEF IInv, Typed
  <1>2. up' \in Seq(Commands) /\ UNCHANGED <<client, up>>
    BY DEF Daemon, IInv, Typed
  <1>3. Typed' /\ (spoiled' = {} => PromptOpen')
    BY <1>1, <1>2, DaemonStep
  <1>4. busy' = busy /\ worker' = worker
    BY <1>2 DEF client
  <1>5. spoiled' = {} => OneMessage'
    BY <1>1, <1>2, <1>4, NoNewMessage
  <1>. QED
    BY <1>3, <1>5 DEF IInv

LEMMA CallEvents ==
  ASSUME NEW c \in Calls
  PROVE  \A t \in {<<Message("started", c)>>, <<Message("finished", c)>>,
                   <<Message("started", c), Message("requested", c)>>,
                   <<Message("denied", c), Message("finished", c)>>} :
             t \in Seq(Messages) /\ NoForeign(t) /\ NoEnd(t)
  <1>1. \A t \in {"started", "finished", "requested", "denied"} :
            /\ Message(t, c) \in Messages
            /\ ~Foreign(Message(t, c)) /\ ~Ends(Message(t, c))
    BY MessageIsOne DEF ToolMessages, PermissionMessages, Message, Foreign, Ends
  <1>2. ASSUME NEW m \in Messages, ~Foreign(m), ~Ends(m)
        PROVE  <<m>> \in Seq(Messages) /\ NoForeign(<<m>>) /\ NoEnd(<<m>>)
    BY <1>2 DEF NoForeign, NoEnd
  <1>3. ASSUME NEW m \in Messages, NEW n \in Messages,
               ~Foreign(m), ~Ends(m), ~Foreign(n), ~Ends(n)
        PROVE  <<m, n>> \in Seq(Messages) /\ NoForeign(<<m, n>>) /\ NoEnd(<<m, n>>)
    <2>1. /\ <<m, n>> \in Seq(Messages)
          /\ \A i \in DOMAIN <<m, n>> : <<m, n>>[i] = m \/ <<m, n>>[i] = n
      OBVIOUS
    <2>. QED
      BY <2>1, <1>3 DEF NoForeign, NoEnd
  <1>4. /\ <<Message("started", c)>> \in Seq(Messages)
        /\ NoForeign(<<Message("started", c)>>) /\ NoEnd(<<Message("started", c)>>)
    BY <1>1, <1>2
  <1>5. /\ <<Message("finished", c)>> \in Seq(Messages)
        /\ NoForeign(<<Message("finished", c)>>) /\ NoEnd(<<Message("finished", c)>>)
    BY <1>1, <1>2
  <1>6. LET t == <<Message("started", c), Message("requested", c)>>
        IN  t \in Seq(Messages) /\ NoForeign(t) /\ NoEnd(t)
    BY <1>1, <1>3
  <1>7. LET t == <<Message("denied", c), Message("finished", c)>>
        IN  t \in Seq(Messages) /\ NoForeign(t) /\ NoEnd(t)
    BY <1>1, <1>3
  <1>. QED
    BY <1>4, <1>5, <1>6, <1>7

LEMMA CallStep ==
  ASSUME IInv, StartCall \/ FinishCall \/ DenyCall
  PROVE  IInv'
  <1>1. Daemon /\ spoiled' = spoiled /\ run' = run
    BY DEF StartCall, FinishCall, DenyCall
  <1>2. \E c \in Calls : \E t \in {<<Message("started", c)>>, <<Message("finished", c)>>,
                   <<Message("started", c), Message("requested", c)>>,
                   <<Message("denied", c), Message("finished", c)>>} : down' = down \o t
    BY DEF StartCall, FinishCall, DenyCall, Push
  <1>. QED
    BY <1>1, <1>2, CallEvents, CallEventsStep

\* The run ends with an event or an error, and not with both.
LEMMA EndingStep ==
  ASSUME IInv, Ending
  PROVE  IInv'
  <1>1. PICK t \in {"waiting", "refused"} :
            /\ Daemon /\ run = "running" /\ run' # "running" /\ spoiled' = spoiled
            /\ down' = down \o <<Message(t, 0)>>
    BY DEF Ending, EndRun, FailRun, Push
  <1>2. Message(t, 0) \in Messages /\ ~Foreign(Message(t, 0))
    BY MessageIsOne DEF Answers, SessionMessages, Foreign, Message
  <1>3. /\ down' \in Seq(Messages)
        /\ NoForeign(down) => NoForeign(down')
        /\ NoEnd(down) => OneEnd(down')
    BY <1>1, <1>2, MoreMessages DEF IInv, Typed
  <1>4. up' \in Seq(Commands) /\ UNCHANGED <<client, up>>
    BY <1>1 DEF Daemon, IInv, Typed
  <1>5. Typed' /\ (spoiled' = {} => PromptOpen')
    BY <1>1, <1>3, <1>4, DaemonStep
  <1>6. busy' = busy /\ worker' = worker
    BY <1>4 DEF client
  <1>7. spoiled' = {} => OneMessage'
    BY <1>1, <1>3, <1>4, <1>6 DEF IInv, OneMessage
  <1>. QED
    BY <1>5, <1>7 DEF IInv

\* A late error, and the events of other sessions, are kept in spoiled.
LEMMA SpoilingStep ==
  ASSUME IInv, ReleaseLock \/ OtherSession
  PROVE  IInv'
  <1>1. Daemon
    BY DEF ReleaseLock, OtherSession
  <1>2. up' \in Seq(Commands) /\ UNCHANGED <<client, up>>
    BY <1>1 DEF Daemon, IInv, Typed
  <1>3. CASE UNCHANGED <<down, spoiled>> /\ run' = "idle"
    <2>1. Typed' /\ (spoiled' = {} => PromptOpen')
      BY <1>2, <1>3, DaemonStep DEF IInv, Typed
    <2>2. busy' = busy /\ worker' = worker
      BY <1>2 DEF client
    <2>3. spoiled' = {} => OneMessage'
      BY <1>2, <1>3, <2>2, NoNewMessage
    <2>. QED
      BY <2>1, <2>3 DEF IInv
  <1>4. CASE /\ spoiled' # {}
             /\ \E t \in {"refused", "otherWaiting", "otherClosed"} :
                    down' = down \o <<Message(t, 0)>>
    <2>1. PICK t \in {"refused", "otherWaiting", "otherClosed"} :
              down' = down \o <<Message(t, 0)>>
      BY <1>4
    <2>2. Message(t, 0) \in Messages
      BY MessageIsOne DEF Answers, SessionMessages
    <2>3. down' \in Seq(Messages)
      BY <2>1, <2>2, MoreMessages DEF IInv, Typed
    <2>4. Typed'
      BY <1>2, <2>3, DaemonStep
    <2>. QED
      BY <1>4, <2>4 DEF IInv
  <1>. QED
    BY <1>3, <1>4 DEF ReleaseLock, OtherSession, Push

LEMMA StopStep ==
  ASSUME IInv, Stop
  PROVE  IInv'
  <1>1. up' = <<>> /\ run' = "idle" /\ UNCHANGED <<client, down, spoiled>>
    BY DEF Stop
  <1>2. Typed' /\ (spoiled' = {} => PromptOpen')
    BY <1>1, Nothing, DaemonStep DEF IInv, Typed
  <1>3. busy' = busy /\ worker' = worker
    BY <1>1 DEF client
  <1>4. spoiled' = {} => OneMessage'
    BY <1>1, <1>3, Nothing, NoNewMessage
  <1>. QED
    BY <1>2, <1>4 DEF IInv

-----------------------------------------------------------------------------
\* Every step preserves the invariant.
THEOREM StepInv == IInv /\ [Next]_vars => IInv'
  <1> SUFFICES ASSUME IInv, [Next]_vars PROVE IInv'
    OBVIOUS
  <1>1. CASE UNCHANGED vars
    <2>1. UNCHANGED <<sock, busy, prompt, worker, blocks, pump, up, down, run, spoiled>>
      BY <1>1 DEF vars, client, daemon
    <2>2. Typed'
      BY <2>1 DEF IInv, Typed
    <2>3. (spoiled' = {} => OneMessage') /\ (spoiled' = {} => PromptOpen')
      BY <2>1, NoNewMessage, PromptStays
    <2>. QED
      BY <2>2, <2>3 DEF IInv
  <1>2. CASE Pump
    BY <1>2, StartWorkerStep, DecidedStep DEF Pump
  <1>3. CASE Calling \/ StartCall
    BY <1>3, CallStep DEF Calling
  <1>. QED
    BY <1>1, <1>2, <1>3, SocketLoopStep, ReaderStep, UserStep, HandlersStep, EndingStep,
       SpoilingStep, StopStep DEF Next

THEOREM Invariance == Spec => []IInv
  BY InitInv, StepInv, PTL DEF Spec

\* The client never takes a second message while the daemon has one of this session,
\* and never shuts out a user it asks nothing: for any calls, connections and backlog,
\* with daemons that stop at any time.
THEOREM AlwaysInputMatchesRun == Spec => []InputMatchesRun
  <1>1. IInv => InputMatchesRun
    BY DEF IInv, OneMessage, PromptOpen, NoSend, InputMatchesRun
  <1>. QED
    BY <1>1, Invariance, PTL

-----------------------------------------------------------------------------
(* Types.                                                                   *)

LEMMA InitTypes == Init => TypeOK
  <1> SUFFICES ASSUME Init PROVE TypeOK
    OBVIOUS
  <1>1. {selects, picked, asked} \subseteq Seq(Calls) /\ up \in Seq(Commands)
    BY DEF Init
  <1>2. down \in Seq(Messages) /\ Len(down) <= Room + 1
    BY TuiAssumption DEF Init
  <1>3. conn \in 0..MaxConns /\ pump \in Calls \cup {Free, Gone}
    BY TuiAssumption DEF Init
  <1>4. call \in [Calls -> {"unborn", "running", "asked", "denied", "over"}]
    BY DEF Init
  <1>. QED
    BY <1>1, <1>2, <1>3, <1>4 DEF Init, TypeOK

\* What is on the way keeps its type: shorter, or longer by a publish.
LEMMA WayTypes ==
  ASSUME TypeOK
  PROVE  /\ <<>> \in Seq(Messages) /\ Len(<<>>) <= Room + 1 /\ <<>> \in Seq(Commands)
         /\ down # <<>> => Tail(down) \in Seq(Messages) /\ Len(Tail(down)) <= Room + 1
         /\ up # <<>> => Tail(up) \in Seq(Commands) /\ Head(up) \in Commands
         /\ \A c \in Commands : Append(up, c) \in Seq(Commands)
         /\ \A ms \in Seq(Messages) : Len(ms) <= 2 /\ Push(ms) =>
               down' \in Seq(Messages) /\ Len(down') <= Room + 1
  <1>0. /\ down \in Seq(Messages) /\ Len(down) <= Room + 1 /\ up \in Seq(Commands)
        /\ Room \in Nat /\ Len(down) \in Nat
    <2>1. down \in Seq(Messages) /\ Len(down) <= Room + 1 /\ up \in Seq(Commands) /\ Room \in Nat
      BY TuiAssumption DEF TypeOK
    <2>. QED
      BY <2>1
  <1>1. /\ <<>> \in Seq(Messages) /\ <<>> \in Seq(Commands) /\ Len(<<>>) <= Room + 1
    <2>1. Len(<<>>) = 0 /\ <<>> \in Seq(Messages) /\ <<>> \in Seq(Commands)
      OBVIOUS
    <2>. QED
      BY <1>0, <2>1
  <1>2. ASSUME down # <<>> PROVE Tail(down) \in Seq(Messages) /\ Len(Tail(down)) <= Room + 1
    <2>1. Tail(down) \in Seq(Messages) /\ Len(Tail(down)) = Len(down) - 1
      BY <1>0, <1>2
    <2>. QED
      BY <1>0, <2>1
  <1>3. up # <<>> => Tail(up) \in Seq(Commands) /\ Head(up) \in Commands
    BY <1>0
  <1>4. \A c \in Commands : Append(up, c) \in Seq(Commands)
    BY <1>0
  <1>5. ASSUME NEW ms \in Seq(Messages), Len(ms) <= 2, Push(ms)
        PROVE  down' \in Seq(Messages) /\ Len(down') <= Room + 1
    <2>1. down' = down \o ms /\ Len(down) < Room
      BY <1>5 DEF Push
    <2>2. down' \in Seq(Messages) /\ Len(down') = Len(down) + Len(ms) /\ Len(ms) \in Nat
      BY <1>0, <2>1
    <2>. QED
      BY <1>0, <1>5, <2>1, <2>2
  <1>. QED
    BY <1>1, <1>2, <1>3, <1>4, <1>5

LEMMA CommandTypes ==
  /\ \A op \in {"subscribe", "create", "send", "compact", "allow", "deny"} :
       \A c \in 0..MaxCalls : [op |-> op, call |-> c] \in Commands
  /\ 0 \in 0..MaxCalls /\ Calls \subseteq 0..MaxCalls
  BY TuiAssumption DEF Commands, Calls

LEMMA FinallyTypes ==
  ASSUME TypeOK, NEW next \in {"dead", "pausing"}, Finally(next),
         UNCHANGED <<busy, worker, tools, blocks, selects, picked, conn, daemon, spoiled>>,
         pump' \in {pump, Free, Gone}
  PROVE  TypeOK'
  BY WayTypes DEF TypeOK, Finally, daemon

LEMMA SocketLoopTypes ==
  ASSUME TypeOK, SocketLoop
  PROVE  TypeOK'
  <1> USE DEF daemon
  <1>1. CASE Connect
    <2>1. up' \in Seq(Commands)
      <3>1. [op |-> "subscribe", call |-> 0] \in Commands
        BY CommandTypes
      <3>. QED
        BY <3>1, <1>1 DEF Connect
    <2>2. conn' \in 0..MaxConns
      <3>1. conn \in 0..MaxConns /\ conn < MaxConns /\ conn' = conn + 1 /\ MaxConns \in Nat
        BY <1>1, TuiAssumption DEF Connect, TypeOK
      <3>. QED
        BY <3>1
    <2>. QED
      BY <1>1, <2>1, <2>2, WayTypes DEF Connect, TypeOK
  <1>2. CASE CreateSession
    <2>1. CASE reading
      <3>1. up' \in Seq(Commands)
        BY <1>2, <2>1, WayTypes, CommandTypes DEF CreateSession, Command
      <3>. QED
        BY <1>2, <2>1, <3>1 DEF CreateSession, TypeOK
    <2>2. CASE ~reading
      BY <1>2, <2>2, FinallyTypes DEF CreateSession
    <2>. QED
      BY <2>1, <2>2
  <1>3. CASE Serve \/ Retry
    BY <1>3 DEF Serve, Retry, TypeOK
  <1>4. CASE Disconnected
    BY <1>4, FinallyTypes DEF Disconnected
  <1>5. CASE ReadEnds
    <2>1. pump' \in {pump, Free, Gone}
      BY <1>5 DEF ReadEnds
    <2>2. CASE sock \in {"subscribing", "creating"}
      BY <1>5, <2>1, <2>2, FinallyTypes DEF ReadEnds
    <2>3. CASE sock \notin {"subscribing", "creating"}
      BY <1>5, <2>1, <2>3, WayTypes DEF ReadEnds, TypeOK
    <2>. QED
      BY <2>2, <2>3
  <1>. QED
    BY <1>1, <1>2, <1>3, <1>4, <1>5 DEF SocketLoop

LEMMA ReaderTypes ==
  ASSUME TypeOK, Reader
  PROVE  TypeOK'
  <1> USE DEF daemon
  <1>0. ASSUME NEW m, Dispatch(m)
        PROVE  /\ down' \in Seq(Messages) /\ Len(down') <= Room + 1
               /\ UNCHANGED <<worker, picked, conn, run, call, own, asked, spoiled>>
    BY <1>0, WayTypes DEF Dispatch
  <1>1. CASE OnHandshake
    <2>1. PICK m \in {Message("subscribed", 0), Message("created", 0)} : Dispatch(m) /\ sock' = m.type
      BY <1>1 DEF OnHandshake
    <2>2. sock' \in {"subscribed", "created"}
      BY <2>1 DEF Message
    <2>. QED
      BY <1>0, <1>1, <2>1, <2>2 DEF OnHandshake, TypeOK
  <1>2. CASE OnHandshakeError
    BY <1>2, FinallyTypes DEF OnHandshakeError
  <1>3. CASE OnReady \/ OnClosed
    BY <1>0, <1>3 DEF OnReady, OnClosed, TypeOK
  <1>4. CASE OnCallStarted
    BY <1>0, <1>4 DEF OnCallStarted, AddToolBlock, TypeOK
  <1>5. CASE OnCallFinished
    BY <1>0, <1>5 DEF OnCallFinished, SetResult, TypeOK
  <1>6. CASE OnPermissionRequested
    <2>1. PICK c \in Calls : Dispatch(Message("requested", c)) /\ selects' = Append(selects, c)
                            /\ blocks' = blocks \cup {c}
      BY <1>6 DEF OnPermissionRequested, AddPermissionBlock, MountSelect
    <2>2. selects \in Seq(Calls)
      BY DEF TypeOK
    <2>3. selects' \in Seq(Calls) /\ blocks' \subseteq Calls
      <3>1. blocks \subseteq Calls
        BY DEF TypeOK
      <3>. QED
        BY <2>1, <2>2, <3>1
    <2>. QED
      BY <1>0, <1>6, <2>1, <2>3 DEF OnPermissionRequested, TypeOK
  <1>7. CASE OnPermissionDenied
    <2>1. selects \in Seq(Calls)
      BY DEF TypeOK
    <2>2. selects # <<>> => \A s \in AfterRemoval : s \in Seq(Calls)
      BY <2>1 DEF AfterRemoval
    <2>3. PICK c \in Calls :
            /\ Dispatch(Message("denied", c)) /\ Resolve(c)
            /\ IF c \in blocks
                 THEN /\ selects' \in IF selects = <<>> THEN {<<>>} ELSE AfterRemoval
                      /\ prompt' = (blocks' = {} \/ prompt)
                 ELSE UNCHANGED <<selects, prompt>>
            /\ UNCHANGED <<sock, reading, busy, tools, pump, link, up>>
      BY <1>7 DEF OnPermissionDenied
    <2>4. selects' \in Seq(Calls) /\ prompt' \in BOOLEAN
      <3>1. prompt \in BOOLEAN
        BY DEF TypeOK
      <3>. QED
        BY <2>1, <2>2, <2>3, <3>1
    <2>5. blocks' \subseteq Calls
      BY <2>3 DEF Resolve, TypeOK
    <2>. QED
      BY <1>0, <2>3, <2>4, <2>5 DEF TypeOK
  <1>8. CASE OnResponded
    <2>1. prompt' \in BOOLEAN
      BY <1>8 DEF OnResponded, TypeOK
    <2>. QED
      BY <1>0, <1>8, <2>1 DEF OnResponded, TypeOK
  <1>. QED
    BY <1>1, <1>2, <1>3, <1>4, <1>5, <1>6, <1>7, <1>8 DEF Reader

\* What is left of a sequence of calls.
LEMMA WithoutOne ==
  ASSUME NEW s \in Seq(Calls), NEW c
  PROVE  /\ Without(s, c) \in Seq(Calls)
         /\ Ascending(s) => Ascending(Without(s, c)) /\ ToSet(Without(s, c)) = ToSet(s) \ {c}
  <1>1. CASE \E i \in DOMAIN s : s[i] = c
    <2> DEFINE k == CHOOSE i \in DOMAIN s : s[i] = c
               w == Without(s, c)
    <2>1. k \in DOMAIN s /\ s[k] = c /\ k \in Nat /\ k >= 1 /\ k <= Len(s)
      BY <1>1
    <2>2. w = SubSeq(s, 1, k - 1) \o SubSeq(s, k + 1, Len(s))
      BY <1>1 DEF Without, RemoveAt
    <2> HIDE DEF k, w
    <2> DEFINE l == SubSeq(s, 1, k - 1)
               r == SubSeq(s, k + 1, Len(s))
    <2>a. /\ l \in Seq(Calls) /\ Len(l) = k - 1 /\ \A i \in 1..(k - 1) : l[i] = s[i]
      BY <2>1
    <2>b. /\ r \in Seq(Calls) /\ Len(r) = Len(s) - k /\ \A i \in 1..(Len(s) - k) : r[i] = s[i + k]
      BY <2>1
    <2>c. w = l \o r /\ Len(s) \in Nat
      BY <2>2
    <2> HIDE DEF l, r
    <2>d. /\ w \in Seq(Calls) /\ Len(w) = Len(s) - 1
          /\ \A i \in 1..(k - 1) : w[i] = s[i]
          /\ \A i \in k..(Len(s) - 1) : w[i] = s[i + 1]
      <3>1. /\ w \in Seq(Calls) /\ Len(w) = Len(s) - 1
            /\ \A i \in 1..Len(w) : w[i] = IF i <= k - 1 THEN l[i] ELSE r[i - (k - 1)]
        BY <2>1, <2>a, <2>b, <2>c
      <3>2. ASSUME NEW i \in k..(Len(s) - 1) PROVE w[i] = s[i + 1]
        <4>1. i \in 1..Len(w) /\ ~(i <= k - 1) /\ i - (k - 1) \in 1..(Len(s) - k) /\ (i - (k - 1)) + k = i + 1
          BY <2>1, <2>c, <3>1
        <4>. QED
          BY <2>b, <3>1, <4>1
      <3>3. ASSUME NEW i \in 1..(k - 1) PROVE w[i] = s[i]
        <4>1. i \in 1..Len(w) /\ i <= k - 1
          BY <2>1, <2>c, <3>1
        <4>. QED
          BY <2>a, <3>1, <4>1
      <3>. QED
        BY <3>1, <3>2, <3>3
    <2>3. /\ w \in Seq(Calls) /\ Len(w) = Len(s) - 1
          /\ \A i \in DOMAIN w : /\ i \in Nat
                                 /\ i < k => i \in DOMAIN s /\ w[i] = s[i]
                                 /\ i >= k => i + 1 \in DOMAIN s /\ w[i] = s[i + 1]
      BY <2>1, <2>d
    <2>4. \A i \in DOMAIN s : i \in Nat /\ (i < k => i \in DOMAIN w) /\ (i > k => i - 1 \in DOMAIN w /\ w[i - 1] = s[i])
      BY <2>1, <2>d
    <2>5. ASSUME Ascending(s) PROVE Ascending(w) /\ ToSet(w) = ToSet(s) \ {c}
      <3>1. Ascending(w)
        <4> SUFFICES ASSUME NEW i \in DOMAIN w, NEW j \in DOMAIN w, i < j PROVE w[i] < w[j]
          BY DEF Ascending
        <4>1. CASE j < k
          BY <4>1, <2>1, <2>3, <2>5 DEF Ascending
        <4>2. CASE i < k /\ j >= k
          <5>1. i < j + 1
            BY <2>3
          <5>. QED
            BY <4>2, <5>1, <2>3, <2>5 DEF Ascending
        <4>3. CASE i >= k
          <5>1. j >= k /\ i + 1 < j + 1
            BY <4>3, <2>1, <2>3
          <5>. QED
            BY <4>3, <5>1, <2>3, <2>5 DEF Ascending
        <4>. QED
          BY <4>1, <4>2, <4>3, <2>1, <2>3
      <3>2. \A i \in DOMAIN s : i # k => s[i] # c
        <4> SUFFICES ASSUME NEW i \in DOMAIN s, i # k, s[i] = c PROVE FALSE
          OBVIOUS
        <4>1. i \in Nat /\ s[i] \in Nat
          BY TuiAssumption DEF Calls
        <4>2. ~(i < k) /\ ~(k < i)
          BY <2>1, <2>5, <4>1 DEF Ascending
        <4>. QED
          BY <2>1, <4>1, <4>2
      <3>3. ASSUME NEW i \in DOMAIN w PROVE w[i] \in ToSet(s) \ {c}
        <4>1. CASE i < k
          BY <4>1, <2>1, <2>3, <3>2 DEF ToSet
        <4>2. CASE i >= k
          <5>1. i + 1 # k
            BY <4>2, <2>1, <2>3
          <5>. QED
            BY <4>2, <5>1, <2>3, <3>2 DEF ToSet
        <4>. QED
          BY <4>1, <4>2, <2>1, <2>3
      <3>4. ASSUME NEW i \in DOMAIN s, s[i] # c PROVE s[i] \in ToSet(w)
        <4>1. i < k \/ i > k
          BY <3>4, <2>1, <2>4
        <4>. QED
          BY <4>1, <2>3, <2>4 DEF ToSet
      <3>. QED
        BY <3>1, <3>3, <3>4 DEF ToSet
    <2>. QED
      BY <2>3, <2>5 DEF w
  <1>2. CASE ~\E i \in DOMAIN s : s[i] = c
    BY <1>2 DEF Without, ToSet
  <1>. QED
    BY <1>1, <1>2

LEMMA UserTypes ==
  ASSUME TypeOK, User \/ Pump
  PROVE  TypeOK'
  <1> USE DEF daemon
  <1>1. CASE Submitted
    BY <1>1 DEF Submitted, TypeOK
  <1>2. CASE Pick \/ PickUnfocused
    <2>0. selects \in Seq(Calls) /\ picked \in Seq(Calls)
      BY DEF TypeOK
    <2>1. picked' \in Seq(Calls)
      <3>1. \E c \in Calls : picked' = Append(picked, c)
        BY <1>2, <2>0 DEF Pick, PickUnfocused, ToSet
      <3>. QED
        BY <2>0, <3>1
    <2>. QED
      BY <1>2, <2>1 DEF Pick, PickUnfocused, TypeOK
  <1>3. CASE StartWorker
    <2>1. up' \in Seq(Commands) /\ {busy, prompt}' \subseteq BOOLEAN
      <3>1. CASE HasClient /\ reading
        <4>1. worker \in {"send", "compact"} /\ Command(worker, 0) /\ UNCHANGED <<busy, prompt>>
          BY <1>3, <3>1 DEF StartWorker, TypeOK
        <4>2. [op |-> worker, call |-> 0] \in Commands
          BY <4>1, CommandTypes
        <4>. QED
          BY <4>1, <4>2, WayTypes DEF Command, TypeOK
      <3>2. CASE ~(HasClient /\ reading)
        BY <1>3, <3>2 DEF StartWorker, TypeOK
      <3>. QED
        BY <3>1, <3>2
    <2>. QED
      BY <1>3, <2>1 DEF StartWorker, TypeOK
  <1>4. CASE Decided
    <2>1. PICK c \in Calls :
            /\ picked # <<>> /\ picked' = Tail(picked) /\ selects' = Without(selects, c) /\ Resolve(c)
            /\ IF HasClient /\ reading
                 THEN /\ \E d \in {"allow", "deny"} : Command(d, c)
                      /\ pump' = c /\ UNCHANGED prompt
                 ELSE /\ \/ pump' = Free /\ prompt' = (blocks' = {} \/ prompt)
                         \/ HasClient /\ pump' = Gone /\ UNCHANGED prompt
                      /\ UNCHANGED up
      BY <1>4 DEF Decided
    <2>2. picked' \in Seq(Calls) /\ selects' \in Seq(Calls) /\ blocks' \subseteq Calls
      <3>1. selects \in Seq(Calls) /\ picked \in Seq(Calls) /\ blocks \subseteq Calls
        BY DEF TypeOK
      <3>. QED
        BY <2>1, <3>1, WithoutOne DEF Resolve
    <2>3. up' \in Seq(Commands) /\ prompt' \in BOOLEAN /\ pump' \in Calls \cup {Free, Gone}
      <3>1. CASE HasClient /\ reading
        <4>1. PICK d \in {"allow", "deny"} : Command(d, c)
          BY <2>1, <3>1
        <4>2. [op |-> d, call |-> c] \in Commands
          BY CommandTypes
        <4>. QED
          BY <2>1, <3>1, <4>1, <4>2, WayTypes DEF Command, TypeOK
      <3>2. CASE ~(HasClient /\ reading)
        BY <2>1, <3>2 DEF TypeOK
      <3>. QED
        BY <3>1, <3>2
    <2>. QED
      BY <1>4, <2>2, <2>3 DEF Decided, TypeOK
  <1>. QED
    BY <1>1, <1>2, <1>3, <1>4 DEF User, Pump

LEMMA HandlersTypes ==
  ASSUME TypeOK, Handlers
  PROVE  TypeOK'
  <1> USE DEF client, daemon
  <1>0. ASSUME NEW op, Handle(op)
        PROVE  up' \in Seq(Commands) /\ Head(up) \in Commands /\ UNCHANGED <<client, conn, link, spoiled>>
    BY <1>0, WayTypes DEF Handle
  <1>1. ASSUME NEW m \in Messages, Push(<<m>>) PROVE down' \in Seq(Messages) /\ Len(down') <= Room + 1
    <2>1. <<m>> \in Seq(Messages) /\ Len(<<m>>) <= 2
      OBVIOUS
    <2>. QED
      BY <1>1, <2>1, WayTypes
  <1>2. CASE HandleHandshake
    <2>1. down' \in Seq(Messages) /\ Len(down') <= Room + 1
      <3>1. \A t \in {"subscribed", "created", "failed"} : Message(t, 0) \in Messages
        BY MessageIsOne DEF Answers
      <3>. QED
        BY <1>1, <1>2, <3>1 DEF HandleHandshake
    <2>. QED
      BY <1>0, <1>2, <2>1 DEF HandleHandshake, TypeOK
  <1>3. CASE HandleSend
    <2>1. down' \in Seq(Messages) /\ Len(down') <= Room + 1
      <3>1. Message("refused", 0) \in Messages
        BY MessageIsOne DEF Answers
      <3>. QED
        BY <1>1, <1>3, <3>1 DEF HandleSend, TypeOK
    <2>2. run' \in {"idle", "running", "ending", "compacting"} /\ own' \subseteq Calls
      BY <1>3 DEF HandleSend, TypeOK
    <2>. QED
      BY <1>0, <1>3, <2>1, <2>2 DEF HandleSend, TypeOK
  <1>4. CASE HandleCompact
    <2>1. run' \in {"idle", "running", "ending", "compacting"}
      BY <1>4 DEF HandleCompact, TypeOK
    <2>. QED
      BY <1>0, <1>4, <2>1 DEF HandleCompact, TypeOK
  <1>5. CASE HandleRespond
    <2> DEFINE c == Head(up).call
    <2>1. c \in 0..MaxCalls /\ Push(<<Message("responded", c)>>)
      BY <1>0, <1>5 DEF HandleRespond, Commands
    <2>2. Message("responded", c) \in Messages
      BY <2>1, MessageIsOne DEF Answers
    <2>3. down' \in Seq(Messages) /\ Len(down') <= Room + 1
      BY <1>1, <2>1, <2>2
    <2>4. call' = call \/ \E x \in {"running", "denied"} : call' = [call EXCEPT ![c] = x]
      BY <1>5 DEF HandleRespond
    <2>5. asked' = Without(asked, c) /\ UNCHANGED <<run, own>>
      BY <1>5 DEF HandleRespond
    <2> HIDE DEF c
    <2>6. call' \in [Calls -> {"unborn", "running", "asked", "denied", "over"}]
      BY <2>4 DEF TypeOK
    <2>7. asked' \in Seq(Calls)
      BY <2>5, WithoutOne DEF TypeOK
    <2>8. up' \in Seq(Commands) /\ UNCHANGED <<client, conn, link, spoiled>>
      BY <1>0, <1>5 DEF HandleRespond
    <2>. QED
      BY <2>3, <2>5, <2>6, <2>7, <2>8 DEF TypeOK
  <1>. QED
    BY <1>2, <1>3, <1>4, <1>5 DEF Handlers

LEMMA DaemonTypes ==
  ASSUME TypeOK, Calling \/ Ending \/ StartCall \/ ReleaseLock \/ OtherSession \/ Stop
  PROVE  TypeOK'
  <1> USE DEF client, daemon
  <1>1. CASE StartCall \/ Calling
    <2> DEFINE Change(c, t) ==
                 /\ Push(t) /\ own' \in {own, own \cup {c}}
                 /\ \E x \in {"running", "asked", "over"} : call' = [call EXCEPT ![c] = x]
                 /\ asked' \in {asked, Append(asked, c), Without(asked, c)}
                 /\ Daemon /\ UNCHANGED <<run, spoiled>>
               Published(c) == {<<Message("started", c)>>, <<Message("finished", c)>>,
                                <<Message("started", c), Message("requested", c)>>,
                                <<Message("denied", c), Message("finished", c)>>}
    <2>1. \E c \in Calls : \E t \in Published(c) : Change(c, t)
      <3>1. CASE StartCall
        <4>1. PICK c \in Calls :
                /\ own' \in {own} \cup (IF run = "running" THEN {own \cup {c}} ELSE {})
                /\ \/ /\ call' = [call EXCEPT ![c] = "running"]
                      /\ Push(<<Message("started", c)>>)
                      /\ UNCHANGED asked
                   \/ /\ call' = [call EXCEPT ![c] = "asked"]
                      /\ Push(<<Message("started", c), Message("requested", c)>>)
                      /\ asked' = Append(asked, c)
          BY <3>1 DEF StartCall
        <4>2. own' \in {own, own \cup {c}}
          BY <4>1
        <4>3. Daemon /\ UNCHANGED <<run, spoiled>>
          BY <3>1 DEF StartCall
        <4>4. Change(c, <<Message("started", c)>>) \/ Change(c, <<Message("started", c), Message("requested", c)>>)
          BY <4>1, <4>2, <4>3
        <4>5. <<Message("started", c)>> \in Published(c)
              /\ <<Message("started", c), Message("requested", c)>> \in Published(c)
          OBVIOUS
        <4> HIDE DEF Change, Published
        <4>. QED
          BY <4>4, <4>5
      <3>2. CASE FinishCall
        <4>1. PICK c \in Calls : Change(c, <<Message("finished", c)>>)
          BY <3>2 DEF FinishCall
        <4>2. <<Message("finished", c)>> \in Published(c)
          OBVIOUS
        <4> HIDE DEF Change, Published
        <4>. QED
          BY <4>1, <4>2
      <3>3. CASE DenyCall
        <4>1. PICK c \in Calls : Change(c, <<Message("denied", c), Message("finished", c)>>)
          BY <3>3 DEF DenyCall
        <4>2. <<Message("denied", c), Message("finished", c)>> \in Published(c)
          OBVIOUS
        <4> HIDE DEF Change, Published
        <4>. QED
          BY <4>1, <4>2
      <3> HIDE DEF Change, Published
      <3>. QED
        BY <1>1, <3>1, <3>2, <3>3 DEF Calling
    <2>p. PICK c \in Calls : \E t \in Published(c) : Change(c, t)
      BY <2>1
    <2>t. PICK t \in Published(c) : Change(c, t)
      BY <2>p
    <2>2. t \in Seq(Messages) /\ Len(t) <= 2
      <3>1. t \in Seq(Messages)
        BY <2>t, CallEvents
      <3>2. \A m, n : Len(<<m>>) <= 2 /\ Len(<<m, n>>) <= 2
        OBVIOUS
      <3>3. Len(t) <= 2
        BY <2>t, <3>2
      <3>. QED
        BY <3>1, <3>3
    <2>3. down' \in Seq(Messages) /\ Len(down') <= Room + 1
      BY <2>t, <2>2, WayTypes
    <2>4. call' \in [Calls -> {"unborn", "running", "asked", "denied", "over"}]
      BY <2>t DEF TypeOK
    <2>5. asked' \in Seq(Calls) /\ own' \subseteq Calls
      <3>1. asked \in Seq(Calls) /\ own \subseteq Calls
        BY DEF TypeOK
      <3>. QED
        BY <2>p, <2>t, <3>1, WithoutOne
    <2>. QED
      BY <2>t, <2>3, <2>4, <2>5 DEF Daemon, TypeOK
  <1>2. CASE Ending
    <2>1. \E t \in {"waiting", "refused"} : Push(<<Message(t, 0)>>)
      BY <1>2 DEF Ending, EndRun, FailRun
    <2>2. \A t \in {"waiting", "refused"} : <<Message(t, 0)>> \in Seq(Messages) /\ Len(<<Message(t, 0)>>) <= 2
      BY MessageIsOne DEF SessionMessages, Answers
    <2>3. down' \in Seq(Messages) /\ Len(down') <= Room + 1
      BY <2>1, <2>2, WayTypes
    <2>. QED
      BY <1>2, <2>3 DEF Ending, EndRun, FailRun, Daemon, TypeOK
  <1>3. CASE ReleaseLock \/ OtherSession
    <2>1. UNCHANGED down \/ \E t \in {"refused", "otherWaiting", "otherClosed"} : Push(<<Message(t, 0)>>)
      BY <1>3 DEF ReleaseLock, OtherSession
    <2>2. \A t \in {"refused", "otherWaiting", "otherClosed"} :
            <<Message(t, 0)>> \in Seq(Messages) /\ Len(<<Message(t, 0)>>) <= 2
      BY MessageIsOne DEF SessionMessages, Answers
    <2>3. down' \in Seq(Messages) /\ Len(down') <= Room + 1
      BY <2>1, <2>2, WayTypes DEF TypeOK
    <2>. QED
      BY <1>3, <2>3 DEF ReleaseLock, OtherSession, Daemon, TypeOK
  <1>4. CASE Stop
    <2>1. call' \in [Calls -> {"unborn", "running", "asked", "denied", "over"}]
      BY <1>4 DEF Stop
    <2>2. asked' \in Seq(Calls) /\ up' \in Seq(Commands)
      BY <1>4 DEF Stop
    <2>. QED
      BY <1>4, <2>1, <2>2 DEF Stop, TypeOK
  <1>. QED
    BY <1>1, <1>2, <1>3, <1>4

THEOREM TypeStep == TypeOK /\ [Next]_vars => TypeOK'
  <1> SUFFICES ASSUME TypeOK, [Next]_vars PROVE TypeOK'
    OBVIOUS
  <1>1. CASE UNCHANGED vars
    BY <1>1 DEF vars, client, daemon, TypeOK
  <1>. QED
    BY <1>1, SocketLoopTypes, ReaderTypes, UserTypes, HandlersTypes, DaemonTypes DEF Next

\* Client, connection and daemon stay what the handlers can make of them, and what is on
\* its way within the room a drain leaves: for any calls, connections and room.
THEOREM TypeCorrect == Spec => []TypeOK
  BY InitTypes, TypeStep, PTL DEF Spec

-----------------------------------------------------------------------------
(* The handshake, and a daemon that has nothing under way.                  *)

\* t is what is left of s, and after it what is new.
Gets(s, t, new) ==
    \E k \in Nat : \A i \in DOMAIN t : i \in Nat /\ (t[i] \in new \/ (i + k \in DOMAIN s /\ t[i] = s[i + k]))

\* A handler takes the first, sends one or two more, or drops all.
LEMMA GetsLess ==
  ASSUME NEW S, NEW s \in Seq(S), NEW new
  PROVE  /\ Gets(s, s, new) /\ Gets(s, <<>>, new)
         /\ s # <<>> => Gets(s, Tail(s), new)
  <1>1. Gets(s, s, new)
    <2>1. \A i \in DOMAIN s : i \in Nat /\ i + 0 \in DOMAIN s /\ s[i] = s[i + 0]
      OBVIOUS
    <2>. QED
      BY <2>1 DEF Gets
  <1>2. Gets(s, <<>>, new)
    BY DEF Gets
  <1>3. ASSUME s # <<>> PROVE Gets(s, Tail(s), new)
    <2>1. \A i \in DOMAIN Tail(s) : i \in Nat /\ i + 1 \in DOMAIN s /\ Tail(s)[i] = s[i + 1]
      BY <1>3
    <2>. QED
      BY <2>1 DEF Gets
  <1>. QED
    BY <1>1, <1>2, <1>3

LEMMA GetsMore ==
  ASSUME NEW S, NEW s \in Seq(S), NEW t \in Seq(S), NEW new, \A i \in DOMAIN t : t[i] \in new
  PROVE  Gets(s, s \o t, new)
  <1>1. \A i \in DOMAIN (s \o t) :
           /\ i \in Nat
           /\ \/ i + 0 \in DOMAIN s /\ (s \o t)[i] = s[i + 0]
              \/ i - Len(s) \in DOMAIN t /\ (s \o t)[i] = t[i - Len(s)]
    OBVIOUS
  <1>. QED
    BY <1>1 DEF Gets

LEMMA GetsOne ==
  ASSUME NEW S, NEW s \in Seq(S), NEW m \in S
  PROVE  Gets(s, Append(s, m), {m})
  <1>1. \A i \in DOMAIN Append(s, m) :
           /\ i \in Nat
           /\ \/ i + 0 \in DOMAIN s /\ Append(s, m)[i] = s[i + 0]
              \/ Append(s, m)[i] = m
    OBVIOUS
  <1>. QED
    BY <1>1 DEF Gets

\* What a step may do to the handshake without taking part in it.
LEMMA HandshakeKept ==
  ASSUME Handshake, sock' = sock,
         NEW commands, Gets(up, up', commands), \A x \in commands : ~Opens(x),
         NEW messages, Gets(down, down', messages), \A x \in messages : ~Greets(x)
  PROVE  Handshake'
  <1>1. PICK k \in Nat : \A i \in DOMAIN up' : i \in Nat /\ (up'[i] \in commands \/ (i + k \in DOMAIN up /\ up'[i] = up[i + k]))
    BY DEF Gets
  <1>2. PICK n \in Nat : \A i \in DOMAIN down' : i \in Nat /\ (down'[i] \in messages \/ (i + n \in DOMAIN down /\ down'[i] = down[i + n]))
    BY DEF Gets
  <1>3. \A i \in DOMAIN up' : Opens(up'[i]) => i \in Nat /\ i + k \in DOMAIN up /\ up'[i] = up[i + k]
    BY <1>1
  <1>4. \A i \in DOMAIN down' : Greets(down'[i]) => i \in Nat /\ i + n \in DOMAIN down /\ down'[i] = down[i + n]
    BY <1>2
  <1>5. ASSUME NEW i \in DOMAIN up', Opens(up'[i])
        PROVE  /\ sock' = IF up'[i].op = "subscribe" THEN "subscribing" ELSE "creating"
               /\ \A j \in DOMAIN up' : Opens(up'[j]) => i = j
               /\ \A j \in DOMAIN down' : ~Greets(down'[j])
    <2>1. i \in Nat /\ i + k \in DOMAIN up /\ up'[i] = up[i + k] /\ Opens(up[i + k])
      BY <1>3, <1>5
    <2>2. sock' = IF up'[i].op = "subscribe" THEN "subscribing" ELSE "creating"
      BY <2>1 DEF Handshake
    <2>3. ASSUME NEW j \in DOMAIN up', Opens(up'[j]) PROVE i = j
      <3>1. j \in Nat /\ j + k \in DOMAIN up /\ Opens(up[j + k])
        BY <1>3, <2>3
      <3>2. i + k = j + k
        BY <2>1, <3>1 DEF Handshake
      <3>. QED
        BY <2>1, <3>1, <3>2
    <2>4. \A j \in DOMAIN down' : ~Greets(down'[j])
      BY <1>4, <2>1 DEF Handshake
    <2>. QED
      BY <2>2, <2>3, <2>4
  <1>6. ASSUME NEW i \in DOMAIN down', Greets(down'[i])
        PROVE  /\ sock' = IF down'[i].type = "subscribed" THEN "subscribing" ELSE "creating"
               /\ \A j \in DOMAIN down' : Greets(down'[j]) => i = j
    <2>1. i \in Nat /\ i + n \in DOMAIN down /\ down'[i] = down[i + n] /\ Greets(down[i + n])
      BY <1>4, <1>6
    <2>2. sock' = IF down'[i].type = "subscribed" THEN "subscribing" ELSE "creating"
      BY <2>1 DEF Handshake
    <2>3. ASSUME NEW j \in DOMAIN down', Greets(down'[j]) PROVE i = j
      <3>1. j \in Nat /\ j + n \in DOMAIN down /\ Greets(down[j + n])
        BY <1>4, <2>3
      <3>2. i + n = j + n
        BY <2>1, <3>1 DEF Handshake
      <3>. QED
        BY <2>1, <3>1, <3>2
    <2>. QED
      BY <2>2, <2>3
  <1>. QED
    BY <1>5, <1>6 DEF Handshake

\* and one that starts nothing in a daemon that has nothing under way.
LEMMA QuietKept ==
  ASSUME Quiet, UNCHANGED <<sock, reading, link>>,
         worker' \in {worker, "none"} \/ sock = "serving",
         NEW commands, Gets(up, up', commands),
         sock = "serving" \/ \A x \in commands : x.op \notin {"send", "compact"},
         \/ link /\ sock = "serving"
         \/ run' \in {run, "idle"} /\ own' \subseteq own /\ \A c \in Calls : Live(c)' => Live(c)
  PROVE  Quiet'
  <1>1. PICK k \in Nat : \A i \in DOMAIN up' : i \in Nat /\ (up'[i] \in commands \/ (i + k \in DOMAIN up /\ up'[i] = up[i + k]))
    BY DEF Gets
  <1>2. sock' # "serving" => \A i \in DOMAIN up' : up'[i].op \notin {"send", "compact"}
    BY <1>1 DEF Quiet
  <1>3. ~link' \/ sock' # "serving" => run' = "idle" /\ own' = {} /\ \A c \in Calls : ~Live(c)'
    BY DEF Quiet
  <1>. QED
    BY <1>2, <1>3 DEF Quiet

LEMMA InitCalm == Init => Handshake /\ Quiet
  BY DEF Init, Handshake, Quiet, Live

\* The socket loop drops the connection: nothing is under way any more.
LEMMA FinallyCalm ==
  ASSUME Quiet, NEW next \in {"dead", "pausing"}, Finally(next), ~link \/ sock # "serving",
         UNCHANGED <<worker, daemon>>
  PROVE  Handshake' /\ Quiet'
  BY DEF Quiet, Handshake, Finally, daemon, Live

\* What the steps do to what is on its way.
LEMMA WayGets ==
  ASSUME TypeOK, NEW new
  PROVE  /\ Gets(up, up, new) /\ Gets(up, <<>>, new) /\ Gets(down, down, new) /\ Gets(down, <<>>, new)
         /\ \A m : Dispatch(m) => Gets(down, down', new)
         /\ \A op : Handle(op) => Gets(up, up', new)
         /\ \A op \in {"subscribe", "create", "send", "compact", "allow", "deny"}, c \in 0..MaxCalls :
               Command(op, c) => Gets(up, up', {[op |-> op, call |-> c]})
         /\ \A m \in Messages : Push(<<m>>) => Gets(down, down', {m})
         /\ \A m, n \in Messages : Push(<<m, n>>) => Gets(down, down', {m, n})
  <1>0. up \in Seq(Commands) /\ down \in Seq(Messages)
    BY DEF TypeOK
  <1>1. /\ Gets(up, up, new) /\ Gets(up, <<>>, new) /\ Gets(down, down, new) /\ Gets(down, <<>>, new)
        /\ up # <<>> => Gets(up, Tail(up), new)
        /\ down # <<>> => Gets(down, Tail(down), new)
    BY <1>0, GetsLess
  <1>2. ASSUME NEW m, Dispatch(m) PROVE Gets(down, down', new)
    BY <1>1, <1>2 DEF Dispatch
  <1>3. ASSUME NEW op, Handle(op) PROVE Gets(up, up', new)
    BY <1>1, <1>3 DEF Handle
  <1>4. ASSUME NEW op \in {"subscribe", "create", "send", "compact", "allow", "deny"}, NEW c \in 0..MaxCalls, Command(op, c)
        PROVE  Gets(up, up', {[op |-> op, call |-> c]})
    <2>1. [op |-> op, call |-> c] \in Commands
      BY CommandTypes
    <2>. QED
      BY <1>0, <1>4, <2>1, GetsOne DEF Command
  <1>5. ASSUME NEW m \in Messages, Push(<<m>>) PROVE Gets(down, down', {m})
    <2>1. <<m>> \in Seq(Messages) /\ \A i \in DOMAIN <<m>> : <<m>>[i] \in {m}
      OBVIOUS
    <2>2. down' = down \o <<m>>
      BY <1>5 DEF Push
    <2>. QED
      BY <1>0, <2>1, <2>2, GetsMore
  <1>6. ASSUME NEW m \in Messages, NEW n \in Messages, Push(<<m, n>>) PROVE Gets(down, down', {m, n})
    <2>1. <<m, n>> \in Seq(Messages) /\ \A i \in DOMAIN <<m, n>> : <<m, n>>[i] \in {m, n}
      OBVIOUS
    <2>2. down' = down \o <<m, n>>
      BY <1>6 DEF Push
    <2>. QED
      BY <1>0, <2>1, <2>2, GetsMore
  <1>. QED
    BY <1>1, <1>2, <1>3, <1>4, <1>5, <1>6

LEMMA SocketLoopCalm ==
  ASSUME TypeOK, Handshake, Quiet, SocketLoop
  PROVE  Handshake' /\ Quiet'
  <1> USE DEF daemon
  <1>1. CASE Connect
    <2>1. /\ up' = <<[op |-> "subscribe", call |-> 0]>> /\ down' = <<>>
          /\ sock = "connecting" /\ sock' = "subscribing" /\ reading' = TRUE
          /\ UNCHANGED <<worker, run, own, call>>
      BY <1>1 DEF Connect
    <2>2. /\ DOMAIN up' = {1} /\ DOMAIN down' = {} /\ up'[1].op = "subscribe"
      BY <2>1
    <2>3. Handshake'
      BY <2>1, <2>2 DEF Handshake
    <2>4. Quiet'
      BY <2>1, <2>2 DEF Quiet, Live
    <2>. QED
      BY <2>3, <2>4
  <1>2. CASE CreateSession /\ reading
    <2>1. /\ sock = "subscribed" /\ sock' = "creating" /\ up' = Append(up, [op |-> "create", call |-> 0])
          /\ UNCHANGED <<reading, link, down, worker, run, own, call>> /\ up \in Seq(Commands)
      BY <1>2 DEF CreateSession, Command, TypeOK
    <2>2. /\ \A i \in DOMAIN up : ~Opens(up[i])
          /\ \A i \in DOMAIN down : ~Greets(down[i])
      BY <2>1 DEF Handshake
    <2>3. \A i \in DOMAIN up' : \/ i \in DOMAIN up /\ up'[i] = up[i]
                                \/ i = Len(up) + 1 /\ up'[i].op = "create"
      BY <2>1
    <2>4. Handshake'
      BY <2>1, <2>2, <2>3 DEF Handshake, Opens
    <2>5. Quiet'
      BY <2>1, <2>3 DEF Quiet, Live
    <2>. QED
      BY <2>4, <2>5
  <1>3. CASE CreateSession /\ ~reading
    BY <1>3, FinallyCalm DEF CreateSession
  <1>4. CASE Serve \/ Retry
    <2>1. /\ sock \in {"created", "pausing"} /\ sock' \in {"serving", "connecting"}
          /\ sock' # "serving" => worker = "none"
          /\ sock' = "connecting" => sock # "serving"
          /\ UNCHANGED <<reading, link, up, down, worker, run, own, call>>
      BY <1>4 DEF Serve, Retry
    <2>2. /\ \A i \in DOMAIN up : ~Opens(up[i])
          /\ \A i \in DOMAIN down : ~Greets(down[i])
      BY <2>1 DEF Handshake
    <2>3. Handshake'
      BY <2>1, <2>2 DEF Handshake
    <2>4. Quiet'
      BY <2>1 DEF Quiet, Live
    <2>. QED
      BY <2>3, <2>4
  <1>5. CASE Disconnected
    BY <1>5, FinallyCalm DEF Disconnected, Quiet
  <1>6. CASE ReadEnds /\ sock \in {"subscribing", "creating"}
    BY <1>6, FinallyCalm DEF ReadEnds
  <1>7. CASE ReadEnds /\ sock \notin {"subscribing", "creating"}
    <2>1. /\ reading' = FALSE /\ ~link /\ down' = <<>>
          /\ UNCHANGED <<sock, link, up, worker, run, own, call>>
      BY <1>7 DEF ReadEnds
    <2>2. Handshake'
      BY <2>1 DEF Handshake
    <2>3. Quiet'
      BY <2>1 DEF Quiet, Live
    <2>. QED
      BY <2>2, <2>3
  <1>. QED
    BY <1>1, <1>2, <1>3, <1>4, <1>5, <1>6, <1>7 DEF SocketLoop

\* A message is handled that is no part of the handshake.
LEMMA DispatchCalm ==
  ASSUME TypeOK, Handshake, Quiet, NEW m, Dispatch(m), UNCHANGED <<sock, reading, link, up>>
  PROVE  Handshake' /\ Quiet'
  <1>1. Gets(up, up', {}) /\ Gets(down, down', {})
    BY WayGets
  <1>2. UNCHANGED <<worker, run, own, call>>
    BY DEF Dispatch, daemon
  <1>3. \A c \in Calls : Live(c)' => Live(c)
    BY <1>2 DEF Live
  <1>. QED
    BY <1>1, <1>2, <1>3, HandshakeKept, QuietKept

LEMMA ReaderCalm ==
  ASSUME TypeOK, Handshake, Quiet, Reader
  PROVE  Handshake' /\ Quiet'
  <1>1. CASE OnHandshake
    <2>1. PICK m \in {Message("subscribed", 0), Message("created", 0)} :
            Dispatch(m) /\ sock' = m.type /\ UNCHANGED <<reading, link, up>>
      BY <1>1 DEF OnHandshake
    <2>2. Greets(m) /\ sock' \in {"subscribed", "created"}
      BY <2>1 DEF Greets, Message
    <2>3. /\ down \in Seq(Messages) /\ down # <<>> /\ m = Head(down) /\ down' = Tail(down)
          /\ UNCHANGED <<worker, run, own, call>>
      BY <2>1 DEF Dispatch, TypeOK, daemon
    <2>4. /\ 1 \in DOMAIN down /\ down[1] = m
          /\ \A i \in DOMAIN down' : i \in Nat /\ i + 1 \in DOMAIN down /\ down'[i] = down[i + 1] /\ i + 1 # 1
      BY <2>3
    <2>5. sock \in {"subscribing", "creating"} /\ \A i \in DOMAIN down' : ~Greets(down'[i])
      BY <2>2, <2>4 DEF Handshake
    <2>6. \A i \in DOMAIN up' : ~Opens(up'[i])
      BY <2>1, <2>2, <2>4 DEF Handshake
    <2>7. Handshake'
      BY <2>5, <2>6 DEF Handshake
    <2>8. Quiet'
      BY <2>1, <2>3, <2>5 DEF Quiet, Live
    <2>. QED
      BY <2>7, <2>8
  <1>2. CASE OnHandshakeError
    <2>1. /\ 1 \in DOMAIN down /\ down[1] = Message("failed", 0)
      <3>1. down \in Seq(Messages) /\ down # <<>> /\ Head(down) = Message("failed", 0)
        BY <1>2 DEF OnHandshakeError, TypeOK
      <3>. QED
        BY <3>1
    <2>2. sock = "creating"
      BY <2>1 DEF Handshake, Greets, Message
    <2>. QED
      BY <1>2, <2>2, FinallyCalm DEF OnHandshakeError
  <1>3. CASE OnReady \/ OnClosed \/ OnCallStarted \/ OnCallFinished \/ OnPermissionRequested
               \/ OnPermissionDenied \/ OnResponded
    <2>1. (\E m : Dispatch(m)) /\ UNCHANGED <<sock, reading, link, up>>
      BY <1>3 DEF OnReady, OnClosed, OnCallStarted, OnCallFinished, OnPermissionRequested,
                  OnPermissionDenied, OnResponded
    <2>. QED
      BY <2>1, DispatchCalm
  <1>. QED
    BY <1>1, <1>2, <1>3 DEF Reader

LEMMA UserCalm ==
  ASSUME TypeOK, Handshake, Quiet, User \/ Pump
  PROVE  Handshake' /\ Quiet'
  <1> USE DEF daemon
  <1>0. UNCHANGED <<sock, reading, link, down, run, own, call>> /\ Gets(down, down', {})
        /\ \A c \in Calls : Live(c)' => Live(c)
    <2>1. UNCHANGED <<sock, reading, link, down, run, own, call>>
      BY DEF User, Pump, Submitted, Pick, PickUnfocused, StartWorker, Decided
    <2>. QED
      BY <2>1, WayGets DEF Live
  <1>1. CASE User
    <2>1. up' = up /\ (worker' = worker \/ sock = "serving")
      BY <1>1 DEF User, Submitted, Pick, PickUnfocused, HasSession
    <2>2. Gets(up, up', {})
      BY <2>1, WayGets
    <2>. QED
      BY <1>0, <2>1, <2>2, HandshakeKept, QuietKept
  <1>2. CASE StartWorker
    <2>1. worker \in {"send", "compact"} /\ worker' = "none"
      BY <1>2 DEF StartWorker, TypeOK
    <2>2. CASE HasClient /\ reading
      <3>1. Command(worker, 0) /\ sock = "serving"
        BY <1>2, <2>1, <2>2 DEF StartWorker, HasClient, Quiet
      <3>2. Gets(up, up', {[op |-> worker, call |-> 0]})
        BY <2>1, <3>1, WayGets, CommandTypes
      <3>3. \A x \in {[op |-> worker, call |-> 0]} : ~Opens(x)
        BY <2>1 DEF Opens
      <3>. QED
        BY <1>0, <2>1, <3>1, <3>2, <3>3, HandshakeKept, QuietKept
    <2>3. CASE ~(HasClient /\ reading)
      <3>1. up' = up
        BY <1>2, <2>3 DEF StartWorker
      <3>2. Gets(up, up', {})
        BY <3>1, WayGets
      <3>. QED
        BY <1>0, <2>1, <3>2, HandshakeKept, QuietKept
    <2>. QED
      BY <2>2, <2>3
  <1>3. CASE Decided
    <2>1. worker' = worker /\ (up' = up \/ \E c \in Calls : \E d \in {"allow", "deny"} : Command(d, c))
      BY <1>3 DEF Decided
    <2>2. CASE up' = up
      <3>1. Gets(up, up', {})
        BY <2>2, WayGets
      <3>. QED
        BY <1>0, <2>1, <3>1, HandshakeKept, QuietKept
    <2>3. ASSUME NEW c \in Calls, NEW d \in {"allow", "deny"}, Command(d, c) PROVE Handshake' /\ Quiet'
      <3>1. Gets(up, up', {[op |-> d, call |-> c]})
        BY <2>3, WayGets, CommandTypes
      <3>2. \A x \in {[op |-> d, call |-> c]} : ~Opens(x) /\ x.op \notin {"send", "compact"}
        BY DEF Opens
      <3>. QED
        BY <1>0, <2>1, <3>1, <3>2, HandshakeKept, QuietKept
    <2>. QED
      BY <2>1, <2>2, <2>3
  <1>. QED
    BY <1>1, <1>2, <1>3 DEF Pump

\* The daemon answers.
LEMMA HandlersCalm ==
  ASSUME TypeOK, Handshake, Quiet, Handlers
  PROVE  Handshake' /\ Quiet'
  <1> USE DEF client, daemon
  <1>0. ASSUME NEW op, Handle(op)
        PROVE  /\ UNCHANGED <<sock, reading, link, worker>> /\ Gets(up, up', {}) /\ link
               /\ 1 \in DOMAIN up /\ up[1].op = op /\ up[1] = Head(up)
               /\ \A i \in DOMAIN up' : i \in Nat /\ i + 1 \in DOMAIN up /\ up'[i] = up[i + 1] /\ i + 1 # 1
    <2>1. UNCHANGED <<sock, reading, link, worker>> /\ up' = Tail(up) /\ up # <<>> /\ Head(up).op = op /\ link
      BY <1>0 DEF Handle
    <2>2. up \in Seq(Commands)
      BY DEF TypeOK
    <2>3. Gets(up, up', {})
      BY <1>0, WayGets
    <2>4. /\ 1 \in DOMAIN up /\ Head(up) = up[1]
          /\ \A i \in DOMAIN Tail(up) : i \in Nat /\ i + 1 \in DOMAIN up /\ Tail(up)[i] = up[i + 1] /\ i + 1 # 1
      BY <2>1, <2>2
    <2>. QED
      BY <2>1, <2>3, <2>4
  <1>1. CASE HandleHandshake
    <2>1. PICK op \in {"subscribe", "create"}, t \in {"subscribed", "created", "failed"} :
            /\ Handle(op) /\ Push(<<Message(t, 0)>>) /\ UNCHANGED daemon
            /\ t = "subscribed" <=> op = "subscribe"
      BY <1>1 DEF HandleHandshake
    <2>2. /\ sock' = (IF t = "subscribed" THEN "subscribing" ELSE "creating")
          /\ \A i \in DOMAIN up' : ~Opens(up'[i])
          /\ \A i \in DOMAIN down : ~Greets(down[i])
      BY <1>0, <2>1 DEF Handshake, Opens
    <2>3. down \in Seq(Messages) /\ down' = down \o <<Message(t, 0)>>
      BY <2>1 DEF Push, TypeOK
    <2>4. \A i \in DOMAIN down' : \/ i \in DOMAIN down /\ down'[i] = down[i]
                                  \/ i = Len(down) + 1 /\ down'[i] = Message(t, 0)
      BY <2>3
    <2>5. Handshake'
      BY <2>2, <2>4 DEF Handshake, Message
    <2>6. \A c \in Calls : Live(c)' => Live(c)
      BY <2>1 DEF Live
    <2>7. Quiet'
      BY <1>0, <2>1, <2>6, QuietKept
    <2>. QED
      BY <2>5, <2>7
  <1>2. CASE HandleSend \/ HandleCompact
    <2>1. PICK op \in {"send", "compact"} : Handle(op) /\ (down' = down \/ Push(<<Message("refused", 0)>>))
      BY <1>2 DEF HandleSend, HandleCompact
    <2>2. sock = "serving" /\ link
      BY <1>0, <2>1 DEF Quiet
    <2>3. PICK new : new \in {{}, {Message("refused", 0)}} /\ Gets(down, down', new)
      <3>1. Message("refused", 0) \in Messages
        BY MessageIsOne DEF Answers
      <3>. QED
        BY <2>1, <3>1, WayGets
    <2>4. \A x \in new : ~Greets(x)
      BY <2>3 DEF Greets, Message
    <2>5. Gets(up, up', {}) /\ UNCHANGED <<sock, reading, link, worker>>
      BY <1>0, <2>1
    <2>6. Handshake'
      BY <2>3, <2>4, <2>5, HandshakeKept
    <2>7. Quiet'
      BY <2>2, <2>5, QuietKept
    <2>. QED
      BY <2>6, <2>7
  <1>3. CASE HandleRespond
    <2>1. PICK op \in {"allow", "deny"} : Handle(op)
      BY <1>3 DEF HandleRespond
    <2>2. Head(up).call \in 0..MaxCalls
      <3>1. up # <<>>
        BY <2>1 DEF Handle
      <3>. QED
        BY <3>1, WayTypes DEF Commands
    <2>3. PICK c \in 0..MaxCalls, x \in {"running", "denied"} :
            /\ Push(<<Message("responded", c)>>)
            /\ call' = IF call[c] # "asked" THEN call ELSE [call EXCEPT ![c] = x]
            /\ UNCHANGED <<run, own>>
      BY <1>3, <2>2 DEF HandleRespond
    <2>4. Gets(down, down', {Message("responded", c)})
      <3>1. Message("responded", c) \in Messages
        BY MessageIsOne DEF Answers
      <3>. QED
        BY <2>3, <3>1, WayGets
    <2>5. \A y \in {Message("responded", c)} : ~Greets(y)
      BY DEF Greets, Message
    <2>6. \A b \in Calls : Live(b)' => Live(b)
      BY <2>3 DEF Live, TypeOK
    <2>. QED
      BY <1>0, <2>1, <2>3, <2>4, <2>5, <2>6, HandshakeKept, QuietKept
  <1>. QED
    BY <1>1, <1>2, <1>3 DEF Handlers

\* Calls and runs go on.
LEMMA CallsCalm ==
  ASSUME TypeOK, Handshake, Quiet,
         Calling \/ Ending \/ StartCall \/ ReleaseLock \/ OtherSession \/ Stop
  PROVE  Handshake' /\ Quiet'
  <1> USE DEF client, daemon
  <1> DEFINE Events(c) == {Message(t, c) : t \in SessionMessages \cup ToolMessages \cup PermissionMessages
                                                  \cup {"refused"}}
  <1>1. CASE Stop
    <2>1. /\ UNCHANGED <<sock, reading, worker, down>> /\ link' = FALSE /\ up' = <<>>
          /\ run' = "idle" /\ own' = {} /\ \A c \in Calls : ~Live(c)'
      BY <1>1 DEF Stop, Live
    <2>2. Gets(down, down', {}) /\ Gets(up, up', {})
      BY <2>1, WayGets
    <2>3. Quiet'
      BY <2>1 DEF Quiet
    <2>. QED
      BY <2>1, <2>2, <2>3, HandshakeKept
  <1>2. CASE ~Stop
    <2>1. UNCHANGED <<sock, reading, worker, link, up>> /\ link
      BY <1>2 DEF Calling, FinishCall, DenyCall, Ending, EndRun, FailRun, StartCall, ReleaseLock, OtherSession, Daemon
    <2>2. Gets(up, up', {})
      BY <2>1, WayGets
    <2>3. \E c \in 0..MaxCalls : \/ down' = down
                                 \/ \E m \in Events(c) : Push(<<m>>)
                                 \/ \E m, n \in Events(c) : Push(<<m, n>>)
      <3>1. CASE Ending \/ ReleaseLock \/ OtherSession
        <4>1. \/ down' = down
              \/ \E t \in {"waiting", "otherWaiting", "otherClosed", "refused"} : Push(<<Message(t, 0)>>)
          BY <3>1 DEF Ending, EndRun, FailRun, ReleaseLock, OtherSession
        <4>2. {Message(t, 0) : t \in {"waiting", "otherWaiting", "otherClosed", "refused"}} \subseteq Events(0)
          BY DEF SessionMessages
        <4>. QED
          BY <4>1, <4>2, CommandTypes
      <3>2. CASE Calling \/ StartCall
        <4>1. \E c \in Calls : \/ Push(<<Message("started", c)>>)
                               \/ Push(<<Message("finished", c)>>)
                               \/ Push(<<Message("started", c), Message("requested", c)>>)
                               \/ Push(<<Message("denied", c), Message("finished", c)>>)
          BY <3>2 DEF Calling, FinishCall, DenyCall, StartCall
        <4>2. \A c \in Calls : {Message(t, c) : t \in {"started", "finished", "requested", "denied"}} \subseteq Events(c)
          BY DEF ToolMessages, PermissionMessages
        <4>3. \A c \in Calls : {Message("started", c), Message("finished", c), Message("requested", c),
                                Message("denied", c)} \subseteq Events(c)
          BY <4>2
        <4> HIDE DEF Events
        <4>. QED
          BY <4>1, <4>3, CommandTypes
      <3>. QED
        BY <1>2, <3>1, <3>2
    <2>4. \A c \in 0..MaxCalls : \A m \in Events(c) : m \in Messages /\ ~Greets(m)
      BY MessageIsOne DEF Greets, Message, SessionMessages, ToolMessages, PermissionMessages, Answers
    <2>5. \E new : Gets(down, down', new) /\ \A m \in new : ~Greets(m)
      <3> HIDE DEF Events
      <3>1. PICK c \in 0..MaxCalls : \/ down' = down
                                     \/ \E m \in Events(c) : Push(<<m>>)
                                     \/ \E m, n \in Events(c) : Push(<<m, n>>)
        BY <2>3
      <3>2. CASE down' = down
        <4>1. Gets(down, down', {})
          BY <3>2, WayGets
        <4>. QED
          BY <4>1
      <3>3. ASSUME NEW m \in Events(c), Push(<<m>>) PROVE Gets(down, down', {m}) /\ \A x \in {m} : ~Greets(x)
        BY <3>3, <2>4, WayGets
      <3>4. ASSUME NEW m \in Events(c), NEW n \in Events(c), Push(<<m, n>>)
            PROVE  Gets(down, down', {m, n}) /\ \A x \in {m, n} : ~Greets(x)
        BY <3>4, <2>4, WayGets
      <3>5. CASE \E m \in Events(c) : Push(<<m>>)
        <4>1. PICK m \in Events(c) : Push(<<m>>)
          BY <3>5
        <4>2. Gets(down, down', {m}) /\ \A x \in {m} : ~Greets(x)
          BY <3>3, <4>1
        <4>. QED
          BY <4>2
      <3>6. CASE \E m, n \in Events(c) : Push(<<m, n>>)
        <4>1. PICK m \in Events(c), n \in Events(c) : Push(<<m, n>>)
          BY <3>6
        <4>2. Gets(down, down', {m, n}) /\ \A x \in {m, n} : ~Greets(x)
          BY <3>4, <4>1
        <4>. QED
          BY <4>2
      <3>. QED
        BY <3>1, <3>2, <3>5, <3>6
    <2>6. Handshake'
      BY <2>1, <2>2, <2>5, HandshakeKept
    <2>7. \/ link /\ sock = "serving"
          \/ run' \in {run, "idle"} /\ own' \subseteq own /\ \A c \in Calls : Live(c)' => Live(c)
      <3>1. CASE EndRun \/ StartCall
        BY <2>1, <3>1 DEF EndRun, StartCall, Quiet
      <3>2. CASE FailRun \/ ReleaseLock \/ OtherSession
        BY <3>2 DEF FailRun, ReleaseLock, OtherSession, Live
      <3>3. CASE Calling
        <4>1. \E c \in Calls : call' = [call EXCEPT ![c] = "over"]
          BY <3>3 DEF Calling, FinishCall, DenyCall
        <4>2. run' = run /\ own' = own
          BY <3>3 DEF Calling, FinishCall, DenyCall
        <4>. QED
          BY <4>1, <4>2 DEF Live, TypeOK
      <3>. QED
        BY <1>2, <3>1, <3>2, <3>3 DEF Ending
    <2>. QED
      BY <2>1, <2>2, <2>6, <2>7, QuietKept
  <1>. QED
    BY <1>1, <1>2

THEOREM StepCalm == TypeOK /\ Handshake /\ Quiet /\ [Next]_vars => Handshake' /\ Quiet'
  <1> SUFFICES ASSUME TypeOK, Handshake, Quiet, [Next]_vars PROVE Handshake' /\ Quiet'
    OBVIOUS
  <1>1. CASE UNCHANGED vars
    BY <1>1 DEF vars, client, daemon, Handshake, Quiet, Live
  <1>. QED
    BY <1>1, SocketLoopCalm, ReaderCalm, UserCalm, HandlersCalm, CallsCalm DEF Next

-----------------------------------------------------------------------------
(* Requests are shown.                                                      *)

\* A step that opens no request, on the screen or in the daemon, and closes none
\* on the screen.
Passes(commands, messages) ==
    /\ UNCHANGED <<blocks, selects>> /\ Mounted' \subseteq Mounted /\ own' \subseteq own
    /\ \A c \in Calls :
          /\ call'[c] = "unborn" <=> call[c] = "unborn"
          /\ call'[c] = "asked" => call[c] = "asked"
          /\ call'[c] = "denied" => call[c] = "denied" \/ Shut(c)
          /\ call[c] = "over" => call'[c] = "over"
          /\ call'[c] = "asked" => /\ Requested(c) => Requested(c)'
                                   /\ pump \in {c, Gone} => pump' \in {c, Gone}
    /\ Ascending(asked') /\ ToSet(asked') = {c \in Calls : call'[c] = "asked"}
    /\ Gets(up, up', commands) /\ \A x \in commands : ~Decides(x)
    /\ Gets(down, down', messages)
    /\ \A x \in messages : /\ x.type # "requested"
                           /\ x.type = "responded" => x.call \in Born /\ call'[x.call] # "asked"

LEMMA MessageFields ==
  /\ \A t, c : Message(t, c).type = t /\ Message(t, c).call = c
  /\ \A t, u, b, c : Message(t, b) = Message(u, c) => t = u /\ b = c
  <1>1. \A t, c : Message(t, c).type = t /\ Message(t, c).call = c
    BY DEF Message
  <1>. QED
    BY <1>1

\* What has come is new, or was on its way.
LEMMA GetsHas ==
  ASSUME NEW s, NEW t, NEW new, Gets(s, t, new), NEW m, Has(t, m)
  PROVE  m \in new \/ Has(s, m)
  BY DEF Gets, Has

LEMMA PassesRequests ==
  ASSUME Shown, NEW commands, NEW messages, Passes(commands, messages)
  PROVE  /\ \A c \in Calls : Requested(c)' => Requested(c)
         /\ \A c : Shut(c) /\ c \in Calls => Shut(c)'
         /\ \A c \in Calls : Shut(c)' /\ call'[c] = "asked" => Shut(c)
  <1>1. ASSUME NEW c \in Calls, Requested(c)' PROVE Requested(c)
    <2>1. Has(down', Message("requested", c))
      BY <1>1 DEF Requested
    <2>2. Message("requested", c) \in messages \/ Has(down, Message("requested", c))
      BY <2>1, GetsHas DEF Passes
    <2>. QED
      BY <2>2, MessageFields DEF Passes, Requested
  <1>. QED
    BY <1>1 DEF Passes, Shut

LEMMA PassesInTurn ==
  ASSUME Shown, NEW commands, NEW messages, Passes(commands, messages)
  PROVE  InTurn' /\ Answered' /\ RequestsShown'
  <1>0. Born' = Born
    BY DEF Passes, Born
  <1>1. \A c \in Calls : Requested(c)' => Requested(c)
    BY PassesRequests
  <1>2. ASSUME NEW c \in Calls, Responded(c)' PROVE c \in Born /\ call'[c] # "asked"
    <2>1. Has(down', Message("responded", c))
      BY <1>2 DEF Responded
    <2>2. Message("responded", c) \in messages \/ Has(down, Message("responded", c))
      BY <2>1, GetsHas DEF Passes
    <2>3. CASE Message("responded", c) \in messages
      BY <2>3, MessageFields DEF Passes
    <2>4. CASE Has(down, Message("responded", c))
      BY <2>4 DEF Passes, Shown, InTurn, Answered, Responded
    <2>. QED
      BY <2>2, <2>3, <2>4
  <1>3. ASSUME NEW i \in DOMAIN up', Decides(up'[i]), NEW c, c = up'[i].call PROVE c \in Born /\ Shut(c)'
    <2>1. PICK k \in Nat : \A j \in DOMAIN up' : up'[j] \in commands \/ (j + k \in DOMAIN up /\ up'[j] = up[j + k])
      BY DEF Passes, Gets
    <2>2. i + k \in DOMAIN up /\ up'[i] = up[i + k]
      BY <1>3, <2>1 DEF Passes
    <2>3. c \in Born /\ Shut(c)
      BY <1>3, <2>2 DEF Shown, InTurn, Answered
    <2>. QED
      BY <2>3, PassesRequests DEF Born
  <1>4. InTurn'
    <2>1. \A c \in Born' : 1..c-1 \subseteq Born'
      BY <1>0 DEF Shown, InTurn
    <2>2. own' \cup blocks' \cup Mounted' \subseteq Born'
      BY <1>0 DEF Shown, InTurn, Passes
    <2>3. Ascending(asked') /\ ToSet(asked') = {c \in Calls : call'[c] = "asked"} /\ Ascending(selects')
      BY DEF Shown, InTurn, Passes
    <2>4. ASSUME NEW i \in DOMAIN down', NEW j \in DOMAIN down', NEW b \in Calls, NEW c \in Calls,
                 i < j, down'[i] = Message("requested", b), down'[j] = Message("requested", c)
          PROVE  b < c
      <3>1. PICK k \in Nat : \A n \in DOMAIN down' : n \in Nat /\ (down'[n] \in messages \/ (n + k \in DOMAIN down /\ down'[n] = down[n + k]))
        BY DEF Passes, Gets
      <3>2. Message("requested", b) \notin messages /\ Message("requested", c) \notin messages
        BY MessageFields DEF Passes
      <3>3. /\ i \in Nat /\ i + k \in DOMAIN down /\ down[i + k] = Message("requested", b)
            /\ j \in Nat /\ j + k \in DOMAIN down /\ down[j + k] = Message("requested", c)
        BY <2>4, <3>1, <3>2
      <3>4. i + k < j + k
        BY <2>4, <3>3
      <3>. QED
        BY <3>3, <3>4 DEF Shown, InTurn
    <2>5. \A b \in Mounted' : \A c \in Calls : Requested(c)' => b < c
      BY <1>1 DEF Shown, InTurn, Passes
    <2>6. \A c \in Calls : Requested(c)' \/ Responded(c)' => c \in Born'
      BY <1>0, <1>1, <1>2 DEF Shown, InTurn
    <2>7. \A i \in DOMAIN up' : Decides(up'[i]) => up'[i].call \in Born'
      BY <1>0, <1>3
    <2>. QED
      BY <2>1, <2>2, <2>3, <2>4, <2>5, <2>6, <2>7 DEF InTurn
  <1>5. Answered'
    <2>1. \A c \in Calls : call'[c] = "denied" => Shut(c)'
      BY PassesRequests DEF Passes, Shown, Answered
    <2>2. \A i \in DOMAIN up' : Decides(up'[i]) =>
             up'[i].call \notin blocks' /\ ~Has(down', Message("requested", up'[i].call))
      BY <1>3 DEF Shut, Requested
    <2>3. \A c \in Calls : Responded(c)' => call'[c] # "asked"
      BY <1>2
    <2>. QED
      BY <2>1, <2>2, <2>3 DEF Answered, Shut, Requested
  <1>6. RequestsShown'
    <2> SUFFICES ASSUME NEW c \in Calls, call'[c] = "asked"
                 PROVE Requested(c)' \/ (c \in blocks' /\ c \in ToSet(selects')) \/ pump' \in {c, Gone}
      BY DEF RequestsShown, Requested, Has
    <2>1. Requested(c) \/ (c \in blocks /\ c \in ToSet(selects)) \/ pump \in {c, Gone}
      BY DEF Passes, Shown, RequestsShown, Requested, Has
    <2>. QED
      BY <2>1 DEF Passes
  <1>. QED
    BY <1>4, <1>5, <1>6

\* and denies none.
LEMMA PassesShown ==
  ASSUME Shown, NEW commands, NEW messages, Passes(commands, messages),
         \A x \in messages : x.type # "denied"
  PROVE  Shown'
  <1>1. InTurn' /\ Answered' /\ RequestsShown'
    BY PassesInTurn
  <1>2. ASSUME NEW c \in Calls, Denial(c)' PROVE Denial(c)
    <2>1. Message("denied", c) \in messages \/ Has(down, Message("denied", c))
      BY <1>2, GetsHas DEF Passes, Denial
    <2>. QED
      BY <2>1, MessageFields DEF Denial
  <1>3. DeniedInTurn'
    <2>1. \A c \in Calls : Denial(c)' => call'[c] = "over"
      BY <1>2 DEF Shown, DeniedInTurn, Passes
    <2>2. PICK k \in Nat : \A n \in DOMAIN down' : n \in Nat /\ (down'[n] \in messages \/ (n + k \in DOMAIN down /\ down'[n] = down[n + k]))
      BY DEF Passes, Gets
    <2>3. ASSUME NEW i \in DOMAIN down', NEW c \in Calls, down'[i] = Message("denied", c), ~Shut(c)',
                 NEW b \in 1..c-1
          PROVE  /\ call'[b] # "asked"
                 /\ \A j \in DOMAIN down' : i < j /\ down'[j] = Message("denied", b) => Shut(b)'
      <3>0. b \in Calls
        BY TuiAssumption DEF Calls
      <3>1. Message("denied", c) \notin messages /\ Message("denied", b) \notin messages
        BY MessageFields
      <3>2. i \in Nat /\ i + k \in DOMAIN down /\ down[i + k] = Message("denied", c)
        BY <2>2, <2>3, <3>1
      <3>3. ~Shut(c)
        BY <2>3, PassesRequests
      <3>4. call[b] # "asked"
        BY <3>2, <3>3 DEF Shown, DeniedInTurn
      <3>5. ASSUME NEW j \in DOMAIN down', i < j, down'[j] = Message("denied", b) PROVE Shut(b)'
        <4>1. j \in Nat /\ j + k \in DOMAIN down /\ down[j + k] = Message("denied", b)
          BY <2>2, <3>1, <3>5
        <4>2. i + k < j + k
          BY <3>2, <3>5, <4>1
        <4>3. Shut(b)
          BY <3>2, <3>3, <4>1, <4>2 DEF Shown, DeniedInTurn
        <4>. QED
          BY <3>0, <4>3, PassesRequests
      <3>. QED
        BY <3>0, <3>4, <3>5 DEF Passes
    <2>. QED
      BY <2>1, <2>3 DEF DeniedInTurn
  <1>4. SelectsLeft'
    <2> SUFFICES ASSUME NEW c \in blocks', call'[c] = "asked" \/ Denial(c)' PROVE c \in ToSet(selects')
      BY DEF SelectsLeft
    <2>1. c \in blocks /\ c \in Calls
      BY DEF Passes, Shown, InTurn, Born
    <2>. QED
      BY <1>2, <2>1 DEF Passes, Shown, SelectsLeft
  <1>. QED
    BY <1>1, <1>3, <1>4 DEF Shown

LEMMA InitShown == Init => Shown
  <1> SUFFICES ASSUME Init PROVE Shown
    OBVIOUS
  <1>1. /\ \A c \in Calls : call[c] = "unborn"
        /\ own = {} /\ blocks = {} /\ ToSet(selects) = {} /\ ToSet(picked) = {}
        /\ Ascending(asked) /\ Ascending(selects) /\ ToSet(asked) = {}
        /\ DOMAIN up = {} /\ DOMAIN down = {}
    BY DEF Init, ToSet, Ascending
  <1>2. /\ Born = {} /\ Mounted = {}
        /\ \A m : ~Has(down, m)
    BY <1>1 DEF Born, Mounted, Has
  <1>3. InTurn
    BY <1>1, <1>2 DEF InTurn, Requested, Responded
  <1>4. Answered /\ DeniedInTurn /\ SelectsLeft /\ RequestsShown
    BY <1>1, <1>2 DEF Answered, DeniedInTurn, SelectsLeft, RequestsShown, Responded, Denial
  <1>. QED
    BY <1>3, <1>4 DEF Shown

\* What was on its way still is, unless it is handled.
LEMMA HasStays ==
  ASSUME TypeOK, NEW x, Has(down, x)
  PROVE  /\ \A m : Dispatch(m) => x = m \/ Has(down', x)
         /\ \A t \in Seq(Messages) : Push(t) => Has(down', x)
         /\ down' = down => Has(down', x)
  <1>0. down \in Seq(Messages)
    BY DEF TypeOK
  <1>1. PICK i \in DOMAIN down : down[i] = x
    BY DEF Has
  <1>2. ASSUME NEW m, Dispatch(m), x # m PROVE Has(down', x)
    <2>1. down # <<>> /\ m = Head(down) /\ down' = Tail(down)
      BY <1>2 DEF Dispatch
    <2>2. i # 1
      BY <1>0, <1>1, <1>2, <2>1
    <2>3. i - 1 \in DOMAIN Tail(down) /\ Tail(down)[i - 1] = x
      BY <1>0, <1>1, <2>1, <2>2
    <2>. QED
      BY <2>1, <2>3 DEF Has
  <1>3. ASSUME NEW t \in Seq(Messages), Push(t) PROVE Has(down', x)
    <2>1. down' = down \o t
      BY <1>3 DEF Push
    <2>2. i \in DOMAIN (down \o t) /\ (down \o t)[i] = x
      BY <1>0, <1>1
    <2>. QED
      BY <2>1, <2>2 DEF Has
  <1>. QED
    BY <1>2, <1>3 DEF Has

\* A message has come.
LEMMA Came ==
  ASSUME TypeOK, NEW m, Dispatch(m)
  PROVE  /\ m \in Messages /\ Has(down, m) /\ UNCHANGED <<call, own, asked, picked, run, worker>>
         /\ 1 \in DOMAIN down /\ down[1] = m
         /\ \A i \in DOMAIN down' : i \in Nat /\ i + 1 \in DOMAIN down /\ down'[i] = down[i + 1] /\ 1 < i + 1
         /\ \A x : Has(down', x) => Has(down, x)
  <1>1. /\ down \in Seq(Messages) /\ down # <<>> /\ m = Head(down) /\ down' = Tail(down)
        /\ UNCHANGED <<call, own, asked, picked, run, worker>>
    BY DEF Dispatch, TypeOK, daemon
  <1>2. m \in Messages /\ 1 \in DOMAIN down /\ down[1] = m
    BY <1>1
  <1>3. \A i \in DOMAIN down' : i \in Nat /\ i + 1 \in DOMAIN down /\ down'[i] = down[i + 1] /\ 1 < i + 1
    BY <1>1
  <1>. QED
    BY <1>1, <1>2, <1>3 DEF Has

\* A step that leaves the calls and their requests alone.
LEMMA PlainShown ==
  ASSUME Shown, UNCHANGED <<call, asked, blocks, selects>>, own' \subseteq own, Mounted' \subseteq Mounted,
         NEW commands, Gets(up, up', commands), \A x \in commands : ~Decides(x),
         NEW messages, Gets(down, down', messages),
         \A x \in messages : x.type \notin {"requested", "denied", "responded"},
         \A c \in Calls : call[c] = "asked" =>
            /\ Requested(c) => Requested(c)'
            /\ pump \in {c, Gone} => pump' \in {c, Gone}
  PROVE  Shown'
  <1>1. Ascending(asked') /\ ToSet(asked') = {c \in Calls : call'[c] = "asked"}
    BY DEF Shown, InTurn
  <1>2. Passes(commands, messages)
    BY <1>1 DEF Passes
  <1>. QED
    BY <1>2, PassesShown

LEMMA IdleShown ==
  ASSUME Shown, UNCHANGED <<call, asked, blocks, selects, own, picked>>, \A c \in Calls : ~Live(c),
         NEW commands, Gets(up, up', commands), \A x \in commands : ~Decides(x), Gets(down, down', {})
  PROVE  Shown'
  <1>1. \A c \in Calls : call[c] # "asked"
    BY DEF Live
  <1>2. Mounted' = Mounted
    BY DEF Mounted
  <1>. QED
    BY <1>1, <1>2, PlainShown

LEMMA SocketLoopShown ==
  ASSUME TypeOK, Quiet, Shown, SocketLoop
  PROVE  Shown'
  <1> USE DEF daemon
  <1>1. /\ UNCHANGED <<call, asked, blocks, selects, own, picked>>
        /\ down' \in {down, <<>>}
    BY DEF SocketLoop, Connect, CreateSession, Serve, Disconnected, Retry, ReadEnds, Finally
  <1>2. ~link \/ sock # "serving"
    BY DEF SocketLoop, Connect, CreateSession, Serve, Disconnected, Retry, ReadEnds, Quiet
  <1>3. \A c \in Calls : ~Live(c)
    BY <1>2 DEF Quiet
  <1>4. Gets(down, down', {})
    BY <1>1, WayGets
  <1> DEFINE S == [op |-> "subscribe", call |-> 0]
             C == [op |-> "create", call |-> 0]
  <1>5. up' \in {up, <<>>} \/ up' = <<S>> \/ Command("create", 0)
    BY DEF SocketLoop, Connect, CreateSession, Serve, Disconnected, Retry, ReadEnds, Finally
  <1>6. Gets(up, up', {}) \/ Gets(up, up', {S}) \/ Gets(up, up', {C})
    <2>1. CASE up' \in {up, <<>>}
      BY <2>1, WayGets
    <2>2. CASE up' = <<S>>
      <3>1. DOMAIN <<S>> = {1} /\ <<S>>[1] = S
        OBVIOUS
      <3>. QED
        BY <2>2, <3>1 DEF Gets
    <2>3. CASE Command("create", 0)
      BY <2>3, WayGets, CommandTypes
    <2>. QED
      BY <1>5, <2>1, <2>2, <2>3
  <1>7. \A x \in {S, C} : ~Decides(x)
    BY DEF Decides
  <1> HIDE DEF S, C
  <1>. QED
    BY <1>1, <1>3, <1>4, <1>6, <1>7, IdleShown

\* A message other than a request.
LEMMA DispatchShown ==
  ASSUME TypeOK, Shown, NEW m, Dispatch(m), m.type # "requested", UNCHANGED <<blocks, selects, up>>,
         \A c \in Calls : call[c] = "asked" /\ pump \in {c, Gone} => pump' \in {c, Gone}
  PROVE  Shown'
  <1>1. UNCHANGED <<call, asked, own, picked>>
    BY Came
  <1>2. Mounted' \subseteq Mounted
    BY <1>1 DEF Mounted
  <1>3. \A c \in Calls : Requested(c) => Requested(c)'
    BY HasStays, MessageFields DEF Requested
  <1>4. Gets(up, up', {}) /\ Gets(down, down', {})
    BY WayGets
  <1>. QED
    BY <1>1, <1>2, <1>3, <1>4, PlainShown

LEMMA OnRespondedShown ==
  ASSUME TypeOK, Shown, OnResponded
  PROVE  Shown'
  <1>1. Dispatch(Message("responded", pump)) /\ UNCHANGED <<blocks, selects, up>>
    BY DEF OnResponded
  <1>2. Message("responded", pump) \in Messages /\ Has(down, Message("responded", pump))
    BY <1>1, Came
  <1>3. pump \in 0..MaxCalls
    BY <1>2 DEF Messages, Message
  <1>4. pump # Gone
    BY <1>3, TuiAssumption DEF Gone
  <1>5. \A c \in Calls : call[c] = "asked" => pump \notin {c, Gone}
    BY <1>2, <1>4 DEF Shown, Answered, Responded
  <1>. QED
    BY <1>1, <1>5, DispatchShown, MessageFields

LEMMA UserShown ==
  ASSUME TypeOK, Shown, User \/ StartWorker
  PROVE  Shown'
  <1>0. selects \in Seq(Calls) /\ picked \in Seq(Calls)
    BY DEF TypeOK
  <1>1. UNCHANGED <<call, asked, blocks, selects, own, pump, down>>
    BY DEF User, Submitted, Pick, PickUnfocused, StartWorker, daemon
  <1>2. Mounted' \subseteq Mounted
    <2>1. CASE Submitted \/ StartWorker
      BY <2>1 DEF Submitted, StartWorker, Mounted
    <2>2. CASE Pick \/ PickUnfocused
      <3>1. PICK c \in ToSet(selects) : picked' = Append(picked, c)
        BY <1>0, <2>2 DEF Pick, PickUnfocused, ToSet
      <3>2. c \in Calls
        BY <1>0, <3>1 DEF ToSet
      <3>3. \A i \in DOMAIN Append(picked, c) : (i \in DOMAIN picked /\ Append(picked, c)[i] = picked[i]) \/ Append(picked, c)[i] = c
        BY <1>0, <3>2
      <3>4. ToSet(Append(picked, c)) \subseteq ToSet(picked) \cup {c}
        BY <3>3 DEF ToSet
      <3>. QED
        BY <1>1, <3>1, <3>4 DEF Mounted
    <2>. QED
      BY <2>1, <2>2 DEF User
  <1>3. \E commands : Gets(up, up', commands) /\ \A x \in commands : ~Decides(x)
    <2>1. CASE up' = up
      <3>1. Gets(up, up', {})
        BY <2>1, WayGets
      <3>. QED
        BY <3>1
    <2>2. CASE up' # up
      <3>1. worker \in {"send", "compact"} /\ Command(worker, 0)
        BY <2>2 DEF User, Submitted, Pick, PickUnfocused, StartWorker, TypeOK
      <3>2. Gets(up, up', {[op |-> worker, call |-> 0]})
        BY <3>1, WayGets, CommandTypes
      <3>3. \A x \in {[op |-> worker, call |-> 0]} : ~Decides(x)
        BY <3>1 DEF Decides
      <3>. QED
        BY <3>2, <3>3
    <2>. QED
      BY <2>1, <2>2
  <1>4. Gets(down, down', {}) /\ \A c \in Calls : Requested(c) => Requested(c)'
    BY <1>1, WayGets DEF Requested
  <1>. QED
    BY <1>1, <1>2, <1>3, <1>4, PlainShown

\* What the daemon says, other than about calls.
LEMMA PublishShown ==
  ASSUME TypeOK, Shown, UNCHANGED <<call, asked, client>>, own' \subseteq own,
         Gets(up, up', {}),
         \/ down' = down
         \/ \E m \in Messages : Push(<<m>>) /\ m.type \notin {"requested", "denied", "responded"}
  PROVE  Shown'
  <1>1. UNCHANGED <<call, asked, blocks, selects, pump>> /\ Mounted' \subseteq Mounted
    BY DEF client, Mounted
  <1>2. \E messages : /\ Gets(down, down', messages)
                      /\ \A x \in messages : x.type \notin {"requested", "denied", "responded"}
    <2>1. CASE down' = down
      <3>1. Gets(down, down', {})
        BY <2>1, WayGets
      <3>. QED
        BY <3>1
    <2>2. ASSUME NEW m \in Messages, Push(<<m>>), m.type \notin {"requested", "denied", "responded"}
          PROVE  \E messages : /\ Gets(down, down', messages)
                               /\ \A x \in messages : x.type \notin {"requested", "denied", "responded"}
      <3>1. Gets(down, down', {m})
        BY <2>2, WayGets
      <3>. QED
        BY <2>2, <3>1
    <2>. QED
      BY <2>1, <2>2
  <1>3. \A c \in Calls : Requested(c) => Requested(c)'
    <2>1. \A m \in Messages : <<m>> \in Seq(Messages)
      OBVIOUS
    <2>. QED
      BY <2>1, HasStays DEF Requested
  <1>. QED
    BY <1>1, <1>2, <1>3, PlainShown

LEMMA RunShown ==
  ASSUME TypeOK, Shown,
         HandleHandshake \/ HandleSend \/ HandleCompact \/ Ending \/ ReleaseLock \/ OtherSession
  PROVE  Shown'
  <1> USE DEF daemon
  <1>1. UNCHANGED <<call, asked, client>> /\ own' \subseteq own
    BY DEF HandleHandshake, HandleSend, HandleCompact, Handle, Ending, EndRun, FailRun, ReleaseLock,
           OtherSession, Daemon
  <1>2. Gets(up, up', {})
    <2>1. up' = up \/ \E op : Handle(op)
      BY DEF HandleHandshake, HandleSend, HandleCompact, Ending, EndRun, FailRun, ReleaseLock,
             OtherSession, Daemon
    <2>. QED
      BY <2>1, WayGets
  <1>3. \/ down' = down
        \/ \E m \in Messages : Push(<<m>>) /\ m.type \notin {"requested", "denied", "responded"}
    <2>1. \/ down' = down
          \/ \E t \in {"subscribed", "created", "failed", "refused", "waiting", "otherWaiting", "otherClosed"} :
                Push(<<Message(t, 0)>>)
      BY DEF HandleHandshake, HandleSend, HandleCompact, Ending, EndRun, FailRun, ReleaseLock, OtherSession
    <2>2. \A t \in {"subscribed", "created", "failed", "refused", "waiting", "otherWaiting", "otherClosed"} :
             Message(t, 0) \in Messages /\ Message(t, 0).type \notin {"requested", "denied", "responded"}
      BY MessageIsOne, MessageFields DEF SessionMessages, Answers
    <2>. QED
      BY <2>1, <2>2
  <1>. QED
    BY <1>1, <1>2, <1>3, PublishShown

LEMMA FinishCallShown ==
  ASSUME TypeOK, Shown, FinishCall
  PROVE  Shown'
  <1>1. PICK c \in Calls : /\ call[c] = "running" /\ call' = [call EXCEPT ![c] = "over"]
                           /\ Push(<<Message("finished", c)>>)
    BY DEF FinishCall
  <1>2. UNCHANGED <<blocks, selects, picked, own, asked, pump, up>>
    BY DEF FinishCall, Daemon, client
  <1>3. /\ \A b \in Calls : call'[b] = IF b = c THEN "over" ELSE call[b]
        /\ {b \in Calls : call'[b] = "asked"} = {b \in Calls : call[b] = "asked"}
    BY <1>1 DEF TypeOK
  <1>4. Message("finished", c) \in Messages /\ Message("finished", c).type = "finished"
    BY MessageIsOne, MessageFields DEF ToolMessages
  <1>5. Gets(up, up', {}) /\ Gets(down, down', {Message("finished", c)})
    BY <1>1, <1>2, <1>4, WayGets
  <1>6. \A b \in Calls : Requested(b) => Requested(b)'
    <2>1. <<Message("finished", c)>> \in Seq(Messages)
      BY <1>4
    <2>. QED
      BY <1>1, <2>1, HasStays DEF Requested
  <1>7. Mounted' = Mounted
    BY <1>2 DEF Mounted
  <1>8. Passes({}, {Message("finished", c)})
    BY <1>1, <1>2, <1>3, <1>4, <1>5, <1>6, <1>7 DEF Passes, Shown, InTurn
  <1>. QED
    BY <1>4, <1>8, PassesShown

\* Nothing is under way in a new daemon.
LEMMA StopShown ==
  ASSUME TypeOK, Shown, Stop
  PROVE  Shown'
  <1>1. UNCHANGED <<blocks, selects, picked, pump, down>> /\ up' = <<>> /\ own' = {} /\ asked' = <<>>
    BY DEF Stop, client
  <1>2. \A b \in Calls : call'[b] = IF call[b] = "unborn" THEN "unborn" ELSE "over"
    BY DEF Stop
  <1>3. Gets(up, up', {}) /\ Gets(down, down', {})
    BY <1>1, WayGets
  <1>4. Ascending(asked') /\ ToSet(asked') = {}
    BY <1>1 DEF Ascending, ToSet
  <1>5. Mounted' = Mounted
    BY <1>1 DEF Mounted
  <1>6. Passes({}, {})
    BY <1>1, <1>2, <1>3, <1>4, <1>5 DEF Passes
  <1>. QED
    BY <1>6, PassesShown

\* The user's answer arrives.
LEMMA HandleRespondShown ==
  ASSUME TypeOK, Shown, HandleRespond
  PROVE  Shown'
  <1> DEFINE c == Head(up).call
  <1>1. PICK op \in {"allow", "deny"} : Handle(op)
    BY DEF HandleRespond
  <1>2. c \in Born /\ Shut(c)
    <2>1. up \in Seq(Commands) /\ up # <<>> /\ Head(up).op = op
      BY <1>1 DEF Handle, TypeOK
    <2>2. 1 \in DOMAIN up /\ up[1] = Head(up)
      BY <2>1
    <2>3. Decides(up[1])
      BY <2>1, <2>2 DEF Decides
    <2>. QED
      BY <2>2, <2>3 DEF Shown, InTurn, Answered
  <1>3. PICK x \in {"running", "denied"} : call' = IF call[c] # "asked" THEN call ELSE [call EXCEPT ![c] = x]
    BY DEF HandleRespond
  <1>4. Push(<<Message("responded", c)>>) /\ asked' = Without(asked, c) /\ UNCHANGED own
    BY DEF HandleRespond
  <1> HIDE DEF c
  <1>5. UNCHANGED <<blocks, selects, picked, pump>>
    BY <1>1 DEF Handle, client
  <1>6. c \in Calls
    BY <1>2 DEF Born
  <1>7. /\ \A b \in Calls : call'[b] = IF b = c /\ call[c] = "asked" THEN x ELSE call[b]
        /\ {b \in Calls : call'[b] = "asked"} = {b \in Calls : call[b] = "asked"} \ {c}
    BY <1>3, <1>6 DEF TypeOK
  <1>8. Ascending(asked') /\ ToSet(asked') = ToSet(asked) \ {c}
    BY <1>4, WithoutOne DEF TypeOK, Shown, InTurn
  <1>9. /\ Message("responded", c) \in Messages /\ Message("responded", c).type = "responded"
        /\ Message("responded", c).call = c
    BY <1>6, MessageIsOne, MessageFields DEF Answers
  <1>10. Gets(up, up', {}) /\ Gets(down, down', {Message("responded", c)})
    BY <1>1, <1>4, <1>9, WayGets
  <1>11. \A b \in Calls : Requested(b) => Requested(b)'
    <2>1. <<Message("responded", c)>> \in Seq(Messages)
      BY <1>9
    <2>. QED
      BY <1>4, <2>1, HasStays DEF Requested
  <1>12. Mounted' = Mounted
    BY <1>5 DEF Mounted
  <1>13. ToSet(asked') = {b \in Calls : call'[b] = "asked"}
    BY <1>7, <1>8 DEF Shown, InTurn
  <1>14. \A b \in Calls : /\ call'[b] = "unborn" <=> call[b] = "unborn"
                          /\ call'[b] = "asked" => call[b] = "asked"
                          /\ call'[b] = "denied" => call[b] = "denied" \/ Shut(b)
                          /\ call[b] = "over" => call'[b] = "over"
    BY <1>2, <1>7
  <1>15. c \in Born /\ call'[c] # "asked"
    BY <1>2, <1>6, <1>7
  <1>16. Passes({}, {Message("responded", c)})
    BY <1>4, <1>5, <1>8, <1>9, <1>10, <1>11, <1>12, <1>13, <1>14, <1>15 DEF Passes
  <1>. QED
    BY <1>9, <1>16, PassesShown

\* The daemon gives a request up, in turn, or tells that the user denied it.
LEMMA DenyCallShown ==
  ASSUME TypeOK, Shown, DenyCall
  PROVE  Shown'
  <1>1. PICK c \in Calls :
          /\ call[c] = "denied" \/ (asked # <<>> /\ c = Head(asked))
          /\ call' = [call EXCEPT ![c] = "over"]
          /\ asked' = Without(asked, c)
          /\ Push(<<Message("denied", c), Message("finished", c)>>)
    BY DEF DenyCall
  <1> DEFINE d == Message("denied", c)
             f == Message("finished", c)
  <1>2. UNCHANGED <<blocks, selects, picked, own, pump, up>>
    BY DEF DenyCall, Daemon, client
  <1>3. /\ \A b \in Calls : call'[b] = IF b = c THEN "over" ELSE call[b]
        /\ {b \in Calls : call'[b] = "asked"} = {b \in Calls : call[b] = "asked"} \ {c}
    BY <1>1 DEF TypeOK
  <1>4. d \in Messages /\ d.type = "denied" /\ f \in Messages /\ f.type = "finished"
    BY MessageIsOne, MessageFields DEF ToolMessages, PermissionMessages
  <1>5. Gets(up, up', {}) /\ Gets(down, down', {d, f})
    BY <1>1, <1>2, <1>4, WayGets
  <1>6. \A b \in Calls : Requested(b) => Requested(b)'
    <2>1. <<d, f>> \in Seq(Messages)
      BY <1>4
    <2>. QED
      BY <1>1, <2>1, HasStays DEF Requested
  <1>7. Mounted' = Mounted
    BY <1>2 DEF Mounted
  <1>8. Ascending(asked') /\ ToSet(asked') = ToSet(asked) \ {c}
    BY <1>1, WithoutOne DEF TypeOK, Shown, InTurn
  <1>9. \/ call[c] = "denied" /\ Shut(c)
        \/ call[c] = "asked" /\ \A b \in 1..c-1 : call[b] # "asked"
    <2>1. CASE call[c] = "denied"
      BY <2>1 DEF Shown, Answered
    <2>2. CASE asked # <<>> /\ c = Head(asked)
      <3>1. asked \in Seq(Calls) /\ ToSet(asked) = {b \in Calls : call[b] = "asked"}
        BY DEF TypeOK, Shown, InTurn
      <3>2. 1 \in DOMAIN asked /\ asked[1] = c /\ \A i \in DOMAIN asked : i \in Nat /\ (i = 1 \/ 1 < i)
        BY <2>2, <3>1
      <3>3. call[c] = "asked"
        BY <3>1, <3>2 DEF ToSet
      <3>4. ASSUME NEW b \in 1..c-1, call[b] = "asked" PROVE FALSE
        <4>1. b \in Calls
          BY TuiAssumption DEF Calls
        <4>2. PICK i \in DOMAIN asked : asked[i] = b
          BY <3>1, <3>4, <4>1 DEF ToSet
        <4>3. c = b \/ c < b
          BY <3>2, <4>2 DEF Shown, InTurn, Ascending
        <4>. QED
          BY <4>3, TuiAssumption DEF Calls
      <3>. QED
        BY <3>3, <3>4
    <2>. QED
      BY <1>1, <2>1, <2>2
  <1>10. ToSet(asked') = {b \in Calls : call'[b] = "asked"}
    BY <1>3, <1>8 DEF Shown, InTurn
  <1>11. Passes({}, {d, f})
    <2> HIDE DEF d, f
    <2>1. call[c] \in {"asked", "denied"}
      BY <1>9
    <2>2. \A b \in Calls : /\ call'[b] = "unborn" <=> call[b] = "unborn"
                           /\ call'[b] = "asked" => call[b] = "asked"
                           /\ call'[b] = "denied" => call[b] = "denied"
                           /\ call[b] = "over" => call'[b] = "over"
      BY <1>3, <2>1
    <2>3. Ascending(asked')
      BY <1>8 DEF Shown, InTurn
    <2>. QED
      BY <1>2, <1>4, <1>5, <1>6, <1>7, <1>10, <2>2, <2>3 DEF Passes
  <1>12. InTurn' /\ Answered' /\ RequestsShown'
    BY <1>11, PassesInTurn
  <1>13. \A b \in Calls : Shut(b) => Shut(b)'
    BY <1>11, PassesRequests
  <1>14. \A b \in Calls : Shut(b)' => Shut(b)
    BY <1>2, <1>6 DEF Shut
  <1>15. ASSUME NEW b \in Calls, Denial(b)' PROVE b = c \/ Denial(b)
    <2>1. Message("denied", b) \in {d, f} \/ Has(down, Message("denied", b))
      BY <1>5, <1>15, GetsHas DEF Denial
    <2>. QED
      BY <2>1, MessageFields DEF Denial
  <1>16. ~Denial(c)
    BY <1>9 DEF Shown, DeniedInTurn
  <1>17. DeniedInTurn'
    <2>1. \A b \in Calls : Denial(b)' => call'[b] = "over"
      BY <1>3, <1>15 DEF Shown, DeniedInTurn
    <2>2. /\ down \in Seq(Messages)
          /\ \A i \in DOMAIN down' : \/ i \in DOMAIN down /\ down'[i] = down[i]
                                     \/ i = Len(down) + 1 /\ down'[i] = d
                                     \/ i = Len(down) + 2 /\ down'[i] = f
      <3>1. down \in Seq(Messages) /\ down' = down \o <<d, f>>
        BY <1>1 DEF Push, TypeOK
      <3> HIDE DEF d, f
      <3>. QED
        BY <3>1, <1>4
    <2>3. ASSUME NEW i \in DOMAIN down', NEW b \in Calls, down'[i] = Message("denied", b)
          PROVE  (i \in DOMAIN down /\ down[i] = Message("denied", b)) \/ (b = c /\ i = Len(down) + 1)
      BY <2>2, <2>3, MessageFields
    <2>4. ASSUME NEW i \in DOMAIN down', NEW e \in Calls, down'[i] = Message("denied", e), ~Shut(e)',
                 NEW b \in 1..e-1
          PROVE  /\ call'[b] # "asked"
                 /\ \A j \in DOMAIN down' : i < j /\ down'[j] = Message("denied", b) => Shut(b)'
      <3>0. b \in Calls /\ b # e
        BY TuiAssumption DEF Calls
      <3>1. ~Shut(e)
        BY <1>13, <2>4
      <3>2. CASE i \in DOMAIN down /\ down[i] = Message("denied", e)
        <4>1. call[b] # "asked" /\ \A j \in DOMAIN down : i < j /\ down[j] = Message("denied", b) => Shut(b)
          BY <3>1, <3>2 DEF Shown, DeniedInTurn
        <4>2. call'[b] # "asked"
          BY <1>3, <3>0, <4>1
        <4>3. ASSUME NEW j \in DOMAIN down', i < j, down'[j] = Message("denied", b) PROVE Shut(b)
          <5>1. CASE j \in DOMAIN down /\ down[j] = Message("denied", b)
            BY <4>1, <4>3, <5>1
          <5>2. CASE b = c
            BY <1>9, <4>1, <5>2
          <5>. QED
            BY <2>3, <3>0, <4>3, <5>1, <5>2
        <4>. QED
          BY <1>13, <3>0, <4>2, <4>3
      <3>3. CASE e = c /\ i = Len(down) + 1
        <4>1. \A a \in 1..e-1 : call[a] # "asked"
          BY <1>9, <3>1, <3>3
        <4>2. call'[b] # "asked"
          BY <1>3, <3>0, <3>3, <4>1
        <4>3. ASSUME NEW j \in DOMAIN down', i < j, down'[j] = Message("denied", b) PROVE FALSE
          <5>1. j \in DOMAIN down
            BY <2>3, <3>0, <3>3, <4>3
          <5>. QED
            BY <2>2, <3>3, <4>3, <5>1
        <4>. QED
          BY <4>2, <4>3
      <3>. QED
        BY <2>3, <2>4, <3>2, <3>3
    <2>. QED
      BY <2>1, <2>4 DEF DeniedInTurn
  <1>18. SelectsLeft'
    <2> SUFFICES ASSUME NEW b \in blocks', call'[b] = "asked" \/ Denial(b)' PROVE b \in ToSet(selects')
      BY DEF SelectsLeft
    <2>1. b \in blocks /\ b \in Calls /\ selects' = selects
      BY <1>2 DEF Shown, InTurn, Born
    <2>2. CASE b = c
      <3>1. call[c] = "asked"
        BY <1>9, <2>1, <2>2 DEF Shut
      <3>. QED
        BY <2>1, <2>2, <3>1 DEF Shown, SelectsLeft
    <2>3. CASE b # c
      BY <1>3, <1>15, <2>1, <2>3 DEF Shown, SelectsLeft
    <2>. QED
      BY <2>2, <2>3
  <1>. QED
    BY <1>12, <1>17, <1>18 DEF Shown

\* A call starts, and asks.
LEMMA StartCallShown ==
  ASSUME TypeOK, Shown, StartCall
  PROVE  Shown'
  <1>1. PICK c \in Calls :
          /\ call[c] = "unborn" /\ \A b \in 1..c-1 : call[b] # "unborn"
          /\ own' \subseteq own \cup {c}
          /\ \/ /\ call' = [call EXCEPT ![c] = "running"]
                /\ Push(<<Message("started", c)>>)
                /\ UNCHANGED asked
             \/ /\ call' = [call EXCEPT ![c] = "asked"]
                /\ Push(<<Message("started", c), Message("requested", c)>>)
                /\ asked' = Append(asked, c)
    BY DEF StartCall
  <1>2. UNCHANGED <<blocks, selects, picked, pump, up>>
    BY DEF StartCall, Daemon, client
  <1> DEFINE s == Message("started", c)
             r == Message("requested", c)
  <1>3. /\ s \in Messages /\ r \in Messages
        /\ <<s>> \in Seq(Messages) /\ <<s, r>> \in Seq(Messages)
    <2>1. s \in Messages /\ r \in Messages
      BY MessageIsOne DEF ToolMessages, PermissionMessages
    <2> HIDE DEF s, r
    <2>. QED
      BY <2>1
  <1>4. down \in Seq(Messages) /\ asked \in Seq(Calls)
    BY DEF TypeOK
  <1>5. PICK n \in {<<s>>, <<s, r>>} :
          /\ Push(n)
          /\ n = <<s>> => call' = [call EXCEPT ![c] = "running"] /\ UNCHANGED asked
          /\ n # <<s>> => call' = [call EXCEPT ![c] = "asked"] /\ n = <<s, r>> /\ asked' = Append(asked, c)
    <2>1. <<s>> # <<s, r>>
      OBVIOUS
    <2> HIDE DEF s, r
    <2>. QED
      BY <1>1, <2>1 DEF s, r
  <1>6. c \notin Born /\ (\A b \in Born : b < c) /\ Born' = Born \cup {c}
    <2>1. c \notin Born
      BY <1>1 DEF Born
    <2>2. ASSUME NEW b \in Born PROVE b < c
      <3>1. b \in Nat /\ c \in Nat /\ c >= 1
        BY TuiAssumption DEF Born, Calls
      <3>2. ASSUME c < b PROVE FALSE
        <4>1. c \in 1..b-1
          BY <3>1, <3>2
        <4>. QED
          BY <2>1, <4>1 DEF Shown, InTurn
      <3>. QED
        BY <2>1, <3>1, <3>2
    <2>3. Born' = Born \cup {c}
      BY <1>5 DEF Born, TypeOK
    <2>. QED
      BY <2>1, <2>2, <2>3
  <1>7. \A b \in Calls : b # c => call'[b] = call[b]
    BY <1>5 DEF TypeOK
  <1>8. (call'[c] = "running" /\ n = <<s>>) \/ (call'[c] = "asked" /\ n = <<s, r>>)
    <2> HIDE DEF s, r
    <2>1. \A x : [call EXCEPT ![c] = x][c] = x
      BY DEF TypeOK
    <2>. QED
      BY <1>5, <2>1
  <1>9. \A i \in DOMAIN down' : /\ i \in Nat
                                /\ \/ i \in DOMAIN down /\ down'[i] = down[i] /\ i <= Len(down)
                                   \/ i > Len(down) /\ down'[i] = s
                                   \/ i > Len(down) /\ down'[i] = r /\ n = <<s, r>>
    <2> HIDE DEF s, r
    <2>1. down' = down \o n
      BY <1>5 DEF Push
    <2>2. CASE n = <<s>>
      BY <1>3, <1>4, <2>1, <2>2
    <2>3. CASE n = <<s, r>>
      BY <1>3, <1>4, <2>1, <2>3
    <2>. QED
      BY <2>2, <2>3
  <1>10. \A x : Has(down, x) => Has(down', x)
    <2> HIDE DEF s, r
    <2>. QED
      BY <1>3, <1>5, HasStays
  <1>11. \A x : Has(down', x) => Has(down, x) \/ x = s \/ (x = r /\ call'[c] = "asked")
    <2>1. <<s>> # <<s, r>>
      OBVIOUS
    <2>. QED
      BY <1>8, <1>9, <2>1 DEF Has
  <1>12. \A b \in Calls : /\ Requested(b)' => Requested(b) \/ (b = c /\ call'[c] = "asked")
                          /\ Requested(b) => Requested(b)'
                          /\ Responded(b)' => Responded(b)
                          /\ Denial(b)' => Denial(b)
    BY <1>10, <1>11, MessageFields DEF Requested, Responded, Denial
  <1>13. call'[c] = "asked" => Requested(c)'
    <2>1. ASSUME n = <<s, r>> PROVE Has(down', r)
      <3> HIDE DEF s, r
      <3>1. down' = down \o n
        BY <1>5 DEF Push
      <3>2. Len(down) + 2 \in DOMAIN (down \o <<s, r>>) /\ (down \o <<s, r>>)[Len(down) + 2] = r
        BY <1>3, <1>4
      <3>. QED
        BY <2>1, <3>1, <3>2 DEF Has
    <2>2. call'[c] = "asked" => n = <<s, r>>
      BY <1>8
    <2>. QED
      BY <2>1, <2>2 DEF Requested
  <1>14. Mounted' = Mounted
    BY <1>2 DEF Mounted
  <1>15. \A b \in Calls : b # c => (Shut(b) <=> Shut(b)')
    BY <1>2, <1>12 DEF Shut
  <1>16. Ascending(asked') /\ ToSet(asked') = {b \in Calls : call'[b] = "asked"}
    <2>0. Ascending(asked) /\ ToSet(asked) = {b \in Calls : call[b] = "asked"} /\ call[c] = "unborn"
      BY <1>1 DEF Shown, InTurn
    <2>1. CASE asked' = asked /\ call'[c] = "running"
      BY <1>7, <2>0, <2>1
    <2>2. CASE asked' = Append(asked, c) /\ call'[c] = "asked"
      <3>1. \A i \in DOMAIN asked : asked[i] < c
        <4>1. \A i \in DOMAIN asked : asked[i] \in Calls /\ call[asked[i]] = "asked"
          BY <1>4, <2>0 DEF ToSet
        <4>. QED
          BY <1>6, <4>1 DEF Born
      <3>2. /\ \A i \in DOMAIN asked' : /\ i \in Nat
                                        /\ \/ i \in DOMAIN asked /\ asked'[i] = asked[i] /\ i <= Len(asked)
                                           \/ i = Len(asked) + 1 /\ asked'[i] = c
            /\ \A i \in DOMAIN asked : i \in DOMAIN asked' /\ asked'[i] = asked[i]
            /\ Len(asked) + 1 \in DOMAIN asked' /\ asked'[Len(asked) + 1] = c /\ Len(asked) \in Nat
        <4>1. Len(asked') = Len(asked) + 1 /\ DOMAIN asked' = 1..Len(asked) + 1 /\ Len(asked) \in Nat
          BY <1>4, <2>2
        <4>2. asked'[Len(asked) + 1] = c /\ \A i \in 1..Len(asked) : asked'[i] = asked[i]
          BY <1>4, <2>2
        <4>3. DOMAIN asked = 1..Len(asked)
          BY <1>4
        <4>. QED
          BY <4>1, <4>2, <4>3
      <3>3. Ascending(asked')
        BY <2>0, <3>1, <3>2 DEF Ascending
      <3>4. ToSet(asked') = ToSet(asked) \cup {c}
        BY <3>2 DEF ToSet
      <3>. QED
        BY <1>7, <2>0, <2>2, <3>3, <3>4
    <2>. QED
      BY <1>5, <1>8, <2>1, <2>2
  <1>17. InTurn'
    <2>1. \A b \in Born' : 1..b-1 \subseteq Born'
      <3>1. 1..c-1 \subseteq Born
        <4>1. 1..c-1 \subseteq Calls
          BY TuiAssumption DEF Calls
        <4>. QED
          BY <1>1, <4>1 DEF Born
      <3>. QED
        BY <1>6, <3>1 DEF Shown, InTurn
    <2>2. own' \cup blocks' \cup Mounted' \subseteq Born'
      BY <1>1, <1>2, <1>6, <1>14 DEF Shown, InTurn
    <2>3. \A i \in DOMAIN up' : Decides(up'[i]) => up'[i].call \in Born'
      BY <1>2, <1>6 DEF Shown, InTurn
    <2>4. \A b \in Calls : Requested(b)' \/ Responded(b)' => b \in Born'
      BY <1>6, <1>12 DEF Shown, InTurn
    <2>5. Ascending(selects')
      BY <1>2 DEF Shown, InTurn
    <2>6. ASSUME NEW i \in DOMAIN down', NEW j \in DOMAIN down', NEW a \in Calls, NEW b \in Calls,
                 i < j, down'[i] = Message("requested", a), down'[j] = Message("requested", b)
          PROVE  a < b
      <3>0. s # Message("requested", a) /\ s # Message("requested", b) /\ Len(down) \in Nat
        BY <1>4, MessageFields
      <3>1. CASE j \in DOMAIN down /\ down'[j] = down[j] /\ j <= Len(down)
        <4>1. i \in DOMAIN down /\ down'[i] = down[i]
          BY <1>9, <2>6, <3>0, <3>1
        <4>. QED
          BY <2>6, <3>1, <4>1 DEF Shown, InTurn
      <3>2. CASE j > Len(down) /\ down'[j] = r
        <4>1. b = c
          BY <2>6, <3>2, MessageFields
        <4>2. CASE i \in DOMAIN down /\ down'[i] = down[i]
          <5>1. Requested(a)
            BY <2>6, <4>2 DEF Requested, Has
          <5>. QED
            BY <1>6, <4>1, <5>1 DEF Shown, InTurn
        <4>3. CASE i > Len(down) /\ down'[i] = r
          <5>1. down' = down \o <<s, r>>
            <6>1. s # r
              BY MessageFields
            <6>2. n = <<s, r>>
              BY <1>9, <3>0, <3>2, <6>1
            <6>. QED
              BY <1>5, <6>2 DEF Push
          <5>2. i \in 1..Len(down) + 2 /\ j \in 1..Len(down) + 2
            <6> HIDE DEF s, r
            <6>. QED
              BY <1>3, <1>4, <5>1
          <5>3. i = Len(down) + 1
            BY <2>6, <3>0, <4>3, <5>2
          <5>4. down'[i] = s
            <6> HIDE DEF s, r
            <6>. QED
              BY <1>3, <1>4, <5>1, <5>3
          <5>. QED
            BY <2>6, <3>0, <5>4
        <4>. QED
          BY <1>9, <2>6, <3>0, <4>2, <4>3
      <3>. QED
        BY <1>9, <2>6, <3>0, <3>1, <3>2
    <2>7. \A a \in Mounted' : \A b \in Calls : Requested(b)' => a < b
      BY <1>6, <1>12, <1>14 DEF Shown, InTurn
    <2>. QED
      BY <1>16, <2>1, <2>2, <2>3, <2>4, <2>5, <2>6, <2>7 DEF InTurn
  <1>18. Answered'
    <2>1. ASSUME NEW i \in DOMAIN up', Decides(up'[i]), NEW b, b = up'[i].call PROVE Shut(b)'
      <3>1. b \in Born /\ Shut(b)
        BY <1>2, <2>1 DEF Shown, InTurn, Answered
      <3>. QED
        BY <1>6, <1>15, <3>1 DEF Born
    <2>2. \A i \in DOMAIN up' : Decides(up'[i]) =>
             up'[i].call \notin blocks' /\ ~Has(down', Message("requested", up'[i].call))
      BY <2>1 DEF Shut, Requested
    <2>3. \A b \in Calls : call'[b] = "denied" => Shut(b)'
      BY <1>7, <1>8, <1>15 DEF Shown, Answered
    <2>4. \A b \in Calls : Responded(b)' => call'[b] # "asked"
      BY <1>6, <1>7, <1>12 DEF Shown, InTurn, Answered
    <2>. QED
      BY <2>2, <2>3, <2>4 DEF Answered, Shut, Requested
  <1>19. ~Denial(c)
    BY <1>1 DEF Shown, DeniedInTurn
  <1>20. DeniedInTurn'
    <2>1. \A b \in Calls : Denial(b)' => call'[b] = "over"
      BY <1>7, <1>12, <1>19 DEF Shown, DeniedInTurn
    <2>2. ASSUME NEW i \in DOMAIN down', NEW e \in Calls, down'[i] = Message("denied", e), ~Shut(e)',
                 NEW b \in 1..e-1
          PROVE  /\ call'[b] # "asked"
                 /\ \A j \in DOMAIN down' : i < j /\ down'[j] = Message("denied", b) => Shut(b)'
      <3>1. \A j \in DOMAIN down' : \A a \in Calls : down'[j] = Message("denied", a) =>
               j \in DOMAIN down /\ down[j] = Message("denied", a)
        BY <1>9, MessageFields
      <3>2. i \in DOMAIN down /\ down[i] = Message("denied", e) /\ Denial(e)
        BY <2>2, <3>1 DEF Denial, Has
      <3>3. e \in Born /\ e < c
        BY <1>6, <3>2 DEF Shown, DeniedInTurn, Born
      <3>4. b \in Calls /\ b # c /\ e # c
        BY <3>3, TuiAssumption DEF Calls
      <3>5. ~Shut(e)
        BY <1>15, <2>2, <3>4
      <3>6. call[b] # "asked" /\ \A j \in DOMAIN down : i < j /\ down[j] = Message("denied", b) => Shut(b)
        BY <3>2, <3>5 DEF Shown, DeniedInTurn
      <3>. QED
        BY <1>7, <1>15, <3>1, <3>4, <3>6
    <2>. QED
      BY <2>1, <2>2 DEF DeniedInTurn
  <1>21. SelectsLeft'
    <2> SUFFICES ASSUME NEW b \in blocks', call'[b] = "asked" \/ Denial(b)' PROVE b \in ToSet(selects')
      BY DEF SelectsLeft
    <2>1. b \in blocks /\ b \in Calls /\ b # c /\ selects' = selects
      BY <1>2, <1>6 DEF Shown, InTurn, Born
    <2>. QED
      BY <1>7, <1>12, <2>1 DEF Shown, SelectsLeft
  <1>22. RequestsShown'
    <2> SUFFICES ASSUME NEW b \in Calls, call'[b] = "asked"
                 PROVE Requested(b)' \/ (b \in blocks' /\ b \in ToSet(selects')) \/ pump' \in {b, Gone}
      BY DEF RequestsShown, Requested, Has
    <2>1. CASE b = c
      BY <1>13, <2>1
    <2>2. CASE b # c
      <3>1. Requested(b) \/ (b \in blocks /\ b \in ToSet(selects)) \/ pump \in {b, Gone}
        BY <1>7, <2>2 DEF Shown, RequestsShown, Requested, Has
      <3>. QED
        BY <1>2, <1>12, <3>1
    <2>. QED
      BY <2>1, <2>2
  <1>. QED
    BY <1>17, <1>18, <1>20, <1>21, <1>22 DEF Shown

\* A request is shown: its select is the last one mounted.
LEMMA OnPermissionRequestedShown ==
  ASSUME TypeOK, Shown, OnPermissionRequested
  PROVE  Shown'
  <1>1. PICK c \in Calls :
          /\ Dispatch(Message("requested", c))
          /\ blocks' = blocks \cup {c} /\ selects' = Append(selects, c)
          /\ UNCHANGED <<up, pump>>
    BY DEF OnPermissionRequested, AddPermissionBlock, MountSelect
  <1> DEFINE r == Message("requested", c)
  <1>2. /\ UNCHANGED <<call, own, asked, picked>> /\ Has(down, r)
        /\ 1 \in DOMAIN down /\ down[1] = r
        /\ \A i \in DOMAIN down' : i \in Nat /\ i + 1 \in DOMAIN down /\ down'[i] = down[i + 1] /\ 1 < i + 1
        /\ \A x : Has(down', x) => Has(down, x)
    BY <1>1, Came
  <1>3. c \in Born /\ Requested(c) /\ Born' = Born
    BY <1>2 DEF Requested, Shown, InTurn, Born
  <1>4. \A b \in Calls : /\ Requested(b)' => Requested(b) /\ c < b
                         /\ Requested(b) => b = c \/ Requested(b)'
                         /\ Responded(b)' => Responded(b)
                         /\ Denial(b)' => Denial(b)
    <2>1. ASSUME NEW b \in Calls, Requested(b)' PROVE c < b
      <3>1. PICK i \in DOMAIN down' : down'[i] = Message("requested", b)
        BY <2>1 DEF Requested, Has
      <3>2. i + 1 \in DOMAIN down /\ down[i + 1] = Message("requested", b) /\ 1 < i + 1
        BY <1>2, <3>1
      <3>. QED
        BY <1>2, <3>2 DEF Shown, InTurn
    <2>2. ASSUME NEW b \in Calls, Requested(b), b # c PROVE Requested(b)'
      BY <1>1, <2>2, HasStays, MessageFields DEF Requested
    <2>. QED
      BY <1>2, <2>1, <2>2 DEF Requested, Responded, Denial
  <1>5. ~Requested(c)'
    BY <1>4, TuiAssumption DEF Calls
  <1>6. \A b \in Calls : Shut(b) => b # c /\ Shut(b)'
    BY <1>1, <1>3, <1>4 DEF Shut
  <1>7. selects \in Seq(Calls)
    BY DEF TypeOK
  <1>8. /\ \A i \in DOMAIN selects' : /\ i \in Nat
                                      /\ \/ i \in DOMAIN selects /\ selects'[i] = selects[i] /\ i <= Len(selects)
                                         \/ i = Len(selects) + 1 /\ selects'[i] = c
        /\ \A i \in DOMAIN selects : i \in DOMAIN selects' /\ selects'[i] = selects[i]
        /\ Len(selects) + 1 \in DOMAIN selects' /\ selects'[Len(selects) + 1] = c /\ Len(selects) \in Nat
    <2>1. Len(selects') = Len(selects) + 1 /\ DOMAIN selects' = 1..Len(selects) + 1 /\ Len(selects) \in Nat
      BY <1>1, <1>7
    <2>2. selects'[Len(selects) + 1] = c /\ \A i \in 1..Len(selects) : selects'[i] = selects[i]
      BY <1>1, <1>7
    <2>3. DOMAIN selects = 1..Len(selects)
      BY <1>7
    <2>. QED
      BY <2>1, <2>2, <2>3
  <1>9. ToSet(selects') = ToSet(selects) \cup {c} /\ Mounted' = Mounted \cup {c}
    <2>1. ToSet(selects') = ToSet(selects) \cup {c}
      BY <1>8 DEF ToSet
    <2>. QED
      BY <1>2, <2>1 DEF Mounted
  <1>10. \A b \in Mounted : b < c
    BY <1>3 DEF Shown, InTurn
  <1>11. InTurn'
    <2>1. \A b \in Born' : 1..b-1 \subseteq Born'
      BY <1>3 DEF Shown, InTurn
    <2>2. own' \cup blocks' \cup Mounted' \subseteq Born'
      BY <1>1, <1>2, <1>3, <1>9 DEF Shown, InTurn
    <2>3. \A i \in DOMAIN up' : Decides(up'[i]) => up'[i].call \in Born'
      BY <1>1, <1>3 DEF Shown, InTurn
    <2>4. \A b \in Calls : Requested(b)' \/ Responded(b)' => b \in Born'
      BY <1>3, <1>4 DEF Shown, InTurn
    <2>5. Ascending(asked') /\ ToSet(asked') = {b \in Calls : call'[b] = "asked"}
      BY <1>2 DEF Shown, InTurn
    <2>6. Ascending(selects')
      <3>1. \A i \in DOMAIN selects : selects[i] < c
        BY <1>10 DEF Mounted, ToSet
      <3>2. Ascending(selects)
        BY DEF Shown, InTurn
      <3>. QED
        BY <1>8, <3>1, <3>2 DEF Ascending
    <2>7. ASSUME NEW i \in DOMAIN down', NEW j \in DOMAIN down', NEW a \in Calls, NEW b \in Calls,
                 i < j, down'[i] = Message("requested", a), down'[j] = Message("requested", b)
          PROVE  a < b
      <3>1. /\ i + 1 \in DOMAIN down /\ down[i + 1] = Message("requested", a)
            /\ j + 1 \in DOMAIN down /\ down[j + 1] = Message("requested", b)
            /\ i + 1 < j + 1
        BY <1>2, <2>7
      <3>. QED
        BY <3>1 DEF Shown, InTurn
    <2>8. \A a \in Mounted' : \A b \in Calls : Requested(b)' => a < b
      BY <1>4, <1>9 DEF Shown, InTurn
    <2>. QED
      BY <2>1, <2>2, <2>3, <2>4, <2>5, <2>6, <2>7, <2>8 DEF InTurn
  <1>12. Answered'
    <2>1. ASSUME NEW i \in DOMAIN up', Decides(up'[i]), NEW b, b = up'[i].call PROVE Shut(b)'
      <3>1. b \in Born /\ Shut(b)
        BY <1>1, <2>1 DEF Shown, InTurn, Answered
      <3>. QED
        BY <1>6, <3>1 DEF Born
    <2>2. \A i \in DOMAIN up' : Decides(up'[i]) =>
             up'[i].call \notin blocks' /\ ~Has(down', Message("requested", up'[i].call))
      BY <2>1 DEF Shut, Requested
    <2>3. \A b \in Calls : call'[b] = "denied" => Shut(b)'
      BY <1>2, <1>6 DEF Shown, Answered
    <2>4. \A b \in Calls : Responded(b)' => call'[b] # "asked"
      BY <1>2, <1>4 DEF Shown, Answered
    <2>. QED
      BY <2>2, <2>3, <2>4 DEF Answered, Shut, Requested
  <1>13. DeniedInTurn'
    <2>1. \A b \in Calls : Denial(b)' => call'[b] = "over"
      BY <1>2, <1>4 DEF Shown, DeniedInTurn
    <2>2. ASSUME NEW i \in DOMAIN down', NEW e \in Calls, down'[i] = Message("denied", e), ~Shut(e)',
                 NEW b \in 1..e-1
          PROVE  /\ call'[b] # "asked"
                 /\ \A j \in DOMAIN down' : i < j /\ down'[j] = Message("denied", b) => Shut(b)'
      <3>1. i + 1 \in DOMAIN down /\ down[i + 1] = Message("denied", e) /\ ~Shut(e)
        BY <1>2, <1>6, <2>2
      <3>2. b \in Calls
        BY TuiAssumption DEF Calls
      <3>3. call[b] # "asked" /\ \A j \in DOMAIN down : i + 1 < j /\ down[j] = Message("denied", b) => Shut(b)
        BY <3>1 DEF Shown, DeniedInTurn
      <3>4. \A j \in DOMAIN down' : i < j /\ down'[j] = Message("denied", b) =>
               j + 1 \in DOMAIN down /\ i + 1 < j + 1 /\ down[j + 1] = Message("denied", b)
        BY <1>2, <2>2
      <3>. QED
        BY <1>2, <1>6, <3>2, <3>3, <3>4
    <2>. QED
      BY <2>1, <2>2 DEF DeniedInTurn
  <1>14. SelectsLeft'
    BY <1>1, <1>2, <1>4, <1>9 DEF Shown, InTurn, Born, SelectsLeft
  <1>15. RequestsShown'
    <2> SUFFICES ASSUME NEW b \in Calls, call'[b] = "asked"
                 PROVE Requested(b)' \/ (b \in blocks' /\ b \in ToSet(selects')) \/ pump' \in {b, Gone}
      BY DEF RequestsShown, Requested, Has
    <2>1. Requested(b) \/ (b \in blocks /\ b \in ToSet(selects)) \/ pump \in {b, Gone}
      BY <1>2 DEF Shown, RequestsShown, Requested, Has
    <2>. QED
      BY <1>1, <1>4, <1>9, <2>1
  <1>. QED
    BY <1>11, <1>12, <1>13, <1>14, <1>15 DEF Shown

\* A request leaves the screen: none that waits loses its select with it.
LEMMA ClosedShown ==
  ASSUME TypeOK, Shown, NEW c \in Calls, blocks' = blocks \ {c},
         NEW commands, Gets(up, up', commands),
         \A x \in commands : Decides(x) => x.call = c /\ c \in Born /\ ~Requested(c),
         Gets(down, down', {}), \A b \in Calls : Requested(b) => Requested(b)',
         UNCHANGED <<call, own, asked>>, Mounted' \subseteq Mounted, Ascending(selects'),
         \A b \in blocks' : b \in ToSet(selects) /\ (call[b] = "asked" \/ Denial(b)') => b \in ToSet(selects'),
         \A b \in Calls : call[b] = "asked" /\ (b = c \/ pump \in {b, Gone}) => pump' \in {b, Gone}
  PROVE  Shown'
  <1>1. PICK k \in Nat : \A i \in DOMAIN down' : i \in Nat /\ i + k \in DOMAIN down /\ down'[i] = down[i + k]
    BY DEF Gets
  <1>2. \A x : Has(down', x) => Has(down, x)
    BY <1>1 DEF Has
  <1>3. /\ \A b \in Calls : /\ Requested(b)' <=> Requested(b)
                            /\ Responded(b)' => Responded(b)
                            /\ Denial(b)' => Denial(b)
        /\ \A b \in Calls : Shut(b) => Shut(b)'
        /\ Born' = Born
    BY <1>2 DEF Requested, Responded, Denial, Shut, Born
  <1>4. ASSUME NEW i \in DOMAIN up', Decides(up'[i]), NEW b, b = up'[i].call PROVE b \in Born /\ Shut(b)'
    <2>1. PICK n \in Nat : \A j \in DOMAIN up' : up'[j] \in commands \/ (j + n \in DOMAIN up /\ up'[j] = up[j + n])
      BY DEF Gets
    <2>2. CASE up'[i] \in commands
      BY <1>3, <1>4, <2>2 DEF Shut
    <2>3. CASE i + n \in DOMAIN up /\ up'[i] = up[i + n]
      <3>1. b \in Born /\ Shut(b)
        BY <1>4, <2>3 DEF Shown, InTurn, Answered
      <3>. QED
        BY <1>3, <3>1 DEF Born
    <2>. QED
      BY <2>1, <2>2, <2>3
  <1>5. InTurn'
    <2>1. \A b \in Born' : 1..b-1 \subseteq Born'
      BY <1>3 DEF Shown, InTurn
    <2>2. own' \cup blocks' \cup Mounted' \subseteq Born'
      BY <1>3 DEF Shown, InTurn
    <2>3. \A i \in DOMAIN up' : Decides(up'[i]) => up'[i].call \in Born'
      BY <1>3, <1>4
    <2>4. \A b \in Calls : Requested(b)' \/ Responded(b)' => b \in Born'
      BY <1>3 DEF Shown, InTurn
    <2>5. Ascending(asked') /\ ToSet(asked') = {b \in Calls : call'[b] = "asked"}
      BY DEF Shown, InTurn
    <2>6. ASSUME NEW i \in DOMAIN down', NEW j \in DOMAIN down', NEW a \in Calls, NEW b \in Calls,
                 i < j, down'[i] = Message("requested", a), down'[j] = Message("requested", b)
          PROVE  a < b
      <3>1. /\ i + k \in DOMAIN down /\ down[i + k] = Message("requested", a)
            /\ j + k \in DOMAIN down /\ down[j + k] = Message("requested", b)
            /\ i + k < j + k
        BY <1>1, <2>6
      <3>. QED
        BY <3>1 DEF Shown, InTurn
    <2>7. \A a \in Mounted' : \A b \in Calls : Requested(b)' => a < b
      BY <1>3 DEF Shown, InTurn
    <2>. QED
      BY <2>1, <2>2, <2>3, <2>4, <2>5, <2>6, <2>7 DEF InTurn
  <1>6. Answered'
    <2>1. \A i \in DOMAIN up' : Decides(up'[i]) =>
             up'[i].call \notin blocks' /\ ~Has(down', Message("requested", up'[i].call))
      BY <1>4 DEF Shut, Requested
    <2>2. \A b \in Calls : call'[b] = "denied" => Shut(b)'
      BY <1>3 DEF Shown, Answered
    <2>3. \A b \in Calls : Responded(b)' => call'[b] # "asked"
      BY <1>3 DEF Shown, Answered
    <2>. QED
      BY <2>1, <2>2, <2>3 DEF Answered, Shut, Requested
  <1>7. DeniedInTurn'
    <2>1. \A b \in Calls : Denial(b)' => call'[b] = "over"
      BY <1>3 DEF Shown, DeniedInTurn
    <2>2. ASSUME NEW i \in DOMAIN down', NEW e \in Calls, down'[i] = Message("denied", e), ~Shut(e)',
                 NEW b \in 1..e-1
          PROVE  /\ call'[b] # "asked"
                 /\ \A j \in DOMAIN down' : i < j /\ down'[j] = Message("denied", b) => Shut(b)'
      <3>1. i + k \in DOMAIN down /\ down[i + k] = Message("denied", e) /\ ~Shut(e)
        BY <1>1, <1>3, <2>2
      <3>2. b \in Calls
        BY TuiAssumption DEF Calls
      <3>3. call[b] # "asked" /\ \A j \in DOMAIN down : i + k < j /\ down[j] = Message("denied", b) => Shut(b)
        BY <3>1 DEF Shown, DeniedInTurn
      <3>4. \A j \in DOMAIN down' : i < j /\ down'[j] = Message("denied", b) =>
               j + k \in DOMAIN down /\ i + k < j + k /\ down[j + k] = Message("denied", b)
        BY <1>1, <2>2
      <3>. QED
        BY <1>3, <3>2, <3>3, <3>4
    <2>. QED
      BY <2>1, <2>2 DEF DeniedInTurn
  <1>8. SelectsLeft'
    <2> SUFFICES ASSUME NEW b \in blocks', call'[b] = "asked" \/ Denial(b)' PROVE b \in ToSet(selects')
      BY DEF SelectsLeft
    <2>1. b \in blocks /\ b \in Calls
      BY DEF Shown, InTurn, Born
    <2>2. b \in ToSet(selects)
      BY <1>3, <2>1 DEF Shown, SelectsLeft
    <2>. QED
      BY <2>2
  <1>9. RequestsShown'
    <2> SUFFICES ASSUME NEW b \in Calls, call'[b] = "asked"
                 PROVE Requested(b)' \/ (b \in blocks' /\ b \in ToSet(selects')) \/ pump' \in {b, Gone}
      BY DEF RequestsShown, Requested, Has
    <2>1. Requested(b) \/ (b \in blocks /\ b \in ToSet(selects)) \/ pump \in {b, Gone}
      BY DEF Shown, RequestsShown, Requested, Has
    <2>. QED
      BY <2>1
  <1>. QED
    BY <1>5, <1>6, <1>7, <1>8, <1>9 DEF Shown

LEMMA OnPermissionDeniedShown ==
  ASSUME TypeOK, Shown, OnPermissionDenied
  PROVE  Shown'
  <1>1. PICK c \in Calls :
          /\ Dispatch(Message("denied", c)) /\ blocks' = blocks \ {c}
          /\ IF c \in blocks
               THEN selects' \in IF selects = <<>> THEN {<<>>} ELSE AfterRemoval
               ELSE selects' = selects
          /\ UNCHANGED <<up, pump>>
    BY DEF OnPermissionDenied, Resolve
  <1>2. /\ UNCHANGED <<call, own, asked, picked>> /\ Denial(c)
        /\ 1 \in DOMAIN down /\ down[1] = Message("denied", c)
        /\ \A i \in DOMAIN down' : i \in Nat /\ i + 1 \in DOMAIN down /\ down'[i] = down[i + 1] /\ 1 < i + 1
    BY <1>1, Came DEF Denial
  <1>3. call[c] = "over"
    BY <1>2 DEF Shown, DeniedInTurn
  <1>4. \A b \in Calls : Requested(b) => Requested(b)'
    BY <1>1, HasStays, MessageFields DEF Requested
  <1>5. Gets(up, up', {}) /\ Gets(down, down', {})
    BY <1>1, WayGets
  <1>6. selects \in Seq(Calls) /\ Ascending(selects)
    BY DEF TypeOK, Shown, InTurn
  <1>7. CASE c \notin blocks \/ selects' = selects
    <2>1. selects' = selects
      BY <1>1, <1>7
    <2>2. Mounted' \subseteq Mounted
      BY <1>2, <2>1 DEF Mounted
    <2>. QED
      BY <1>1, <1>2, <1>3, <1>4, <1>5, <1>6, <2>1, <2>2, ClosedShown
  <1>8. CASE c \in blocks /\ selects' # selects
    <2>1. selects # <<>> /\ selects' = Tail(selects)
      BY <1>1, <1>8 DEF AfterRemoval
    <2>2. /\ 1 \in DOMAIN selects
          /\ \A i \in DOMAIN selects' : i \in Nat /\ i + 1 \in DOMAIN selects /\ selects'[i] = selects[i + 1]
          /\ \A i \in DOMAIN selects : i \in Nat /\ (i = 1 \/ (1 < i /\ i - 1 \in DOMAIN selects' /\ selects'[i - 1] = selects[i]))
      BY <1>6, <2>1
    <2>3. Ascending(selects') /\ Mounted' \subseteq Mounted
      <3>1. \A i, j \in DOMAIN selects' : i < j => i + 1 < j + 1
        BY <2>2
      <3>2. Ascending(selects')
        BY <1>6, <2>2, <3>1 DEF Ascending
      <3>3. ToSet(selects') \subseteq ToSet(selects)
        BY <2>2 DEF ToSet
      <3>. QED
        BY <1>2, <3>2, <3>3 DEF Mounted
    \* The first select is that of c or of an earlier call, which would be denied later.
    <2>4. ASSUME NEW b \in blocks', b \in ToSet(selects), call[b] = "asked" \/ Denial(b)'
          PROVE  b \in ToSet(selects')
      <3>1. b \in Calls /\ b # c
        BY <1>1 DEF Shown, InTurn, Born
      <3>2. c \in ToSet(selects)
        BY <1>2, <1>8 DEF Shown, SelectsLeft
      <3>3. PICK i \in DOMAIN selects : selects[i] = b
        BY <2>4 DEF ToSet
      <3>4. PICK j \in DOMAIN selects : selects[j] = c
        BY <3>2 DEF ToSet
      <3>5. CASE i = 1
        <4>1. b < c
          BY <1>6, <2>2, <3>1, <3>3, <3>4, <3>5 DEF Ascending
        <4>2. b \in 1..c-1
          BY <3>1, <4>1, TuiAssumption DEF Calls
        <4>3. ~Shut(c) /\ ~Shut(b)
          BY <1>1, <1>8 DEF Shut
        <4>4. call[b] # "asked" /\ \A n \in DOMAIN down : 1 < n /\ down[n] = Message("denied", b) => Shut(b)
          BY <1>2, <4>2, <4>3 DEF Shown, DeniedInTurn
        <4>5. PICK n \in DOMAIN down' : down'[n] = Message("denied", b)
          BY <2>4, <4>4 DEF Denial, Has
        <4>. QED
          BY <1>2, <4>3, <4>4, <4>5
      <3>6. CASE i # 1
        BY <2>2, <3>3, <3>6 DEF ToSet
      <3>. QED
        BY <3>5, <3>6
    <2>. QED
      BY <1>1, <1>2, <1>3, <1>4, <1>5, <2>3, <2>4, ClosedShown
  <1>. QED
    BY <1>7, <1>8

\* The user's decision leaves the screen as it is sent.
LEMMA DecidedShown ==
  ASSUME TypeOK, Quiet, Shown, Decided
  PROVE  Shown'
  <1>1. PICK c \in Calls :
          /\ picked # <<>> /\ c = Head(picked) /\ picked' = Tail(picked)
          /\ selects' = Without(selects, c)
          /\ blocks' = blocks \ {c}
          /\ IF HasClient /\ reading
               THEN (\E d \in {"allow", "deny"} : Command(d, c)) /\ pump' = c
               ELSE up' = up
    BY DEF Decided, Resolve
  <1>2. UNCHANGED <<down, call, own, asked>> /\ pump = Free
    BY DEF Decided, daemon
  <1>3. selects \in Seq(Calls) /\ Ascending(selects) /\ picked \in Seq(Calls)
    BY DEF TypeOK, Shown, InTurn
  <1>4. /\ c \in ToSet(picked) /\ ToSet(picked') \subseteq ToSet(picked)
    <2>1. /\ 1 \in DOMAIN picked /\ picked[1] = c
          /\ \A i \in DOMAIN picked' : i + 1 \in DOMAIN picked /\ picked'[i] = picked[i + 1]
      BY <1>1, <1>3
    <2>. QED
      BY <2>1 DEF ToSet
  <1>5. Ascending(selects') /\ ToSet(selects') = ToSet(selects) \ {c}
    BY <1>1, <1>3, WithoutOne
  <1>6. c \in Born /\ ~Requested(c)
    <2>1. c \in Mounted
      BY <1>4 DEF Mounted
    <2>2. c \in Nat
      BY TuiAssumption DEF Calls
    <2>. QED
      BY <2>1, <2>2 DEF Shown, InTurn
  <1>7. Mounted' \subseteq Mounted
    BY <1>4, <1>5 DEF Mounted
  <1>8. Gets(down, down', {}) /\ \A b \in Calls : Requested(b) => Requested(b)'
    BY <1>2, WayGets DEF Requested
  <1>9. \A b \in blocks' : b \in ToSet(selects) => b \in ToSet(selects')
    BY <1>1, <1>5
  <1>10. \A b \in Calls : pump \notin {b, Gone}
    BY <1>2, MessageIsOne
  <1>11. CASE HasClient /\ reading
    <2>1. PICK d \in {"allow", "deny"} : Command(d, c)
      BY <1>1, <1>11
    <2>2. Gets(up, up', {[op |-> d, call |-> c]})
      BY <2>1, WayGets, CommandTypes
    <2>. QED
      BY <1>1, <1>2, <1>5, <1>6, <1>7, <1>8, <1>9, <1>10, <1>11, <2>2, ClosedShown
  <1>12. CASE ~(HasClient /\ reading)
    <2>1. \A b \in Calls : call[b] # "asked"
      BY <1>12 DEF Quiet, HasClient, Live
    <2>2. Gets(up, up', {})
      BY <1>1, <1>12, WayGets
    <2>. QED
      BY <1>1, <1>2, <1>5, <1>7, <1>8, <1>9, <2>1, <2>2, ClosedShown
  <1>. QED
    BY <1>11, <1>12

LEMMA ReaderShown ==
  ASSUME TypeOK, Handshake, Quiet, Shown, Reader
  PROVE  Shown'
  <1>1. CASE OnHandshake \/ OnReady \/ OnClosed \/ OnCallStarted \/ OnCallFinished
    <2>1. PICK m : Dispatch(m) /\ m.type # "requested"
      BY <1>1, MessageFields DEF OnHandshake, OnReady, OnClosed, OnCallStarted, OnCallFinished
    <2>2. UNCHANGED <<blocks, selects, up, pump>>
      BY <1>1 DEF OnHandshake, OnReady, OnClosed, OnCallStarted, OnCallFinished
    <2>. QED
      BY <2>1, <2>2, DispatchShown
  <1>2. CASE OnHandshakeError
    <2>1. down \in Seq(Messages) /\ down # <<>> /\ Head(down) = Message("failed", 0)
      BY <1>2 DEF OnHandshakeError, TypeOK
    <2>2. 1 \in DOMAIN down /\ down[1] = Message("failed", 0)
      BY <2>1
    <2>3. sock = "creating"
      BY <2>2, MessageFields DEF Handshake, Greets
    <2>4. \A c \in Calls : ~Live(c)
      BY <2>3 DEF Quiet
    <2>5. UNCHANGED <<call, asked, blocks, selects, own, picked>> /\ up' = <<>> /\ down' = <<>>
      BY <1>2 DEF OnHandshakeError, Finally, daemon
    <2>6. Gets(up, up', {}) /\ Gets(down, down', {})
      BY <2>5, WayGets
    <2>. QED
      BY <2>4, <2>5, <2>6, IdleShown
  <1>. QED
    BY <1>1, <1>2, OnPermissionRequestedShown, OnPermissionDeniedShown, OnRespondedShown DEF Reader

THEOREM StepShown == TypeOK /\ Handshake /\ Quiet /\ Shown /\ [Next]_vars => Shown'
  <1> SUFFICES ASSUME TypeOK, Handshake, Quiet, Shown, [Next]_vars PROVE Shown'
    OBVIOUS
  <1>1. CASE UNCHANGED vars
    <2>1. UNCHANGED <<call, asked, blocks, selects, own, picked, pump, up, down>>
      BY <1>1 DEF vars, client, daemon
    <2>2. Gets(up, up', {}) /\ Gets(down, down', {}) /\ \A c \in Calls : Requested(c) => Requested(c)'
      BY <2>1, WayGets DEF Requested
    <2>3. Mounted' \subseteq Mounted
      BY <2>1 DEF Mounted
    <2>. QED
      BY <2>1, <2>2, <2>3, PlainShown
  <1>2. CASE Next
    BY <1>2, SocketLoopShown, ReaderShown, UserShown, DecidedShown, RunShown, HandleRespondShown,
       FinishCallShown, DenyCallShown, StartCallShown, StopShown
       DEF Next, Pump, Handlers, Calling
  <1>. QED
    BY <1>1, <1>2

\* A request that waits in the daemon is on the screen with a select to answer it, or on
\* its way there, or its answer is on the way back: for any calls, connections and room.
THEOREM AlwaysRequestsShown == Spec => []RequestsShown
  <1>1. Init => TypeOK /\ Handshake /\ Quiet /\ Shown
    BY InitTypes, InitCalm, InitShown
  <1>2. TypeOK /\ Handshake /\ Quiet /\ Shown /\ [Next]_vars => (TypeOK /\ Handshake /\ Quiet /\ Shown)'
    BY TypeStep, StepCalm, StepShown
  <1>3. Shown => RequestsShown
    BY DEF Shown
  <1>. QED
    BY <1>1, <1>2, <1>3, PTL DEF Spec

-----------------------------------------------------------------------------
(* Nothing is left open.                                                    *)

\* The order of what opens and what closes, as messages come and go.
LEMMA FollowsStays ==
  ASSUME TypeOK, NEW first, NEW last, NEW m, Dispatch(m)
  PROVE  /\ Follows(first, last) => Follows(first, last)'
         /\ Follows(first, last) /\ first = m => Has(down', last)
  <1>0. down \in Seq(Messages) /\ down # <<>> /\ m = Head(down) /\ down' = Tail(down)
    BY DEF Dispatch, TypeOK
  <1>1. /\ 1 \in DOMAIN down /\ down[1] = m
        /\ \A i \in DOMAIN down' : i \in Nat /\ i + 1 \in DOMAIN down /\ down'[i] = down[i + 1]
        /\ \A i \in DOMAIN down : i \in Nat /\ (1 < i => i - 1 \in DOMAIN down' /\ down'[i - 1] = down[i])
    BY <1>0
  <1>2. ASSUME Follows(first, last), NEW i \in DOMAIN down', down'[i] = first
        PROVE  \E j \in DOMAIN down' : i < j /\ down'[j] = last
    <2>1. PICK j \in DOMAIN down : i + 1 < j /\ down[j] = last
      BY <1>1, <1>2 DEF Follows
    <2>2. j - 1 \in DOMAIN down' /\ i < j - 1 /\ down'[j - 1] = last
      BY <1>1, <2>1
    <2>. QED
      BY <2>2
  <1>3. ASSUME Follows(first, last), first = m PROVE Has(down', last)
    <2>1. PICK j \in DOMAIN down : 1 < j /\ down[j] = last
      BY <1>1, <1>3 DEF Follows
    <2>. QED
      BY <1>1, <2>1 DEF Has
  <1>. QED
    BY <1>2, <1>3 DEF Follows

LEMMA FollowsMore ==
  ASSUME TypeOK, NEW first, NEW last, NEW t \in Seq(Messages), down' = down \o t, ~Has(t, first)
  PROVE  Follows(first, last) \/ Has(t, last) => Follows(first, last)'
  <1>0. down \in Seq(Messages)
    BY DEF TypeOK
  <1>1. /\ \A i \in DOMAIN down' : \/ i \in DOMAIN down /\ down'[i] = down[i]
                                   \/ i - Len(down) \in DOMAIN t /\ down'[i] = t[i - Len(down)]
        /\ \A i \in DOMAIN down : i \in Nat /\ i <= Len(down) /\ i \in DOMAIN down' /\ down'[i] = down[i]
        /\ \A i \in DOMAIN t : /\ i + Len(down) \in DOMAIN down' /\ down'[i + Len(down)] = t[i]
                               /\ Len(down) < i + Len(down)
    BY <1>0
  <1>2. ASSUME NEW i \in DOMAIN down', down'[i] = first, Follows(first, last) \/ Has(t, last)
        PROVE  \E j \in DOMAIN down' : i < j /\ down'[j] = last
    <2>1. i \in DOMAIN down /\ down[i] = first
      BY <1>1, <1>2 DEF Has
    <2>2. CASE Follows(first, last)
      BY <1>1, <2>1, <2>2 DEF Follows
    <2>3. CASE Has(t, last)
      <3>1. PICK j \in DOMAIN t : t[j] = last
        BY <2>3 DEF Has
      <3>2. i < j + Len(down)
        BY <1>0, <1>1, <2>1, <3>1
      <3>. QED
        BY <1>1, <3>1, <3>2
    <2>. QED
      BY <1>2, <2>2, <2>3
  <1>. QED
    BY <1>2 DEF Follows

LEMMA HasMore ==
  ASSUME TypeOK, NEW t \in Seq(Messages), down' = down \o t, NEW x
  PROVE  Has(down', x) <=> Has(down, x) \/ Has(t, x)
  <1>0. down \in Seq(Messages)
    BY DEF TypeOK
  <1>1. /\ \A i \in DOMAIN down' : \/ i \in DOMAIN down /\ down'[i] = down[i]
                                   \/ i - Len(down) \in DOMAIN t /\ down'[i] = t[i - Len(down)]
        /\ \A i \in DOMAIN down : i \in DOMAIN down' /\ down'[i] = down[i]
        /\ \A i \in DOMAIN t : i + Len(down) \in DOMAIN down' /\ down'[i + Len(down)] = t[i]
    BY <1>0
  <1>2. Has(down', x) => Has(down, x) \/ Has(t, x)
    BY <1>1 DEF Has
  <1>3. Has(down, x) => Has(down', x)
    BY <1>1 DEF Has
  <1>4. Has(t, x) => Has(down', x)
    <2> SUFFICES ASSUME NEW i \in DOMAIN t, t[i] = x PROVE Has(down', x)
      BY DEF Has
    <2>1. i + Len(down) \in DOMAIN down' /\ down'[i + Len(down)] = x
      BY <1>1
    <2>. QED
      BY <2>1 DEF Has
  <1>. QED
    BY <1>2, <1>3, <1>4

\* A message is handled: an event that opens something is followed by what closes it.
LEMMA DispatchOutcome ==
  ASSUME TypeOK, OutcomeComes, NEW m, Dispatch(m),
         \A c \in Calls : /\ c \in tools' => c \in tools \/ m = Message("started", c)
                          /\ c \in blocks' => c \in blocks \/ m = Message("requested", c)
                          /\ m = Message("finished", c) => c \notin tools'
                          /\ m = Message("denied", c) => c \notin blocks'
  PROVE  OutcomeComes'
  <1>1. UNCHANGED <<call, own>> /\ own \subseteq Calls
    BY Came DEF TypeOK
  <1>2. ASSUME NEW c \in own', call'[c] = "over"
        PROVE  /\ c \in tools' => Has(down, Message("finished", c))'
               /\ Follows(Message("started", c), Message("finished", c))'
    <2>1. /\ c \in Calls /\ c \in tools => Has(down, Message("finished", c))
          /\ Follows(Message("started", c), Message("finished", c))
      BY <1>1, <1>2 DEF OutcomeComes
    <2>2. Follows(Message("started", c), Message("finished", c))'
      BY <2>1, FollowsStays
    <2>3. ASSUME c \in tools' PROVE Has(down', Message("finished", c))
      <3>1. CASE m = Message("started", c)
        BY <2>1, <3>1, FollowsStays
      <3>2. CASE m # Message("started", c)
        BY <1>1, <1>2, <2>1, <2>3, <3>2, HasStays
      <3>. QED
        BY <3>1, <3>2
    <2>. QED
      BY <2>2, <2>3
  <1>3. ASSUME NEW c \in own', call'[c] # "asked"
        PROVE  /\ c \in blocks' => Has(down, Message("denied", c))'
               /\ Follows(Message("requested", c), Message("denied", c))'
    <2>1. /\ c \in Calls /\ c \in blocks => Has(down, Message("denied", c))
          /\ Follows(Message("requested", c), Message("denied", c))
      BY <1>1, <1>3 DEF OutcomeComes
    <2>2. Follows(Message("requested", c), Message("denied", c))'
      BY <2>1, FollowsStays
    <2>3. ASSUME c \in blocks' PROVE Has(down', Message("denied", c))
      <3>1. CASE m = Message("requested", c)
        BY <2>1, <3>1, FollowsStays
      <3>2. CASE m # Message("requested", c)
        BY <1>1, <1>3, <2>1, <2>3, <3>2, HasStays
      <3>. QED
        BY <3>1, <3>2
    <2>. QED
      BY <2>2, <2>3
  <1>. QED
    BY <1>2, <1>3 DEF OutcomeComes

\* Messages are sent: with the end of a call comes its outcome.
LEMMA SentOutcome ==
  ASSUME TypeOK, OutcomeComes, NEW t \in Seq(Messages), down' = down \o t, tools' = tools, blocks' \subseteq blocks,
         \A c \in own' :
            /\ call'[c] = "over" => /\ ~Has(t, Message("started", c))
                                    /\ (c \in own /\ call[c] = "over") \/ Has(t, Message("finished", c))
            /\ call'[c] # "asked" =>
                  \/ c \notin blocks' /\ ~Has(down', Message("requested", c))
                  \/ /\ ~Has(t, Message("requested", c))
                     /\ (c \in own /\ call[c] # "asked") \/ Has(t, Message("denied", c))
  PROVE  OutcomeComes'
  <1>1. ASSUME NEW c \in own', call'[c] = "over"
        PROVE  /\ c \in tools' => Has(down, Message("finished", c))'
               /\ Follows(Message("started", c), Message("finished", c))'
    <2>1. CASE Has(t, Message("finished", c))
      BY <1>1, <2>1, HasMore, FollowsMore
    <2>2. CASE c \in own /\ call[c] = "over"
      <3>1. /\ c \in tools => Has(down, Message("finished", c))
            /\ Follows(Message("started", c), Message("finished", c))
        BY <2>2 DEF OutcomeComes
      <3>. QED
        BY <1>1, <3>1, HasMore, FollowsMore
    <2>. QED
      BY <1>1, <2>1, <2>2
  <1>2. ASSUME NEW c \in own', call'[c] # "asked"
        PROVE  /\ c \in blocks' => Has(down, Message("denied", c))'
               /\ Follows(Message("requested", c), Message("denied", c))'
    <2>1. CASE c \notin blocks' /\ ~Has(down', Message("requested", c))
      BY <2>1 DEF Follows, Has
    <2>2. CASE ~Has(t, Message("requested", c)) /\ Has(t, Message("denied", c))
      BY <2>2, HasMore, FollowsMore
    <2>3. CASE ~Has(t, Message("requested", c)) /\ c \in own /\ call[c] # "asked"
      <3>1. /\ c \in blocks => Has(down, Message("denied", c))
            /\ Follows(Message("requested", c), Message("denied", c))
        BY <2>3 DEF OutcomeComes
      <3>. QED
        BY <2>3, <3>1, HasMore, FollowsMore
    <2>. QED
      BY <1>2, <2>1, <2>2, <2>3
  <1>. QED
    BY <1>1, <1>2 DEF OutcomeComes

\* A step that ends no run and starts none.
LEMMA EndsKept ==
  ASSUME EndsLast, Between' => Between, own' = own, OwnOver => OwnOver',
         OwnOver /\ NoneAfter(0) /\ own \cap (tools \cup blocks) = {} => own \cap (tools' \cup blocks') = {},
         NEW new, Gets(down, down', new), \A x \in new : ~Ends(x),
         OwnOver => \A x \in new : AboutCalls(x) => x.call \notin own
  PROVE  EndsLast'
  <1>1. PICK k \in Nat : \A i \in DOMAIN down' : i \in Nat /\ (down'[i] \in new \/ (i + k \in DOMAIN down /\ down'[i] = down[i + k]))
    BY DEF Gets
  <1>2. ASSUME OwnOver, NEW i \in Nat, NEW n \in Nat, n <= i + k, NoneAfter(n)
        PROVE  \A j \in DOMAIN down' : i < j /\ AboutCalls(down'[j]) => down'[j].call \notin own'
    <2> SUFFICES ASSUME NEW j \in DOMAIN down', i < j, AboutCalls(down'[j]) PROVE down'[j].call \notin own
      OBVIOUS
    <2>1. CASE down'[j] \in new
      BY <1>2, <2>1
    <2>2. CASE j + k \in DOMAIN down /\ down'[j] = down[j + k]
      <3>1. n < j + k
        BY <1>1, <1>2
      <3>. QED
        BY <1>2, <2>2, <3>1 DEF NoneAfter
    <2>. QED
      BY <1>1, <2>1, <2>2
  <1>3. ASSUME Between' PROVE OwnOver' /\ NoneAfter(0)' /\ own' \cap (tools' \cup blocks') = {}
    <2>1. OwnOver /\ NoneAfter(0) /\ own \cap (tools \cup blocks) = {}
      BY <1>3 DEF EndsLast
    <2>2. NoneAfter(0)'
      BY <1>2, <2>1 DEF NoneAfter
    <2>. QED
      BY <2>1, <2>2
  <1>4. ASSUME NEW i \in DOMAIN down', Ends(down'[i])
        PROVE  OwnOver' /\ \A j \in DOMAIN down' : i < j /\ AboutCalls(down'[j]) => down'[j].call \notin own'
    <2>1. i \in Nat /\ i + k \in DOMAIN down /\ down'[i] = down[i + k]
      BY <1>1, <1>4
    <2>2. OwnOver /\ NoneAfter(i + k)
      BY <1>4, <2>1 DEF EndsLast
    <2>. QED
      BY <1>2, <2>1, <2>2
  <1>. QED
    BY <1>3, <1>4 DEF EndsLast, NoneAfter

\* Where no run was, nothing of it is left.
LEMMA NoneOwned ==
  ASSUME own' = {}
  PROVE  LeftInv'
  BY DEF LeftInv, OutcomeComes, EndsLast, OwnOver, NoneAfter

LEMMA IdleLeft ==
  ASSUME TypeOK, Handshake, Quiet,
         SocketLoop \/ OnHandshake \/ OnHandshakeError \/ HandleHandshake \/ Stop
  PROVE  LeftInv'
  <1> USE DEF client, daemon
  <1>0. up \in Seq(Commands) /\ down \in Seq(Messages)
    BY DEF TypeOK
  <1>1. CASE SocketLoop
    <2>1. ~link \/ sock # "serving"
      BY <1>1 DEF SocketLoop, Connect, CreateSession, Serve, Disconnected, Retry, ReadEnds, Quiet
    <2>2. own' = own
      BY <1>1 DEF SocketLoop, Connect, CreateSession, Serve, Disconnected, Retry, ReadEnds
    <2>. QED
      BY <2>1, <2>2, NoneOwned DEF Quiet
  <1>2. CASE OnHandshake \/ OnHandshakeError
    <2>1. /\ down # <<>> /\ Head(down).type \in {"subscribed", "created", "failed"}
          /\ own' = own
      BY <1>2, MessageFields DEF OnHandshake, OnHandshakeError, Dispatch
    <2>2. 1 \in DOMAIN down /\ down[1] = Head(down)
      BY <1>0, <2>1
    <2>3. sock # "serving"
      BY <2>1, <2>2 DEF Handshake, Greets
    <2>. QED
      BY <2>1, <2>3, NoneOwned DEF Quiet
  <1>3. CASE HandleHandshake
    <2>1. up # <<>> /\ Head(up).op \in {"subscribe", "create"} /\ own' = own
      BY <1>3 DEF HandleHandshake, Handle
    <2>2. 1 \in DOMAIN up /\ up[1] = Head(up)
      BY <1>0, <2>1
    <2>3. sock # "serving"
      BY <2>1, <2>2 DEF Handshake, Opens
    <2>. QED
      BY <2>1, <2>3, NoneOwned DEF Quiet
  <1>4. CASE Stop
    BY <1>4, NoneOwned DEF Stop
  <1>. QED
    BY <1>1, <1>2, <1>3, <1>4

\* The client learns that the run is over: all that was on its way about its calls has come.
LEMMA OnReadyLeft ==
  ASSUME TypeOK, IInv, LeftInv, OnReady
  PROVE  LeftInv'
  <1>1. PICK t \in {"waiting", "otherWaiting", "refused"} : Dispatch(Message(t, 0))
    BY DEF OnReady
  <1>2. UNCHANGED <<tools, blocks>>
    BY DEF OnReady
  <1>3. /\ UNCHANGED <<call, own>> /\ spoiled' = spoiled
        /\ 1 \in DOMAIN down /\ down[1] = Message(t, 0)
        /\ \A i \in DOMAIN down' : i \in Nat /\ i + 1 \in DOMAIN down /\ down'[i] = down[i + 1] /\ 1 < i + 1
    BY <1>1, Came DEF Dispatch
  <1>4. OutcomeComes'
    BY <1>1, <1>2, MessageFields, DispatchOutcome DEF LeftInv
  <1>5. ASSUME spoiled = {} PROVE EndsLast'
    <2>1. Ends(Message(t, 0))
      <3>1. ~Foreign(Message(t, 0))
        BY <1>3, <1>5 DEF IInv, OneMessage, NoForeign
      <3>. QED
        BY <3>1, MessageFields DEF Foreign, Ends
    <2>2. OwnOver /\ NoneAfter(1)
      BY <1>3, <1>5, <2>1 DEF LeftInv, EndsLast
    <2>3. \A i \in Nat : NoneAfter(i + 1) => NoneAfter(i)'
      <3> SUFFICES ASSUME NEW i \in Nat, NoneAfter(i + 1), NEW j \in DOMAIN down', i < j, AboutCalls(down'[j])
                   PROVE  down'[j].call \notin own'
        BY DEF NoneAfter
      <3>1. j + 1 \in DOMAIN down /\ i + 1 < j + 1 /\ down'[j] = down[j + 1]
        BY <1>3
      <3>. QED
        BY <1>3, <3>1 DEF NoneAfter
    <2>4. OwnOver'
      BY <1>3, <2>2 DEF OwnOver
    <2>5. NoneAfter(0)'
      BY <2>2, <2>3
    <2>6. ASSUME NEW c \in own, c \in tools \cup blocks PROVE FALSE
      <3>1. call[c] = "over"
        BY <2>2 DEF OwnOver
      <3>2. PICK u \in {"finished", "denied"} : Has(down, Message(u, c))
        BY <2>6, <3>1 DEF LeftInv, OutcomeComes
      <3>3. PICK j \in DOMAIN down : down[j] = Message(u, c)
        BY <3>2 DEF Has
      <3>4. j # 1
        BY <1>3, <3>2, <3>3, MessageFields
      <3>5. 1 < j
        <4>1. down \in Seq(Messages)
          BY DEF TypeOK
        <4>. QED
          BY <3>3, <3>4, <4>1
      <3>6. AboutCalls(down[j]) /\ down[j].call = c
        BY <3>2, <3>3, MessageFields DEF AboutCalls, ToolMessages, PermissionMessages
      <3>. QED
        BY <2>2, <3>5, <3>6 DEF NoneAfter
    <2>7. own' \cap (tools' \cup blocks') = {}
      BY <1>2, <1>3, <2>6
    <2>8. ASSUME NEW i \in DOMAIN down', Ends(down'[i]) PROVE NoneAfter(i)'
      <3>1. i \in Nat /\ i + 1 \in DOMAIN down /\ Ends(down[i + 1])
        BY <1>3, <2>8
      <3>2. NoneAfter(i + 1)
        BY <1>5, <3>1 DEF LeftInv, EndsLast
      <3>. QED
        BY <2>3, <3>1, <3>2
    <2>. QED
      BY <2>4, <2>5, <2>7, <2>8 DEF EndsLast
  <1>. QED
    BY <1>3, <1>4, <1>5 DEF LeftInv

\* Other messages leave the client as busy as it is.
LEMMA MessageLeft ==
  ASSUME TypeOK, LeftInv, NEW m, Dispatch(m), UNCHANGED <<busy, up>>,
         \A c \in Calls : /\ c \in tools' => c \in tools \/ m = Message("started", c)
                          /\ c \in blocks' => c \in blocks \/ m = Message("requested", c)
                          /\ m = Message("finished", c) => c \notin tools'
                          /\ m = Message("denied", c) => c \notin blocks'
  PROVE  LeftInv'
  <1>1. OutcomeComes'
    BY DispatchOutcome DEF LeftInv
  <1>2. /\ UNCHANGED <<call, own, worker, spoiled>> /\ own \subseteq Calls
        /\ 1 \in DOMAIN down /\ down[1] = m
    BY Came DEF Dispatch, TypeOK
  <1>3. ASSUME spoiled = {} PROVE EndsLast'
    <2>1. Between' = Between
      BY <1>2 DEF Between
    <2>2. Gets(down, down', {})
      BY WayGets
    <2>3. OwnOver' = OwnOver
      BY <1>2 DEF OwnOver
    <2>4. ASSUME NoneAfter(0), own \cap (tools \cup blocks) = {} PROVE own \cap (tools' \cup blocks') = {}
      <3> SUFFICES ASSUME NEW c \in own, c \in tools' \cup blocks' PROVE FALSE
        OBVIOUS
      <3>1. m = Message("started", c) \/ m = Message("requested", c)
        BY <1>2, <2>4
      <3>2. AboutCalls(m) /\ m.call = c
        BY <3>1, MessageFields DEF AboutCalls, ToolMessages, PermissionMessages
      <3>. QED
        BY <1>2, <2>4, <3>2 DEF NoneAfter
    <2>. QED
      BY <1>2, <1>3, <2>1, <2>2, <2>3, <2>4, EndsKept DEF LeftInv
  <1>. QED
    BY <1>1, <1>2, <1>3 DEF LeftInv

LEMMA ReaderLeft ==
  ASSUME TypeOK, IInv, Handshake, Quiet, LeftInv, Reader
  PROVE  LeftInv'
  <1>1. CASE OnClosed
    <2>1. Dispatch(Message("otherClosed", 0)) /\ UNCHANGED <<tools, blocks>>
      BY <1>1 DEF OnClosed
    <2>2. OutcomeComes'
      BY <2>1, MessageFields, DispatchOutcome DEF LeftInv
    <2>3. spoiled' = spoiled /\ 1 \in DOMAIN down /\ down[1] = Message("otherClosed", 0)
      BY <2>1, Came DEF Dispatch
    <2>4. spoiled # {}
      BY <2>3, MessageFields DEF IInv, OneMessage, NoForeign, Foreign
    <2>. QED
      BY <2>2, <2>3, <2>4 DEF LeftInv
  <1>2. CASE OnCallStarted
    <2>1. PICK c \in Calls : Dispatch(Message("started", c)) /\ tools' = tools \cup {c} /\ UNCHANGED <<blocks, busy, up>>
      BY <1>2 DEF OnCallStarted, AddToolBlock
    <2>. QED
      BY <2>1, MessageFields, MessageLeft
  <1>3. CASE OnCallFinished
    <2>1. PICK c \in Calls : Dispatch(Message("finished", c)) /\ tools' = tools \ {c} /\ UNCHANGED <<blocks, busy, up>>
      BY <1>3 DEF OnCallFinished, SetResult
    <2>. QED
      BY <2>1, MessageFields, MessageLeft
  <1>4. CASE OnPermissionRequested
    <2>1. PICK c \in Calls : Dispatch(Message("requested", c)) /\ blocks' = blocks \cup {c} /\ UNCHANGED <<tools, busy, up>>
      BY <1>4 DEF OnPermissionRequested, AddPermissionBlock
    <2>. QED
      BY <2>1, MessageFields, MessageLeft
  <1>5. CASE OnPermissionDenied
    <2>1. PICK c \in Calls : Dispatch(Message("denied", c)) /\ blocks' = blocks \ {c} /\ UNCHANGED <<tools, busy, up>>
      BY <1>5 DEF OnPermissionDenied, Resolve
    <2>. QED
      BY <2>1, MessageFields, MessageLeft
  <1>6. CASE OnResponded
    <2>1. PICK m : m = Message("responded", pump)
      OBVIOUS
    <2>2. Dispatch(m) /\ UNCHANGED <<tools, blocks, busy, up>>
      BY <1>6, <2>1 DEF OnResponded
    <2>. QED
      BY <2>1, <2>2, MessageFields, MessageLeft
  <1>. QED
    BY <1>1, <1>2, <1>3, <1>4, <1>5, <1>6, IdleLeft, OnReadyLeft DEF Reader

\* The user types and answers.
LEMMA UserLeft ==
  ASSUME TypeOK, LeftInv, User \/ Pump
  PROVE  LeftInv'
  <1>1. /\ UNCHANGED <<tools, down, call, own, spoiled>> /\ blocks' \subseteq blocks
        /\ own \subseteq Calls /\ down \in Seq(Messages) /\ up \in Seq(Commands)
    BY DEF User, Pump, Submitted, Pick, PickUnfocused, StartWorker, Decided, Resolve, daemon, TypeOK
  <1>2. OutcomeComes'
    <2>1. <<>> \in Seq(Messages) /\ down' = down \o <<>> /\ \A x : ~Has(<<>>, x)
      BY <1>1 DEF Has
    <2>. QED
      BY <1>1, <2>1, SentOutcome DEF LeftInv
  <1>3. Between' => Between
    <2>1. CASE Submitted
      BY <2>1 DEF Submitted, Between
    <2>2. CASE Pick \/ PickUnfocused
      BY <2>2 DEF Pick, PickUnfocused, Between
    <2>3. CASE StartWorker
      <3>1. CASE worker = "send"
        BY <3>1 DEF Between
      <3>2. CASE worker # "send"
        <4>1. worker = "compact" /\ busy' = busy /\ worker' = "none"
          BY <2>3, <3>2 DEF StartWorker, TypeOK
        <4>2. NoSend(up) => NoSend(up')
          <5>1. [op |-> "compact", call |-> 0] \in Commands
            BY CommandTypes
          <5>. QED
            BY <1>1, <2>3, <4>1, <5>1, MoreCommands DEF StartWorker, Command
        <4>. QED
          BY <4>1, <4>2 DEF Between
      <3>. QED
        BY <3>1, <3>2
    <2>4. CASE Decided
      <3>1. UNCHANGED <<busy, worker>>
        BY <2>4 DEF Decided
      <3>2. NoSend(up) => NoSend(up')
        <4>1. up' = up \/ \E c \in Calls : \E d \in {"allow", "deny"} : up' = Append(up, [op |-> d, call |-> c])
          BY <2>4 DEF Decided, Command
        <4>2. \A c \in Calls : \A d \in {"allow", "deny"} : [op |-> d, call |-> c] \in Commands
          BY CommandTypes
        <4>. QED
          BY <1>1, <4>1, <4>2, MoreCommands
      <3>. QED
        BY <3>1, <3>2 DEF Between
    <2>. QED
      BY <2>1, <2>2, <2>3, <2>4 DEF User, Pump
  <1>4. ASSUME spoiled = {} PROVE EndsLast'
    <2>1. Gets(down, down', {}) /\ OwnOver' = OwnOver
      BY <1>1, WayGets DEF OwnOver
    <2>. QED
      BY <1>1, <1>3, <1>4, <2>1, EndsKept DEF LeftInv
  <1>. QED
    BY <1>1, <1>2, <1>4 DEF LeftInv

\* What is published, and may end calls, or none; m2 is the last one of two.
LEMMA SentLeft ==
  ASSUME TypeOK, LeftInv, NEW t \in Seq(Messages), down' = down \o t,
         UNCHANGED <<tools, blocks, worker, busy, spoiled>>, own' = own,
         NoSend(up) => NoSend(up'),
         \A c \in own : call[c] = "over" => call'[c] = "over",
         \A i \in DOMAIN t : ~Ends(t[i]) /\ (OwnOver /\ AboutCalls(t[i]) => t[i].call \notin own),
         \A c \in own :
            /\ call'[c] = "over" => /\ ~Has(t, Message("started", c))
                                    /\ call[c] = "over" \/ Has(t, Message("finished", c))
            /\ call'[c] # "asked" =>
                  \/ c \notin blocks' /\ ~Has(down', Message("requested", c))
                  \/ /\ ~Has(t, Message("requested", c))
                     /\ call[c] # "asked" \/ Has(t, Message("denied", c))
  PROVE  LeftInv'
  <1>1. OutcomeComes'
    BY SentOutcome DEF LeftInv
  <1> DEFINE new == {t[i] : i \in DOMAIN t}
  <1>2. Gets(down, down', new)
    <2>1. down \in Seq(Messages)
      BY DEF TypeOK
    <2>2. \A i \in DOMAIN t : t[i] \in new
      OBVIOUS
    <2> HIDE DEF new
    <2>. QED
      BY <2>1, <2>2, GetsMore
  <1>3. /\ \A x \in new : ~Ends(x)
        /\ OwnOver => \A x \in new : AboutCalls(x) => x.call \notin own
    OBVIOUS
  <1> HIDE DEF new
  <1>4. Between' => Between
    BY DEF Between
  <1>5. OwnOver => OwnOver'
    BY DEF OwnOver
  <1>6. spoiled = {} => EndsLast'
    BY <1>2, <1>3, <1>4, <1>5, EndsKept DEF LeftInv
  <1>. QED
    BY <1>1, <1>6 DEF LeftInv

LEMMA FewerSends ==
  ASSUME TypeOK, NEW op, Handle(op)
  PROVE  /\ NoSend(up) => NoSend(up') /\ Head(up).op # "send"
         /\ UNCHANGED <<tools, blocks, worker, busy, spoiled>>
  <1>1. up \in Seq(Commands) /\ up # <<>> /\ up' = Tail(up)
    BY DEF Handle, TypeOK
  <1>2. UNCHANGED <<tools, blocks, worker, busy, spoiled>>
    BY DEF Handle, client
  <1>. QED
    BY <1>1, <1>2, FewerCommands

\* The end of a run, or the refusal of the next message, is the last that is sent.
LEMMA EndLeft ==
  ASSUME TypeOK, LeftInv, Push(<<Message("waiting", 0)>>) \/ Push(<<Message("refused", 0)>>),
         UNCHANGED <<tools, blocks, worker, busy, spoiled, call, own>>,
         spoiled = {} => OwnOver /\ (Between' => NoneAfter(0) /\ own \cap (tools \cup blocks) = {})
  PROVE  LeftInv'
  <1>1. PICK m \in {Message("waiting", 0), Message("refused", 0)} : Push(<<m>>)
    OBVIOUS
  <1>2. m \in Messages /\ ~AboutCalls(m) /\ \A c : m # Message("started", c) /\ m # Message("requested", c)
    BY <1>1, MessageIsOne, MessageFields DEF SessionMessages, Answers, AboutCalls, ToolMessages, PermissionMessages
  <1>3. /\ <<m>> \in Seq(Messages) /\ down' = down \o <<m>> /\ down \in Seq(Messages)
        /\ \A x : Has(<<m>>, x) => x = m
    <2>1. down' = down \o <<m>> /\ down \in Seq(Messages)
      BY <1>1 DEF Push, TypeOK
    <2>2. <<m>> \in Seq(Messages) /\ \A i \in DOMAIN <<m>> : <<m>>[i] = m
      BY <1>2
    <2>3. \A x : Has(<<m>>, x) => x = m
      BY <2>2 DEF Has
    <2>. QED
      BY <2>1, <2>2, <2>3
  <1>4. OutcomeComes'
    <2>1. \A c \in own : ~Has(<<m>>, Message("started", c)) /\ ~Has(<<m>>, Message("requested", c))
      BY <1>2, <1>3
    <2>. QED
      BY <1>3, <2>1, SentOutcome DEF LeftInv
  <1>5. ASSUME spoiled = {} PROVE EndsLast'
    <2>1. \A i \in DOMAIN down' : /\ i \in Nat
                                  /\ \/ i \in DOMAIN down /\ down'[i] = down[i]
                                     \/ i = Len(down) + 1 /\ down'[i] = m
      BY <1>2, <1>3
    <2>2. \A i \in Nat : NoneAfter(i) => NoneAfter(i)'
      BY <1>2, <2>1 DEF NoneAfter
    <2>3. OwnOver' /\ OwnOver
      BY <1>5 DEF OwnOver
    <2>4. \A n : n = Len(down) + 1 => NoneAfter(n)'
      <3>1. \A j \in DOMAIN down' : ~(Len(down) + 1 < j)
        BY <1>3, <1>2
      <3>. QED
        BY <3>1 DEF NoneAfter
    <2>5. \A i \in DOMAIN down' : Ends(down'[i]) => NoneAfter(i)'
      <3> SUFFICES ASSUME NEW i \in DOMAIN down', Ends(down'[i]) PROVE NoneAfter(i)'
        OBVIOUS
      <3>1. CASE i \in DOMAIN down /\ down'[i] = down[i]
        <4>1. i \in Nat /\ NoneAfter(i)
          BY <1>5, <2>1, <3>1 DEF LeftInv, EndsLast
        <4>. QED
          BY <2>2, <4>1
      <3>2. CASE i = Len(down) + 1
        BY <2>4, <3>2
      <3>. QED
        BY <2>1, <3>1, <3>2
    <2>6. Between' => NoneAfter(0)' /\ own' \cap (tools' \cup blocks') = {}
      BY <1>5, <2>2
    <2>. QED
      BY <2>3, <2>5, <2>6 DEF EndsLast
  <1>. QED
    BY <1>4, <1>5 DEF LeftInv

LEMMA HandlersLeft ==
  ASSUME TypeOK, Shown, LeftInv, HandleSend \/ HandleCompact \/ HandleRespond
  PROVE  LeftInv'
  <1>0. down \in Seq(Messages)
    BY DEF TypeOK
  <1>1. CASE HandleSend
    <2>1. CASE run = "idle"
      BY <1>1, <2>1, NoneOwned DEF HandleSend
    <2>2. CASE run # "idle"
      <3>1. Handle("send") /\ Push(<<Message("refused", 0)>>) /\ UNCHANGED <<own, call>>
        BY <1>1, <2>2 DEF HandleSend
      <3>2. UNCHANGED <<tools, blocks, worker, busy, spoiled>>
        BY <3>1, FewerSends
      <3>3. ~NoSend(up)
        BY <3>1, FewerSends DEF Handle
      <3>4. spoiled = {} => OwnOver /\ NoneAfter(0) /\ own \cap (tools \cup blocks) = {}
        BY <3>3 DEF LeftInv, EndsLast, Between
      <3>. QED
        BY <3>1, <3>2, <3>4, EndLeft
    <2>. QED
      BY <2>1, <2>2
  <1>2. CASE HandleCompact
    <2>1. Handle("compact") /\ UNCHANGED <<down, call, own>>
      BY <1>2 DEF HandleCompact
    <2>2. <<>> \in Seq(Messages) /\ down' = down \o <<>> /\ (\A x : ~Has(<<>>, x)) /\ DOMAIN <<>> = {}
      BY <1>0, <2>1 DEF Has
    <2>. QED
      BY <2>1, <2>2, FewerSends, SentLeft
  <1>3. CASE HandleRespond
    <2> DEFINE c == Head(up).call
    <2>1. PICK op \in {"allow", "deny"} : Handle(op)
      BY <1>3 DEF HandleRespond
    <2>2. c \in Calls /\ Shut(c)
      <3>1. up \in Seq(Commands) /\ up # <<>> /\ Head(up).op = op
        BY <2>1 DEF Handle, TypeOK
      <3>2. 1 \in DOMAIN up /\ up[1] = Head(up)
        BY <3>1
      <3>3. Decides(up[1])
        BY <3>1, <3>2 DEF Decides
      <3>. QED
        BY <3>2, <3>3 DEF Shown, InTurn, Answered, Born
    <2>3. /\ Push(<<Message("responded", c)>>) /\ own' = own
          /\ \E x \in {"running", "denied"} : call' = IF call[c] # "asked" THEN call ELSE [call EXCEPT ![c] = x]
      BY <1>3 DEF HandleRespond
    <2> HIDE DEF c
    <2> DEFINE m == Message("responded", c)
    <2>4. m \in Messages /\ ~AboutCalls(m) /\ ~Ends(m) /\ \A b : m # Message("started", b) /\ m # Message("requested", b)
      <3>1. m \in Messages
        BY <2>2, MessageIsOne DEF Answers
      <3>2. m.type = "responded"
        BY MessageFields
      <3>3. \A b : m # Message("started", b) /\ m # Message("requested", b)
        BY MessageFields
      <3>. QED
        BY <3>1, <3>2, <3>3 DEF AboutCalls, ToolMessages, PermissionMessages, Ends
    <2>5. UNCHANGED <<tools, blocks, worker, busy, spoiled>> /\ (NoSend(up) => NoSend(up'))
      BY <2>1, FewerSends
    <2>6. \A b \in Calls : /\ call[b] = "over" <=> call'[b] = "over"
                           /\ b # c => call'[b] = call[b]
      BY <2>3 DEF TypeOK
    <2>7. Push(<<m>>)
      BY <2>3
    <2> HIDE DEF m
    <2>8. /\ <<m>> \in Seq(Messages) /\ down' = down \o <<m>>
          /\ (\A x : Has(<<m>>, x) => x = m) /\ \A i \in DOMAIN <<m>> : <<m>>[i] = m
      BY <2>4, <2>7 DEF Push, Has
    <2>9. c \notin blocks' /\ ~Has(down', Message("requested", c))
      BY <2>2, <2>4, <2>5, <2>8, HasMore DEF Shut, Requested
    <2>10. own \subseteq Calls
      BY DEF TypeOK
    <2>11. \A b \in own :
            /\ call'[b] = "over" => ~Has(<<m>>, Message("started", b)) /\ call[b] = "over"
            /\ call'[b] # "asked" =>
                  \/ b \notin blocks' /\ ~Has(down', Message("requested", b))
                  \/ ~Has(<<m>>, Message("requested", b)) /\ call[b] # "asked"
      BY <2>4, <2>6, <2>8, <2>9, <2>10
    <2>. QED
      BY <2>3, <2>4, <2>5, <2>6, <2>8, <2>10, <2>11, SentLeft
  <1>. QED
    BY <1>1, <1>2, <1>3

\* What the steps of a call publish.
LEMMA CallSends ==
  ASSUME TypeOK, NEW c \in Calls, NEW t, Push(t),
         t \in {<<Message("started", c)>>, <<Message("finished", c)>>,
                <<Message("started", c), Message("requested", c)>>,
                <<Message("denied", c), Message("finished", c)>>}
  PROVE  /\ t \in Seq(Messages) /\ down' = down \o t
         /\ \A i \in DOMAIN t : ~Ends(t[i]) /\ t[i].call = c
         /\ \A x : Has(t, x) => x.call = c
  <1> DEFINE s == Message("started", c)
             f == Message("finished", c)
             r == Message("requested", c)
             d == Message("denied", c)
  <1>1. {s, f, r, d} \subseteq Messages
    BY MessageIsOne DEF ToolMessages, PermissionMessages
  <1>2. \A x \in {s, f, r, d} : ~Ends(x) /\ x.call = c
    BY MessageFields DEF Ends
  <1>3. t \in {<<s>>, <<f>>, <<s, r>>, <<d, f>>}
    OBVIOUS
  <1> HIDE DEF s, f, r, d
  <1>4. t \in Seq(Messages) /\ \A i \in DOMAIN t : t[i] \in {s, f, r, d}
    <2>1. s \in Messages /\ f \in Messages /\ r \in Messages /\ d \in Messages
      BY <1>1
    <2>2. /\ <<s>> \in Seq(Messages) /\ <<f>> \in Seq(Messages)
          /\ <<s, r>> \in Seq(Messages) /\ <<d, f>> \in Seq(Messages)
      BY <2>1
    <2>3. \A m : \A i \in DOMAIN <<m>> : <<m>>[i] = m
      OBVIOUS
    <2>4. /\ \A i \in DOMAIN <<s, r>> : <<s, r>>[i] \in {s, r}
          /\ \A i \in DOMAIN <<d, f>> : <<d, f>>[i] \in {d, f}
      OBVIOUS
    <2>5. t \in Seq(Messages)
      BY <1>3, <2>2
    <2>6. \A i \in DOMAIN t : t[i] \in {s, f, r, d}
      <3>1. CASE t = <<s>>
        BY <2>3, <3>1
      <3>2. CASE t = <<f>>
        BY <2>3, <3>2
      <3>3. CASE t = <<s, r>>
        BY <2>4, <3>3
      <3>4. CASE t = <<d, f>>
        BY <2>4, <3>4
      <3>. QED
        BY <1>3, <3>1, <3>2, <3>3, <3>4
    <2>. QED
      BY <2>5, <2>6
  <1>5. \A i \in DOMAIN t : ~Ends(t[i]) /\ t[i].call = c
    BY <1>2, <1>4
  <1>6. \A x : Has(t, x) => x.call = c
    BY <1>5 DEF Has
  <1>. QED
    BY <1>4, <1>5, <1>6 DEF Push

LEMMA StartCallLeft ==
  ASSUME TypeOK, IInv, Shown, LeftInv, StartCall
  PROVE  LeftInv'
  <1>0. PICK c \in Calls :
          /\ call[c] = "unborn"
          /\ own' \in {own} \cup (IF run = "running" THEN {own \cup {c}} ELSE {})
          /\ \/ /\ call' = [call EXCEPT ![c] = "running"]
                /\ Push(<<Message("started", c)>>)
             \/ /\ call' = [call EXCEPT ![c] = "asked"]
                /\ Push(<<Message("started", c), Message("requested", c)>>)
    BY DEF StartCall
  <1>1. PICK t \in {<<Message("started", c)>>, <<Message("started", c), Message("requested", c)>>} :
          /\ call[c] = "unborn"
          /\ own' \in {own} \cup (IF run = "running" THEN {own \cup {c}} ELSE {})
          /\ Push(t)
          /\ \/ call' = [call EXCEPT ![c] = "running"] /\ t = <<Message("started", c)>>
             \/ call' = [call EXCEPT ![c] = "asked"]
    BY <1>0
  <1>2. UNCHANGED <<tools, blocks, worker, busy, up, spoiled>>
    BY DEF StartCall, Daemon, client
  <1>3. /\ t \in Seq(Messages) /\ down' = down \o t
        /\ \A i \in DOMAIN t : ~Ends(t[i]) /\ t[i].call = c
        /\ \A x : Has(t, x) => x.call = c
    BY <1>1, CallSends
  <1>4. c \notin own /\ c \notin blocks /\ ~Requested(c) /\ own \subseteq Calls
    BY <1>1 DEF Shown, InTurn, Born
  <1>5. /\ \A b \in Calls : b # c => call'[b] = call[b]
        /\ call'[c] \in {"running", "asked"}
        /\ call'[c] = "running" => t = <<Message("started", c)>>
    BY <1>1 DEF TypeOK
  <1>6. ASSUME NEW b \in own
        PROVE  /\ b \in Calls /\ call'[b] = call[b]
               /\ ~Has(t, Message("started", b)) /\ ~Has(t, Message("requested", b))
    BY <1>3, <1>4, <1>5, MessageFields
  <1>7. CASE own' = own
    BY <1>2, <1>3, <1>4, <1>6, <1>7, SentLeft
  <1>8. CASE run = "running" /\ own' = own \cup {c}
    <2>1. call'[c] # "asked" => c \notin blocks' /\ ~Has(down', Message("requested", c))
      <3> SUFFICES ASSUME t = <<Message("started", c)>> PROVE c \notin blocks' /\ ~Has(down', Message("requested", c))
        BY <1>5
      <3>1. \A x : Has(t, x) => x = Message("started", c)
        <4>1. \A m : \A i \in DOMAIN <<m>> : <<m>>[i] = m
          OBVIOUS
        <4>. QED
          BY <4>1 DEF Has
      <3>2. ~Has(t, Message("requested", c))
        BY <3>1, MessageFields
      <3>. QED
        BY <1>2, <1>3, <1>4, <3>2, HasMore DEF Requested
    <2>2. OutcomeComes'
      BY <1>2, <1>3, <1>5, <1>6, <1>8, <2>1, SentOutcome DEF LeftInv
    <2>3. ASSUME spoiled = {} PROVE EndsLast'
      <3>1. NoEnd(down) /\ busy /\ worker # "send" /\ NoSend(up)
        BY <1>8, <2>3 DEF IInv, OneMessage
      <3>2. down \in Seq(Messages)
        BY DEF TypeOK
      <3>3. \A i \in DOMAIN down' : \/ i \in DOMAIN down /\ down'[i] = down[i]
                                    \/ i - Len(down) \in DOMAIN t /\ down'[i] = t[i - Len(down)]
        BY <1>3, <3>2
      <3>4. \A i \in DOMAIN down' : ~Ends(down'[i])
        BY <1>3, <3>1, <3>3 DEF NoEnd
      <3>5. ~Between'
        BY <1>2, <3>1 DEF Between
      <3>. QED
        BY <3>4, <3>5 DEF EndsLast
    <2>. QED
      BY <1>2, <2>2, <2>3 DEF LeftInv
  <1>. QED
    BY <1>1, <1>7, <1>8

\* A call that ends was not over: its run has not ended, either.
LEMMA CallingLeft ==
  ASSUME TypeOK, Shown, LeftInv, Calling
  PROVE  LeftInv'
  <1>0. \E c \in Calls :
          /\ call[c] # "over" /\ call' = [call EXCEPT ![c] = "over"]
          /\ \/ call[c] = "running" /\ Push(<<Message("finished", c)>>)
             \/ Push(<<Message("denied", c), Message("finished", c)>>)
    <2>1. CASE FinishCall
      BY <2>1 DEF FinishCall
    <2>2. CASE DenyCall
      <3>1. PICK c \in Calls :
              /\ call[c] = "denied" \/ (asked # <<>> /\ c = Head(asked))
              /\ call' = [call EXCEPT ![c] = "over"]
              /\ Push(<<Message("denied", c), Message("finished", c)>>)
        BY <2>2 DEF DenyCall
      <3>2. call[c] # "over"
        <4>1. asked \in Seq(Calls) /\ ToSet(asked) = {b \in Calls : call[b] = "asked"}
          BY DEF TypeOK, Shown, InTurn
        <4>2. asked # <<>> => Head(asked) \in ToSet(asked)
          BY <4>1 DEF ToSet
        <4>. QED
          BY <3>1, <4>1, <4>2
      <3>. QED
        BY <3>1, <3>2
    <2>. QED
      BY <2>1, <2>2 DEF Calling
  <1>p. PICK c \in Calls :
          /\ call[c] # "over" /\ call' = [call EXCEPT ![c] = "over"]
          /\ \/ call[c] = "running" /\ Push(<<Message("finished", c)>>)
             \/ Push(<<Message("denied", c), Message("finished", c)>>)
    BY <1>0
  <1>1. PICK t \in {<<Message("finished", c)>>, <<Message("denied", c), Message("finished", c)>>} :
          /\ call[c] # "over" /\ call' = [call EXCEPT ![c] = "over"] /\ Push(t)
          /\ t = <<Message("finished", c)>> => call[c] = "running"
    <2>1. <<Message("denied", c), Message("finished", c)>> # <<Message("finished", c)>>
      <3>1. \A m, n : <<m, n>> # <<n>>
        OBVIOUS
      <3>. QED
        BY <3>1
    <2>. QED
      BY <1>p, <2>1
  <1>2. UNCHANGED <<tools, blocks, worker, busy, up, spoiled, own>> /\ own \subseteq Calls
    BY DEF Calling, FinishCall, DenyCall, Daemon, client, TypeOK
  <1>3. /\ t \in Seq(Messages) /\ down' = down \o t
        /\ \A i \in DOMAIN t : ~Ends(t[i]) /\ t[i].call = c
        /\ \A x : Has(t, x) => x.call = c
    BY <1>1, CallSends
  <1>4. /\ \A b \in Calls : b # c => call'[b] = call[b]
        /\ call'[c] = "over"
    BY <1>1 DEF TypeOK
  <1>5. OwnOver => c \notin own
    BY <1>1 DEF OwnOver
  <1> DEFINE f == Message("finished", c)
             d == Message("denied", c)
  <1>6. /\ t = <<f>> \/ t = <<d, f>>
        /\ t = <<f>> => call[c] = "running"
    BY <1>1
  <1>7. f.type = "finished" /\ d.type = "denied" /\ \A b : Message("started", b).type = "started" /\ Message("requested", b).type = "requested"
    BY MessageFields
  <1> HIDE DEF f, d
  <1>8. Has(t, f) /\ (Has(t, d) \/ call[c] = "running") /\ \A x : Has(t, x) => x \in {f, d}
    <2>1. CASE t = <<f>>
      <3>1. DOMAIN t = {1} /\ t[1] = f
        BY <2>1
      <3>. QED
        BY <1>6, <2>1, <3>1 DEF Has
    <2>2. CASE t = <<d, f>>
      <3>1. DOMAIN t = {1, 2} /\ t[1] = d /\ t[2] = f
        BY <2>2
      <3>. QED
        BY <3>1 DEF Has
    <2>. QED
      BY <1>6, <2>1, <2>2
  <1>9. \A b : ~Has(t, Message("started", b)) /\ ~Has(t, Message("requested", b))
    BY <1>7, <1>8
  <1>10. ASSUME NEW b \in own
         PROVE  /\ call'[b] = "over" => call[b] = "over" \/ Has(t, Message("finished", b))
                /\ call'[b] # "asked" => call[b] # "asked" \/ Has(t, Message("denied", b))
                /\ call[b] = "over" => call'[b] = "over"
    <2>1. CASE b = c
      BY <1>4, <1>8, <2>1 DEF f, d
    <2>2. CASE b # c
      BY <1>2, <1>4, <2>2
    <2>. QED
      BY <2>1, <2>2
  <1>. QED
    BY <1>2, <1>3, <1>5, <1>9, <1>10, SentLeft

\* A run ends when its calls have.
LEMMA EndingLeft ==
  ASSUME TypeOK, IInv, LeftInv, Ending
  PROVE  LeftInv'
  <1>1. /\ run = "running" /\ OwnOver
        /\ Push(<<Message("waiting", 0)>>) \/ Push(<<Message("refused", 0)>>)
        /\ UNCHANGED <<tools, blocks, worker, busy, up, spoiled, call, own>>
    BY DEF Ending, EndRun, FailRun, Daemon, client, OwnOver
  <1>2. spoiled = {} => ~Between'
    BY <1>1 DEF IInv, OneMessage, Between
  <1>. QED
    BY <1>1, <1>2, EndLeft

\* A late refusal, or another session's message, is not of this run.
LEMMA SpoilingLeft ==
  ASSUME TypeOK, LeftInv, ReleaseLock \/ OtherSession
  PROVE  LeftInv'
  <1>1. UNCHANGED <<tools, blocks, worker, busy, up, call, own>> /\ down \in Seq(Messages)
    BY DEF ReleaseLock, OtherSession, Daemon, client, daemon, TypeOK
  <1>2. CASE down' = down /\ spoiled' = spoiled
    <2>1. <<>> \in Seq(Messages) /\ down' = down \o <<>> /\ (\A x : ~Has(<<>>, x)) /\ DOMAIN <<>> = {}
      BY <1>1, <1>2 DEF Has
    <2>. QED
      BY <1>1, <1>2, <2>1, SentLeft
  <1>3. CASE ~(down' = down /\ spoiled' = spoiled)
    <2>1. spoiled' # {}
      BY <1>3 DEF ReleaseLock, OtherSession
    <2>2. PICK m : Push(<<m>>) /\ m \in {Message(u, 0) : u \in {"refused", "otherWaiting", "otherClosed"}}
      BY <1>3 DEF ReleaseLock, OtherSession
    <2>3. m \in Messages /\ \A b : m # Message("started", b) /\ m # Message("requested", b)
      BY <2>2, MessageIsOne, MessageFields DEF SessionMessages, Answers
    <2>4. <<m>> \in Seq(Messages) /\ (\A x : Has(<<m>>, x) => x = m) /\ down' = down \o <<m>>
      BY <2>2, <2>3 DEF Has, Push
    <2>5. OutcomeComes'
      <3>1. \A b \in own : ~Has(<<m>>, Message("started", b)) /\ ~Has(<<m>>, Message("requested", b))
        BY <2>3, <2>4
      <3>. QED
        BY <1>1, <2>4, <3>1, SentOutcome DEF LeftInv
    <2>. QED
      BY <2>1, <2>5 DEF LeftInv
  <1>. QED
    BY <1>2, <1>3

THEOREM StepLeft == TypeOK /\ IInv /\ Handshake /\ Quiet /\ Shown /\ LeftInv /\ [Next]_vars => LeftInv'
  <1> SUFFICES ASSUME TypeOK, IInv, Handshake, Quiet, Shown, LeftInv, [Next]_vars PROVE LeftInv'
    OBVIOUS
  <1>1. CASE UNCHANGED vars
    BY <1>1 DEF vars, client, daemon, LeftInv, OutcomeComes, Follows, EndsLast, Between, OwnOver, NoneAfter
  <1>2. CASE Next
    BY <1>2, IdleLeft, ReaderLeft, UserLeft, HandlersLeft, CallingLeft, EndingLeft, StartCallLeft, SpoilingLeft
       DEF Next, Handlers
  <1>. QED
    BY <1>1, <1>2

LEMMA InitLeft == Init => LeftInv
  BY DEF Init, LeftInv, OutcomeComes, EndsLast, OwnOver, NoneAfter

\* When the client learns that its run is over, and until the next one is taken up, no call
\* of that run is on the screen as running or as a question: for any calls, connections and room.
THEOREM AlwaysNothingLeftOpen == Spec => []NothingLeftOpen
  <1>1. Init => TypeOK /\ IInv /\ Handshake /\ Quiet /\ Shown /\ LeftInv
    BY InitTypes, InitInv, InitCalm, InitShown, InitLeft
  <1>2. TypeOK /\ IInv /\ Handshake /\ Quiet /\ Shown /\ LeftInv /\ [Next]_vars
          => (TypeOK /\ IInv /\ Handshake /\ Quiet /\ Shown /\ LeftInv)'
    BY TypeStep, StepInv, StepCalm, StepShown, StepLeft
  <1>3. TypeOK /\ LeftInv => NothingLeftOpen
    <2> SUFFICES ASSUME TypeOK, LeftInv, spoiled = {}, ~busy \/ (down # <<>> /\ Ends(Head(down)))
                 PROVE  own \cap (tools \cup blocks) = {}
      BY DEF NothingLeftOpen
    <2>1. CASE ~busy
      BY <2>1 DEF LeftInv, EndsLast, Between
    <2>2. CASE down # <<>> /\ Ends(Head(down))
      <3>0. down \in Seq(Messages)
        BY DEF TypeOK
      <3>1. 1 \in DOMAIN down /\ down[1] = Head(down) /\ \A j \in DOMAIN down : j # 1 => 1 < j
        BY <2>2, <3>0
      <3>2. OwnOver /\ NoneAfter(1)
        BY <2>2, <3>1 DEF LeftInv, EndsLast
      <3>3. ASSUME NEW c \in own, c \in tools \cup blocks PROVE FALSE
        <4>1. call[c] = "over"
          BY <3>2 DEF OwnOver
        <4>2. PICK u \in {"finished", "denied"} : Has(down, Message(u, c))
          BY <3>3, <4>1 DEF LeftInv, OutcomeComes
        <4>3. PICK j \in DOMAIN down : down[j] = Message(u, c)
          BY <4>2 DEF Has
        <4>4. down[j].type = u /\ down[j].call = c
          BY <4>3, MessageFields
        <4>5. j # 1 /\ AboutCalls(down[j])
          BY <2>2, <3>1, <4>2, <4>4 DEF Ends, AboutCalls, ToolMessages, PermissionMessages
        <4>. QED
          BY <3>1, <3>2, <4>4, <4>5 DEF NoneAfter
      <3>. QED
        BY <3>3
    <2>. QED
      BY <2>1, <2>2
  <1>. QED
    BY <1>1, <1>2, <1>3, PTL DEF Spec
=============================================================================
