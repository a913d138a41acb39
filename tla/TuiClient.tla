----------------------------- MODULE TuiClient ------------------------------
(***************************************************************************)
(* tui/app.py over core/transport/socket_client.py: the terminal client of *)
(* one chat session, its connection to the daemon, and the daemon as the   *)
(* client sees it.                                                         *)
(*                                                                         *)
(* Three tasks of the client interleave: the socket loop with its reader,  *)
(* the message pump of the App (keys and widget messages), and the workers *)
(* that send.  Only the state that decides what the user can do is kept:   *)
(* the prompt, _busy, the blocks of running tool calls and the permission  *)
(* requests.  The log, the token stream and the slash popup are display.   *)
(* An answer without consequence for that state (to a send or a compact    *)
(* that went well) is left out.                                            *)
(*                                                                         *)
(* The daemon stops and starts; a new one knows nothing of the old one's   *)
(* calls.  Calls are numbered in the order they start; those outside the   *)
(* session's run are made by background subagents.  Permission requests    *)
(* all wait equally long, so they time out in the order they were made     *)
(* (core/permissions/manager.py).                                          *)
(***************************************************************************)
EXTENDS Naturals, Sequences, SequencesExt

CONSTANTS
    MaxCalls,      \* bound: tool calls, of all daemons
    MaxConns,      \* bound: connections
    Room           \* bound: messages on their way to the client

ASSUME TuiAssumption ==
    MaxCalls \in Nat /\ MaxConns \in Nat \ {0} /\ Room \in Nat \ {0}

Calls == 1..MaxCalls
Free == 0                \* the pump waits for the next message
Gone == MaxCalls + 1     \* the pump is stuck or has ended

VARIABLES
    \* the client
    sock,        \* where _socket_loop is
    reading,     \* run_event_loop runs
    busy,        \* _busy
    prompt,      \* the prompt is enabled
    worker,      \* a worker that has not started yet
    tools,       \* _pending_tool_blocks
    blocks,      \* _pending_permission_blocks
    selects,     \* the mounted PermissionSelects, in DOM order
    picked,      \* Decided messages that were posted
    pump,        \* the call whose permission.respond the pump awaits
    \* the connection and the daemon
    conn,        \* connections made so far
    link,        \* the daemon's end is open
    up, down,    \* commands and messages on their way
    run,         \* the session's lock: who holds it
    call,        \* call -> where it is
    own,         \* calls that the session's run waits for
    asked,       \* the requests that wait, oldest first
    spoiled      \* history: what nobody promised against

client == <<sock, reading, busy, prompt, worker, tools, blocks, selects, picked, pump>>
daemon == <<run, call, own, asked>>
vars == <<client, conn, link, up, down, daemon, spoiled>>

Commands == [op : {"subscribe", "create", "send", "compact", "allow", "deny"}, call : 0..MaxCalls]
SessionMessages == {"waiting", "otherWaiting", "otherClosed"}
ToolMessages == {"started", "finished"}
PermissionMessages == {"requested", "denied"}
Answers == {"subscribed", "created", "failed", "refused", "responded"}
Messages == [type : SessionMessages \cup ToolMessages \cup PermissionMessages \cup Answers,
             call : 0..MaxCalls]

TypeOK ==
    /\ sock \in {"connecting", "subscribing", "subscribed", "creating", "created",
                 "serving", "pausing", "dead"}
    /\ {reading, busy, prompt, link} \subseteq BOOLEAN
    /\ worker \in {"none", "send", "compact"}
    /\ tools \subseteq Calls /\ blocks \subseteq Calls /\ own \subseteq Calls
    /\ {selects, picked, asked} \subseteq Seq(Calls)
    /\ pump \in Calls \cup {Free, Gone}
    /\ conn \in 0..MaxConns
    /\ up \in Seq(Commands)
    /\ down \in Seq(Messages) /\ Len(down) <= Room + 1
    /\ run \in {"idle", "running", "ending", "compacting"}
    /\ call \in [Calls -> {"unborn", "running", "asked", "denied", "over"}]
    /\ spoiled \subseteq {"other session", "late refusal"}

Init ==
    /\ sock = "connecting" /\ reading = FALSE
    /\ busy = FALSE /\ prompt = FALSE /\ worker = "none"
    /\ tools = {} /\ blocks = {} /\ selects = <<>> /\ picked = <<>> /\ pump = Free
    /\ conn = 0 /\ link = FALSE /\ up = <<>> /\ down = <<>>
    /\ run = "idle" /\ call = [c \in Calls |-> "unborn"] /\ own = {} /\ asked = <<>>
    /\ spoiled = {}

-----------------------------------------------------------------------------
\* self._client and self._session_id are not None.
HasClient == sock \in {"subscribing", "subscribed", "creating", "created", "serving"}
HasSession == sock = "serving"

\* s without c, which is in it at most once.
Without(s, c) ==
    IF \E i \in DOMAIN s : s[i] = c THEN RemoveAt(s, CHOOSE i \in DOMAIN s : s[i] = c) ELSE s

Command(op, c) == up' = Append(up, [op |-> op, call |-> c])
Message(t, c) == [type |-> t, call |-> c]

(***************************************************************************)
(* The socket loop.                                                        *)
(***************************************************************************)
\* A connection that is refused is tried again 2 seconds later.
Connect ==
    /\ sock = "connecting" /\ conn < MaxConns
    /\ sock' = "subscribing" /\ reading' = TRUE
    /\ conn' = conn + 1 /\ link' = TRUE
    /\ up' = <<[op |-> "subscribe", call |-> 0]>> /\ down' = <<>>
    /\ UNCHANGED <<busy, prompt, worker, tools, blocks, selects, picked, pump, daemon, spoiled>>

\* The finally block of _socket_loop.
Finally(next) ==
    /\ sock' = next /\ reading' = FALSE
    /\ prompt' = FALSE
    /\ link' = FALSE /\ up' = <<>> /\ down' = <<>>

\* The second command of the handshake.  When the reader has ended before it,
\* nobody cancels its future, or writing it raises an error that the loop does
\* not catch.
CreateSession ==
    /\ sock = "subscribed"
    /\ IF reading
         THEN /\ sock' = "creating" /\ Command("create", 0)
              /\ UNCHANGED <<reading, prompt, link, down>>
         ELSE Finally("dead")
    /\ UNCHANGED <<busy, worker, tools, blocks, selects, picked, pump, conn, daemon, spoiled>>

Serve ==
    /\ sock = "created"
    /\ sock' = "serving" /\ prompt' = TRUE
    /\ UNCHANGED <<reading, busy, worker, tools, blocks, selects, picked, pump,
                   conn, link, up, down, daemon, spoiled>>

\* The reader has ended: loop_task is done.
Disconnected ==
    /\ sock = "serving" /\ ~reading
    /\ Finally("pausing")
    /\ UNCHANGED <<busy, worker, tools, blocks, selects, picked, pump, conn, daemon, spoiled>>

\* The worker and the pump had 2 seconds.
Retry ==
    /\ sock = "pausing" /\ worker = "none"
    /\ pump # Gone => picked = <<>>
    /\ sock' = "connecting"
    /\ UNCHANGED <<reading, busy, prompt, worker, tools, blocks, selects, picked, pump,
                   conn, link, up, down, daemon, spoiled>>

\* Nothing more to read, or the connection is reset: the pending futures are
\* cancelled.  CancelledError is not an IpcError, nor an Exception: it ends
\* the loop in a handshake and the pump in a handler; a send just stops.
ReadEnds ==
    /\ reading /\ ~link
    /\ pump' = IF pump = Free THEN Free ELSE Gone
    /\ IF sock \in {"subscribing", "creating"}
         THEN Finally("dead")
         ELSE /\ reading' = FALSE /\ down' = <<>>
              /\ UNCHANGED <<sock, prompt, link, up>>
    /\ UNCHANGED <<busy, worker, tools, blocks, selects, picked, conn, daemon, spoiled>>

(***************************************************************************)
(* The reader: one message from the daemon.                                *)
(***************************************************************************)
Dispatch(m) ==
    /\ reading /\ down # <<>> /\ m = Head(down)
    /\ down' = Tail(down)
    /\ UNCHANGED <<worker, picked, conn, daemon, spoiled>>

\* An answer wakes the task that waits for it.
OnHandshake ==
    \E m \in {Message("subscribed", 0), Message("created", 0)} :
        /\ Dispatch(m)
        /\ sock' = m.type
        /\ UNCHANGED <<reading, busy, prompt, tools, blocks, selects, pump, link, up>>

\* except IpcError in _socket_loop; close() also drops what was under way.
OnHandshakeError ==
    /\ reading /\ down # <<>> /\ Head(down) = Message("failed", 0)
    /\ Finally("pausing")
    /\ UNCHANGED <<busy, worker, tools, blocks, selects, picked, pump, conn, daemon, spoiled>>

\* Fault: a refused send only shows the error.
FaultOnReady ==
    \E t \in {"waiting", "otherWaiting", "refused"} :
        /\ Dispatch(Message(t, 0))
        /\ IF t = "refused" THEN UNCHANGED <<busy, prompt>> ELSE busy' = FALSE /\ prompt' = TRUE
        /\ UNCHANGED <<sock, reading, tools, blocks, selects, pump, link, up>>

\* session.waiting_for_input of this or another session, and the except
\* branch of _do_send_message.
OnReady ==
    /\ \E t \in {"waiting", "otherWaiting", "refused"} : Dispatch(Message(t, 0))
    /\ busy' = FALSE /\ prompt' = TRUE
    /\ UNCHANGED <<sock, reading, tools, blocks, selects, pump, link, up>>

OnClosed ==
    /\ Dispatch(Message("otherClosed", 0))
    /\ busy' = FALSE /\ prompt' = FALSE
    /\ UNCHANGED <<sock, reading, tools, blocks, selects, pump, link, up>>

\* The blocks in the log, and the select that is mounted above the prompt.
AddToolBlock(c) == tools' = tools \cup {c}
SetResult(c) == tools' = tools \ {c}
AddPermissionBlock(c) == blocks' = blocks \cup {c}
Resolve(c) == blocks' = blocks \ {c}
MountSelect(c) == selects' = Append(selects, c)

OnCallStarted ==
    \E c \in Calls :
        /\ Dispatch(Message("started", c))
        /\ AddToolBlock(c)
        /\ UNCHANGED <<sock, reading, busy, prompt, blocks, selects, pump, link, up>>

\* tool.call_finished and tool.call_failed.
OnCallFinished ==
    \E c \in Calls :
        /\ Dispatch(Message("finished", c))
        /\ SetResult(c)
        /\ UNCHANGED <<sock, reading, busy, prompt, blocks, selects, pump, link, up>>

OnPermissionRequested ==
    \E c \in Calls :
        /\ Dispatch(Message("requested", c))
        /\ AddPermissionBlock(c)
        /\ MountSelect(c)
        /\ prompt' = FALSE
        /\ UNCHANGED <<sock, reading, busy, tools, pump, link, up>>

\* Fault: the newest select is removed.
FaultAfterRemoval == {Front(selects)}

\* query_one finds the first of several selects, or raises, which is ignored:
\* that depends on the version of textual.
AfterRemoval == {Tail(selects)} \cup (IF Len(selects) > 1 THEN {selects} ELSE {})

\* A request this client answered itself has no block any more.
OnPermissionDenied ==
    \E c \in Calls :
        /\ Dispatch(Message("denied", c))
        /\ Resolve(c)
        /\ IF c \in blocks
             THEN /\ selects' \in IF selects = <<>> THEN {<<>>} ELSE AfterRemoval
                  /\ prompt' = (blocks' = {} \/ prompt)
             ELSE UNCHANGED <<selects, prompt>>
        /\ UNCHANGED <<sock, reading, busy, tools, pump, link, up>>

\* Fault: the decision makes the client ready.
FaultOnResponded ==
    /\ Dispatch(Message("responded", pump))
    /\ pump' = Free
    /\ busy' = FALSE /\ prompt' = TRUE
    /\ UNCHANGED <<sock, reading, tools, blocks, selects, link, up>>

\* on_permission_select_decided goes on after its await.
OnResponded ==
    /\ Dispatch(Message("responded", pump))
    /\ pump' = Free
    /\ prompt' = (blocks = {} \/ prompt)
    /\ UNCHANGED <<sock, reading, busy, tools, blocks, selects, link, up>>

(***************************************************************************)
(* The pump: keys, then the messages that the widgets post.                *)
(***************************************************************************)
\* _client, _session_id and _busy are read when the message of the Enter key
\* is handled: the prompt may have been disabled since.  What is refused
\* leaves only a line in the log.  The worker starts later.  (Bound: the
\* user does not type faster than the daemon reads.)
Submitted ==
    /\ pump = Free /\ worker = "none" /\ up = <<>>
    /\ HasSession /\ ~busy
    /\ \/ busy' = TRUE /\ prompt' = FALSE /\ worker' = "send"
       \/ worker' = "compact" /\ UNCHANGED <<busy, prompt>>
    /\ UNCHANGED <<sock, reading, tools, blocks, selects, picked, pump,
                   conn, link, up, down, daemon, spoiled>>

\* _do_send_message and _do_compact up to their await.  Without a client they
\* return.  A command sent after the reader ended is never answered, or
\* raises OSError, which is caught.
StartWorker ==
    /\ worker # "none"
    /\ worker' = "none"
    /\ IF HasClient /\ reading
         THEN Command(worker, 0) /\ UNCHANGED <<busy, prompt>>
         ELSE /\ \/ UNCHANGED <<busy, prompt>>
                 \/ HasClient /\ worker = "send" /\ busy' = FALSE /\ prompt' = TRUE
              /\ UNCHANGED up
    /\ UNCHANGED <<sock, reading, tools, blocks, selects, picked, pump,
                   conn, link, down, daemon, spoiled>>

\* A key in the PermissionSelect that has the focus: a second one may come
\* before the first is handled.
Pick ==
    /\ pump = Free /\ Len(picked) < 2
    /\ \E c \in ToSet(selects) : picked' = Append(picked, c)
    /\ UNCHANGED <<sock, reading, busy, prompt, worker, tools, blocks, selects, pump,
                   conn, link, up, down, daemon, spoiled>>

\* App.on_key: a key while no PermissionSelect has the focus goes to the one
\* that query_one finds.
PickUnfocused ==
    /\ pump = Free /\ Len(picked) < 2 /\ blocks # {} /\ selects # <<>>
    /\ picked' = Append(picked, Head(selects))
    /\ UNCHANGED <<sock, reading, busy, prompt, worker, tools, blocks, selects, pump,
                   conn, link, up, down, daemon, spoiled>>

\* Fault: the decision leaves the block to the event of its outcome.
FaultDecided ==
    /\ pump = Free /\ picked # <<>>
    /\ \E c \in Calls :
        /\ c = Head(picked)
        /\ picked' = Tail(picked)
        /\ selects' = Without(selects, c)
        /\ IF HasClient /\ reading
             THEN /\ \E d \in {"allow", "deny"} : Command(d, c)
                  /\ pump' = c
             ELSE pump' = Free /\ UNCHANGED up
    /\ UNCHANGED <<blocks, prompt>>
    /\ UNCHANGED <<sock, reading, busy, worker, tools, conn, link, down, daemon, spoiled>>

\* on_permission_select_decided up to its await.  Without a client the
\* decision is dropped; after the end of the reader it hangs, or OSError is
\* caught.
Decided ==
    /\ pump = Free /\ picked # <<>>
    /\ \E c \in Calls :
        /\ c = Head(picked)
        /\ picked' = Tail(picked)
        /\ selects' = Without(selects, c)
        /\ Resolve(c)
        /\ IF HasClient /\ reading
             THEN /\ \E d \in {"allow", "deny"} : Command(d, c)
                  /\ pump' = c /\ UNCHANGED prompt
             ELSE /\ \/ pump' = Free /\ prompt' = (blocks' = {} \/ prompt)
                     \/ HasClient /\ pump' = Gone /\ UNCHANGED prompt
                  /\ UNCHANGED up
    /\ UNCHANGED <<sock, reading, busy, worker, tools, conn, link, down, daemon, spoiled>>

-----------------------------------------------------------------------------
(***************************************************************************)
(* The daemon (core/app.py, core/session/manager.py, tools/invocation.py). *)
(***************************************************************************)
\* Fault: publish does not wait for the drain.
FaultPush(ms) == down' = down \o ms

Push(ms) == Len(down) < Room /\ down' = down \o ms

Handle(op) ==
    /\ link /\ up # <<>> /\ Head(up).op = op
    /\ up' = Tail(up)
    /\ UNCHANGED <<client, conn, link, spoiled>>

HandleHandshake ==
    /\ \/ Handle("subscribe") /\ Push(<<Message("subscribed", 0)>>)
       \/ Handle("create") /\ Push(<<Message("created", 0)>>)
       \/ Handle("create") /\ Push(<<Message("failed", 0)>>)
    /\ UNCHANGED daemon

\* send_message: refused while the lock is held.
HandleSend ==
    /\ Handle("send")
    /\ IF run = "idle"
         THEN run' = "running" /\ own' = {} /\ UNCHANGED down
         ELSE Push(<<Message("refused", 0)>>) /\ UNCHANGED <<run, own>>
    /\ UNCHANGED <<call, asked>>

HandleCompact ==
    /\ Handle("compact")
    /\ run' = IF run = "idle" THEN "compacting" ELSE run
    /\ UNCHANGED <<down, call, own, asked>>

\* respond: an answer to a request that no longer waits is ignored.
HandleRespond ==
    /\ \/ Handle("allow")
       \/ Handle("deny")
    /\ LET c == Head(up).call
           waits == call[c] = "asked"
       IN  /\ Push(<<Message("responded", c)>>)
           /\ call' = IF ~waits THEN call
                      ELSE [call EXCEPT ![c] = IF Head(up).op = "allow" THEN "running" ELSE "denied"]
           /\ asked' = Without(asked, c)
    /\ UNCHANGED <<run, own>>

Daemon == link /\ UNCHANGED <<client, conn, link, up>>

\* A call of the run, or of an agent in the background; it asks or need not.
StartCall ==
    /\ Daemon
    /\ run = "running" \/ sock = "serving"
    /\ \E c \in Calls :
        /\ call[c] = "unborn" /\ \A b \in 1..c-1 : call[b] # "unborn"
        /\ own' \in {own} \cup (IF run = "running" THEN {own \cup {c}} ELSE {})
        /\ \/ /\ call' = [call EXCEPT ![c] = "running"]
              /\ Push(<<Message("started", c)>>)
              /\ UNCHANGED asked
           \/ /\ call' = [call EXCEPT ![c] = "asked"]
              /\ Push(<<Message("started", c), Message("requested", c)>>)
              /\ asked' = Append(asked, c)
    /\ UNCHANGED <<run, spoiled>>

FinishCall ==
    /\ Daemon
    /\ \E c \in Calls :
        /\ call[c] = "running"
        /\ call' = [call EXCEPT ![c] = "over"]
        /\ Push(<<Message("finished", c)>>)
    /\ UNCHANGED <<run, own, asked, spoiled>>

\* The user's deny, published by the call, and the timeout of the oldest request.
DenyCall ==
    /\ Daemon
    /\ \E c \in Calls :
        /\ call[c] = "denied" \/ (asked # <<>> /\ c = Head(asked))
        /\ call' = [call EXCEPT ![c] = "over"]
        /\ asked' = Without(asked, c)
        /\ Push(<<Message("denied", c), Message("finished", c)>>)
    /\ UNCHANGED <<run, own, spoiled>>

\* The event is published while the lock is held.
EndRun ==
    /\ Daemon
    /\ run = "running" /\ \A c \in own : call[c] = "over"
    /\ run' = "ending" /\ Push(<<Message("waiting", 0)>>)
    /\ UNCHANGED <<call, own, asked, spoiled>>

\* The run raises: the command is answered with an error, no event is published.
FailRun ==
    /\ Daemon
    /\ run = "running" /\ \A c \in own : call[c] = "over"
    /\ run' = "idle" /\ Push(<<Message("refused", 0)>>)
    /\ UNCHANGED <<call, own, asked, spoiled>>

\* meta.json is written after the event; that can fail, too.
ReleaseLock ==
    /\ Daemon
    /\ run \in {"ending", "compacting"}
    /\ run' = "idle"
    /\ \/ UNCHANGED <<down, spoiled>>
       \/ /\ run = "ending"
          /\ Push(<<Message("refused", 0)>>)
          /\ spoiled = {} /\ spoiled' = {"late refusal"}
    /\ UNCHANGED <<call, own, asked>>

\* The subscription is to the events of all sessions.
OtherSession ==
    /\ Daemon
    /\ spoiled = {} /\ sock = "serving"
    /\ \E t \in {"otherWaiting", "otherClosed"} : Push(<<Message(t, 0)>>)
    /\ spoiled' = {"other session"}
    /\ UNCHANGED daemon

\* The daemon stops, with everything that ran in it.
Stop ==
    /\ link /\ conn < MaxConns
    /\ link' = FALSE /\ up' = <<>>
    /\ run' = "idle" /\ own' = {} /\ asked' = <<>>
    /\ call' = [c \in Calls |-> IF call[c] = "unborn" THEN "unborn" ELSE "over"]
    /\ UNCHANGED <<client, conn, down, spoiled>>

-----------------------------------------------------------------------------
SocketLoop == Connect \/ CreateSession \/ Serve \/ Disconnected \/ Retry \/ ReadEnds
Reader ==
    \/ OnHandshake \/ OnHandshakeError \/ OnReady \/ OnClosed \/ OnCallStarted
    \/ OnCallFinished \/ OnPermissionRequested \/ OnPermissionDenied \/ OnResponded
User == Submitted \/ Pick \/ PickUnfocused
Pump == StartWorker \/ Decided
Handlers == HandleHandshake \/ HandleSend \/ HandleCompact \/ HandleRespond
Calling == FinishCall \/ DenyCall
Ending == EndRun \/ FailRun

Next ==
    \/ SocketLoop \/ Reader \/ User \/ Pump \/ Handlers \/ Calling \/ Ending
    \/ StartCall \/ ReleaseLock \/ OtherSession \/ Stop

Spec == Init /\ [][Next]_vars

\* Tasks that are ready run, messages that were sent are read, requests time
\* out, and a run whose calls are over ends.  Nothing is asked of the user.
Fairness ==
    /\ WF_vars(SocketLoop) /\ WF_vars(Reader) /\ WF_vars(Pump) /\ WF_vars(Handlers)
    /\ WF_vars(Calling) /\ WF_vars(Ending) /\ WF_vars(ReleaseLock)

FairSpec == Spec /\ Fairness

-----------------------------------------------------------------------------
\* While the daemon has, or is about to get, a message of this session, the
\* client refuses the next; and a client that is not busy, and is asked
\* nothing, lets the user type.  Said for a client whose events are its own.
InputMatchesRun ==
    /\ spoiled = {} /\ (run = "running" \/ \E i \in DOMAIN up : up[i].op = "send") => busy
    /\ spoiled = {} /\ sock = "serving" /\ ~busy /\ blocks = {} /\ pump = Free => prompt

\* A request that waits in the daemon can be answered: its select is mounted
\* from the moment its event is handled until its answer is on the way,
\* whatever the other requests' answers and timeouts did to theirs.
RequestsShown ==
    \A c \in Calls : call[c] = "asked" =>
        \/ \E i \in DOMAIN down : down[i] = Message("requested", c)
        \/ c \in blocks /\ c \in ToSet(selects)
        \/ pump \in {c, Gone}

Ends(m) == m.type \in {"waiting", "refused"}

\* When the client is about to learn that its run is over, and while it is ready
\* for the next, nothing of that run is left on its screen as running, or as a
\* question, whatever was answered, timed out or denied in between.
NothingLeftOpen ==
    spoiled = {} /\ (~busy \/ (down # <<>> /\ Ends(Head(down)))) =>
        own \cap (tools \cup blocks) = {}

\* A message that was submitted gives the prompt back, unless the connection
\* is lost: the run may ask for permission, fail, or be refused.
PromptReturns == worker = "send" /\ link ~> ~busy \/ ~link

\* A client that is connected again takes messages.
ReconnectsReady == [][sock = "created" /\ sock' = "serving" => ~busy']_vars
-----------------------------------------------------------------------------
(* The inductive invariant behind InputMatchesRun.                          *)

\* Where a message of this session can be: posted, sent, run, or answered.
Foreign(m) == m.type \in {"otherWaiting", "otherClosed"}
NoSend(commands) == \A i \in DOMAIN commands : commands[i].op # "send"
NoEnd(messages) == \A i \in DOMAIN messages : ~Ends(messages[i])
NoForeign(messages) == \A i \in DOMAIN messages : ~Foreign(messages[i])
OneSend(commands) ==
    \A i, j \in DOMAIN commands : commands[i].op = "send" /\ commands[j].op = "send" => i = j
OneEnd(messages) ==
    \A i, j \in DOMAIN messages : Ends(messages[i]) /\ Ends(messages[j]) => i = j

\* It is in one of these places, once, and the client is busy until it is in none.
OneMessage ==
    /\ NoForeign(down) /\ OneSend(up) /\ OneEnd(down)
    /\ worker = "send" => busy /\ NoSend(up) /\ run # "running" /\ NoEnd(down)
    /\ ~NoSend(up) => busy /\ run # "running" /\ NoEnd(down)
    /\ run = "running" => busy /\ NoEnd(down)
    /\ ~NoEnd(down) => busy

PromptOpen == sock = "serving" /\ ~busy /\ blocks = {} /\ pump = Free => prompt

\* The part of TypeOK that is needed.
Typed ==
    /\ {busy, prompt} \subseteq BOOLEAN
    /\ worker \in {"none", "send", "compact"}
    /\ up \in Seq(Commands) /\ down \in Seq(Messages)
    /\ blocks \subseteq Calls

IInv == Typed /\ (spoiled = {} => OneMessage /\ PromptOpen)

-----------------------------------------------------------------------------
(* The inductive invariant behind RequestsShown.                            *)

Ascending(s) == \A i, j \in DOMAIN s : i < j => s[i] < s[j]
Has(messages, m) == \E i \in DOMAIN messages : messages[i] = m
Live(c) == call[c] \notin {"unborn", "over"}

\* A daemon whose client is not served, or not connected, has nothing under way.
Quiet ==
    /\ ~reading => ~link
    /\ sock \in {"connecting", "subscribing", "subscribed", "creating", "created"} => worker = "none"
    /\ sock # "serving" => \A i \in DOMAIN up : up[i].op \notin {"send", "compact"}
    /\ ~link \/ sock # "serving" =>
          run = "idle" /\ own = {} /\ \A c \in Calls : ~Live(c)

\* The handshake has one command or answer on its way, while the socket loop waits for it.
Opens(command) == command.op \in {"subscribe", "create"}
Greets(m) == m.type \in {"subscribed", "created", "failed"}
Handshake ==
    /\ \A i \in DOMAIN up : Opens(up[i]) =>
          /\ sock = IF up[i].op = "subscribe" THEN "subscribing" ELSE "creating"
          /\ \A j \in DOMAIN up : Opens(up[j]) => i = j
          /\ \A j \in DOMAIN down : ~Greets(down[j])
    /\ \A i \in DOMAIN down : Greets(down[i]) =>
          /\ sock = IF down[i].type = "subscribed" THEN "subscribing" ELSE "creating"
          /\ \A j \in DOMAIN down : Greets(down[j]) => i = j

\* Calls are born, and ask, in the order of their numbers; their requests reach the
\* client and are mounted in that order, and only what is mounted can be picked.
Born == {c \in Calls : call[c] # "unborn"}
Requested(c) == Has(down, Message("requested", c))
Responded(c) == Has(down, Message("responded", c))
Mounted == ToSet(selects) \cup ToSet(picked)
Decides(command) == command.op \in {"allow", "deny"}
InTurn ==
    /\ \A c \in Born : 1..c-1 \subseteq Born
    /\ own \cup blocks \cup Mounted \subseteq Born
    /\ \A i \in DOMAIN up : Decides(up[i]) => up[i].call \in Born
    /\ \A c \in Calls : Requested(c) \/ Responded(c) => c \in Born
    /\ Ascending(asked) /\ ToSet(asked) = {c \in Calls : call[c] = "asked"}
    /\ Ascending(selects)
    /\ \A i, j \in DOMAIN down : \A b, c \in Calls :
          i < j /\ down[i] = Message("requested", b) /\ down[j] = Message("requested", c) => b < c
    /\ \A b \in Mounted : \A c \in Calls : Requested(c) => b < c

\* The request of c is not open to the user: it was decided, or has not come yet.
Shut(c) == c \notin blocks /\ ~Requested(c)

\* What the user decided is resolved on the screen, and no longer waits once answered.
Answered ==
    /\ \A i \in DOMAIN up : Decides(up[i]) => Shut(up[i].call)
    /\ \A c \in Calls : call[c] = "denied" => Shut(c)
    /\ \A c \in Calls : Responded(c) => call[c] # "asked"

\* The denial of c is on its way to the client.
Denial(c) == Has(down, Message("denied", c))

\* Timeouts come in turn: once the denial of a request that is still open is under
\* way, no earlier request waits, and no earlier open one is denied after it.
DeniedInTurn ==
    /\ \A c \in Calls : Denial(c) => call[c] = "over"
    /\ \A i \in DOMAIN down : \A c \in Calls : down[i] = Message("denied", c) /\ ~Shut(c) =>
          \A b \in 1..c-1 :
             /\ call[b] # "asked"
             /\ \A j \in DOMAIN down : i < j /\ down[j] = Message("denied", b) => Shut(b)

\* So the select that goes with a denial is not one that is still needed.
SelectsLeft ==
    \A c \in blocks : call[c] = "asked" \/ Denial(c) => c \in ToSet(selects)

Shown == InTurn /\ Answered /\ DeniedInTurn /\ SelectsLeft /\ RequestsShown

ShownInv == TypeOK /\ Handshake /\ Quiet /\ Shown

-----------------------------------------------------------------------------
(* The inductive invariant behind NothingLeftOpen.                          *)

\* After each event that opens something comes the one that closes it.
Follows(first, last) ==
    \A i \in DOMAIN down : down[i] = first => \E j \in DOMAIN down : i < j /\ down[j] = last

\* A call of the run that is over has its outcome on the way, if it is still on the screen.
OutcomeComes ==
    \A c \in own :
        /\ call[c] = "over" =>
              /\ c \in tools => Has(down, Message("finished", c))
              /\ Follows(Message("started", c), Message("finished", c))
        /\ call[c] # "asked" =>
              /\ c \in blocks => Has(down, Message("denied", c))
              /\ Follows(Message("requested", c), Message("denied", c))

AboutCalls(m) == m.type \in ToolMessages \cup PermissionMessages
OwnOver == \A c \in own : call[c] = "over"
NoneAfter(i) == \A j \in DOMAIN down : i < j /\ AboutCalls(down[j]) => down[j].call \notin own

\* The client is ready for a message, or has one that the daemon has not taken up yet.
Between == ~busy \/ worker = "send" \/ ~NoSend(up)

\* The end of a run comes after all that is about its calls; until the next one is
\* taken up nothing is left of them.
EndsLast ==
    /\ Between => OwnOver /\ NoneAfter(0) /\ own \cap (tools \cup blocks) = {}
    /\ \A i \in DOMAIN down : Ends(down[i]) => OwnOver /\ NoneAfter(i)

LeftInv == OutcomeComes /\ (spoiled = {} => EndsLast)
=============================================================================
