----------------------------- MODULE McpClient ------------------------------
(***************************************************************************)
(* core/mcp/client.py and tool.py under the retry loop of                  *)
(* core/tools/invocation.py: the connection to one MCP server, which the   *)
(* tool calls of all runs share.                                           *)
(*                                                                         *)
(* A request and the lines up to its answer are one critical section.  A   *)
(* call that gives up - nothing came for 30 seconds, the tool's 120        *)
(* seconds are over, its run was cancelled - leaves the section with its   *)
(* answer outstanding, and the next call must not take that answer for its *)
(* own.  The server answers what it got in any order, or never, sends      *)
(* other lines in between, and may go at any time.  The model starts after *)
(* the handshake of start_all, requests 1 and 2.                           *)
(***************************************************************************)
EXTENDS Naturals, Sequences

CONSTANTS
    Calls,       \* tool calls
    NoCall,      \* no call
    Attempts,    \* how often invoke_tool invokes a tool that fails
    Room         \* lines the server can be ahead of the client

ASSUME McpAssumption ==
    /\ NoCall \notin Calls
    /\ Attempts \in Nat \ {0}
    /\ Room \in Nat \ {0}

VARIABLES
    lastId,      \* _id
    lock,        \* the call that holds _lock
    pc,          \* call -> where it is
    attempt,     \* call -> the attempt of invoke_tool
    id,          \* call -> req_id, the id of its request
    inbox,       \* requests the server has got and not answered
    stream,      \* lines on their way to the client
    gone,        \* the server has closed its end
    answers,     \* history: everything the server ever answered
    got          \* history: the answer that became a call's result

clientVars == <<lastId, lock, pc, attempt, id, got>>
serverVars == <<inbox, stream, gone, answers>>
vars == <<clientVars, serverVars>>

Requests == [id : Nat \ {0}, call : Calls, attempt : 1..Attempts]
Answers == [request : Requests, ok : BOOLEAN]
Other == [kind |-> "other"]             \* a line that is not JSON, or without id
NoAnswer == [kind |-> "none"]

TypeOK ==
    /\ lastId \in Nat
    /\ lock \in Calls \cup {NoCall}
    /\ pc \in [Calls -> {"idle", "waiting", "reading", "result", "error",
                         "timeout", "cancelled"}]
    /\ attempt \in [Calls -> 1..Attempts]
    /\ id \in [Calls -> Nat]
    /\ inbox \subseteq Requests
    /\ stream \in Seq(Answers \cup {Other})
    /\ gone \in BOOLEAN
    /\ answers \subseteq Answers
    /\ got \in [Calls -> Answers \cup {NoAnswer}]

Init ==
    /\ lastId = 2
    /\ lock = NoCall
    /\ pc = [c \in Calls |-> "idle"]
    /\ attempt = [c \in Calls |-> 1]
    /\ id = [c \in Calls |-> 0]
    /\ inbox = {}
    /\ stream = <<>>
    /\ gone = FALSE
    /\ answers = {}
    /\ got = [c \in Calls |-> NoAnswer]

-----------------------------------------------------------------------------
\* _call takes the next id and queues for the lock in the same step.
Invoke(c) ==
    /\ pc[c] = "idle"
    /\ lastId' = lastId + 1
    /\ id' = [id EXCEPT ![c] = lastId + 1]
    /\ pc' = [pc EXCEPT ![c] = "waiting"]
    /\ UNCHANGED <<lock, attempt, got, serverVars>>

RequestOf(c) == [id |-> id[c], call |-> c, attempt |-> attempt[c]]

\* The lock is given back by whoever holds it, not by one that still queues.
Leave(c) == lock' = IF lock = c THEN NoCall ELSE lock

\* The lock is fair, so it goes to the waiting call with the smallest id.
First(c) ==
    /\ lock = NoCall
    /\ pc[c] = "waiting"
    /\ \A d \in Calls : pc[d] = "waiting" => id[c] <= id[d]

\* Fault: one attempt too many.
FailOnceMore(c) ==
    /\ IF attempt[c] <= Attempts
       THEN /\ attempt' = [attempt EXCEPT ![c] = @ + 1]
            /\ pc' = [pc EXCEPT ![c] = "idle"]
       ELSE /\ pc' = [pc EXCEPT ![c] = "error"]
            /\ UNCHANGED attempt
    /\ UNCHANGED <<lastId, id>>
    /\ Leave(c)

\* McpTool turns every exception into a runtime_error, which invoke_tool retries.
Fail(c) ==
    /\ IF attempt[c] < Attempts
       THEN /\ attempt' = [attempt EXCEPT ![c] = @ + 1]
            /\ pc' = [pc EXCEPT ![c] = "idle"]
       ELSE /\ pc' = [pc EXCEPT ![c] = "error"]
            /\ UNCHANGED attempt
    /\ UNCHANGED <<lastId, id>>
    /\ Leave(c)

\* The first waiter takes the lock and writes its request.
Acquire(c) ==
    /\ First(c)
    /\ lock' = c
    /\ pc' = [pc EXCEPT ![c] = "reading"]
    /\ inbox' = IF gone THEN inbox ELSE inbox \cup {RequestOf(c)}
    /\ UNCHANGED <<lastId, attempt, id, got, stream, gone, answers>>

\* Or the write fails, as the server is gone.
WriteFails(c) ==
    /\ First(c)
    /\ gone
    /\ Fail(c)
    /\ UNCHANGED <<got, serverVars>>

\* Fault: the answer is taken for the caller's own, without a look at its id.
AnsweringAny(line, req_id) == line # Other

\* Ids are compared as strings: a server may send its number back as one.
Answering(line, req_id) == line # Other /\ line.request.id = req_id

\* The next line is no answer, or one to somebody who no longer waits.
SkipLine(c) ==
    /\ pc[c] = "reading"
    /\ stream # <<>>
    /\ ~Answering(Head(stream), id[c])
    /\ stream' = Tail(stream)
    /\ UNCHANGED <<clientVars, inbox, gone, answers>>

\* The next line carries the call's id: its result, or a McpToolError.
TakeAnswer(c) ==
    /\ pc[c] = "reading"
    /\ stream # <<>>
    /\ Answering(Head(stream), id[c])
    /\ IF Head(stream).ok
       THEN /\ pc' = [pc EXCEPT ![c] = "result"]
            /\ got' = [got EXCEPT ![c] = Head(stream)]
            /\ Leave(c)
            /\ UNCHANGED <<lastId, attempt, id>>
       ELSE Fail(c) /\ UNCHANGED got
    /\ stream' = Tail(stream)
    /\ UNCHANGED <<inbox, gone, answers>>

\* No line for 30 seconds, or the end of the stream: McpServerUnavailableError.
Unavailable(c) ==
    /\ pc[c] = "reading"
    /\ stream = <<>>
    /\ Fail(c)
    /\ UNCHANGED <<got, serverVars>>

\* Fault: the timeout does not give the lock back.
ToolTimeoutKeeps(c) ==
    /\ pc[c] \in {"waiting", "reading"}
    /\ pc' = [pc EXCEPT ![c] = "timeout"]
    /\ UNCHANGED <<lastId, lock, attempt, id, got, serverVars>>

\* Fault: the timer only covers the wait for the lock.
ToolTimeoutQueued(c) ==
    /\ pc[c] = "waiting"
    /\ pc' = [pc EXCEPT ![c] = "timeout"]
    /\ Leave(c)
    /\ UNCHANGED <<lastId, attempt, id, got, serverVars>>

\* The 120 seconds of invoke_tool are over; it does not try again.
ToolTimeout(c) ==
    /\ pc[c] \in {"waiting", "reading"}
    /\ pc' = [pc EXCEPT ![c] = "timeout"]
    /\ Leave(c)
    /\ UNCHANGED <<lastId, attempt, id, got, serverVars>>

\* The run's task is cancelled.
Cancel(c) ==
    /\ pc[c] \in {"idle", "waiting", "reading"}
    /\ pc' = [pc EXCEPT ![c] = "cancelled"]
    /\ Leave(c)
    /\ UNCHANGED <<lastId, attempt, id, got, serverVars>>

-----------------------------------------------------------------------------
(* The server.                                                              *)

Answer(request, ok) ==
    /\ ~gone
    /\ request \in inbox
    /\ Len(stream) < Room
    /\ inbox' = inbox \ {request}
    /\ stream' = Append(stream, [request |-> request, ok |-> ok])
    /\ answers' = answers \cup {[request |-> request, ok |-> ok]}
    /\ UNCHANGED <<clientVars, gone>>

Notify ==
    /\ ~gone
    /\ Len(stream) < Room
    /\ stream' = Append(stream, Other)
    /\ UNCHANGED <<clientVars, inbox, gone, answers>>

Exit ==
    /\ ~gone
    /\ gone' = TRUE
    /\ UNCHANGED <<clientVars, inbox, stream, answers>>

-----------------------------------------------------------------------------
Step(c) == Acquire(c) \/ WriteFails(c) \/ SkipLine(c) \/ TakeAnswer(c) \/ Unavailable(c)

Next ==
    \/ \E c \in Calls : Invoke(c) \/ Step(c) \/ ToolTimeout(c) \/ Cancel(c)
    \/ \E request \in inbox, ok \in BOOLEAN : Answer(request, ok)
    \/ Notify \/ Exit

\* Tasks that can go on do, and the timers fire. Nothing is asked of the server.
Fairness == \A c \in Calls : WF_vars(Invoke(c)) /\ WF_vars(Step(c)) /\ WF_vars(ToolTimeout(c))

Spec == Init /\ [][Next]_vars /\ Fairness

-----------------------------------------------------------------------------
(* Properties.                                                              *)

\* Only the call that holds the lock reads the stream, and whoever holds it does
\* read: no way out of a call - answer, error, timeout, cancellation in the queue
\* or in the section - lets a second reader in or keeps the lock.
OneReader == \A c \in Calls : pc[c] = "reading" <=> lock = c

\* A result is what the server answered to this very attempt of this call, however
\* late the answers to calls and attempts that gave up arrive.
OwnAnswer ==
    \A c \in Calls : pc[c] = "result" =>
        /\ got[c] \in answers
        /\ got[c].ok
        /\ got[c].request = RequestOf(c)

\* Every tool call comes to an end, also with a server that never answers, that
\* keeps the reader busy with other lines, or that is gone.
CallsReturn ==
    \A c \in Calls : pc[c] = "waiting" ~>
        pc[c] \in {"result", "error", "timeout", "cancelled"}
-----------------------------------------------------------------------------
(* The inductive invariant behind OneReader and OwnAnswer.                  *)

\* What the server was asked carries an id that was given out, and an id that a
\* call still goes by belongs to the request of its current attempt.
Known(request) ==
    /\ request.id <= lastId
    /\ \A c \in Calls :
        pc[c] \in {"waiting", "reading", "result"} /\ id[c] = request.id =>
            request = RequestOf(c)

IdsDiffer == \A c, d \in Calls : id[c] = id[d] /\ id[c] # 0 => c = d

IInv ==
    /\ TypeOK
    /\ OneReader
    /\ OwnAnswer
    /\ IdsDiffer
    /\ \A c \in Calls : id[c] <= lastId
    /\ \A c \in Calls : pc[c] \in {"waiting", "reading"} => id[c] # 0
    /\ \A request \in inbox : Known(request)
    /\ \A answer \in answers : Known(answer.request)
    /\ \A i \in DOMAIN stream : stream[i] # Other => stream[i] \in answers
=============================================================================
