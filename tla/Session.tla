------------------------------ MODULE Session -------------------------------
(***************************************************************************)
(* core/session: one session of the SessionManager, its thread and meta    *)
(* files in the SessionStore, and the agent runs its messages start        *)
(* (runner.py's run_and_capture over AgentLoop).                           *)
(*                                                                         *)
(* Every request of a client is a task of its own.  It is refused at once  *)
(* if the session's lock is held; otherwise it takes the lock without      *)
(* suspending and keeps it until it answers.  Sessions share nothing but   *)
(* the event bus and the permission manager, so one is modelled.           *)
(***************************************************************************)
EXTENDS AgentLoop

CONSTANTS
    Nobody,      \* no request
    Launched,    \* the requests agent.run sent, whose tasks a shutdown cancels
    MayFail      \* an exception may leave a run's loop, or the save of its messages

ASSUME SessionAssumption ==
    /\ Nobody \notin Request
    /\ Launched \subseteq Request
    /\ MayFail \in BOOLEAN

VARIABLES
    mode,       \* session.mode
    status,     \* session.status in memory
    meta,       \* the status in meta.json
    thread,     \* thread.jsonl
    lock,       \* the request that holds the session's lock
    loc,        \* where the handler of a request is
    answered,   \* what a request was answered
    cancelled,  \* requests whose task was cancelled
    covered     \* history: messages that were in a conversation a summary replaced

sessionVars == <<mode, status, meta, thread, lock, loc, answered, cancelled, covered>>
vars == <<loopVars, sessionVars>>

TypeOK ==
    /\ LoopTypeOK
    /\ mode \in {"chat", "one_shot"}
    /\ status \in {"active", "waiting_for_input", "closed"}
    /\ meta \in {"active", "waiting_for_input", "closed"}
    /\ thread \in Seq(Message)
    /\ lock \in Request \cup {Nobody}
    /\ loc \in [Request -> {"idle", "resuming", "heard", "running", "notifying",
                            "closing", "summarising", "done"}]
    /\ answered \in [Request -> {"none", "busy", "refused", "error", "sent", "closed", "summary"}]
    /\ cancelled \subseteq Launched
    /\ covered \subseteq Request

\* create has written meta.json. agent.run creates a one_shot session.
Init ==
    /\ LoopInit
    /\ mode \in IF Launched = {} THEN {"chat", "one_shot"} ELSE {"one_shot"}
    /\ status = "active"
    /\ meta = "active"
    /\ thread = <<>>
    /\ lock = Nobody
    /\ loc = [r \in Request |-> "idle"]
    /\ answered = [r \in Request |-> "none"]
    /\ cancelled = {}
    /\ covered = {}

----------------------------------------------------------------------------
Goto(r, l) == loc' = [loc EXCEPT ![r] = l]

Answer(r, a) ==
    /\ Goto(r, "done")
    /\ answered' = [answered EXCEPT ![r] = a]

\* The handler returns or raises: async with gives the lock back.
Return(r, a) == Answer(r, a) /\ lock' = Nobody /\ DropContext(r)

FreeAlways == TRUE

\* What send_message, close and compact check before they take the lock.
Free == lock = Nobody

\* read_messages
Read(rows) == TrimOrphans(rows)

Busy(r) ==
    /\ loc[r] = "idle"
    /\ ~Free
    /\ Answer(r, "busy")
    /\ UNCHANGED <<loopVars, mode, status, meta, thread, lock, cancelled, covered>>

\* send_message

SendToClosed(r) ==
    /\ loc[r] = "idle"
    /\ Free
    /\ status = "closed"
    /\ Answer(r, "refused")
    /\ UNCHANGED <<loopVars, mode, status, meta, thread, lock, cancelled, covered>>

\* The message goes into the thread and session.message_received is published.
Hears(r) ==
    /\ thread' = Append(thread, UserText(r))
    /\ Goto(r, "heard")

\* A session that waits for input publishes session.resumed first.
Send(r) ==
    /\ loc[r] = "idle"
    /\ Free
    /\ status # "closed"
    /\ lock' = r
    /\ IF status = "waiting_for_input"
       THEN Goto(r, "resuming") /\ UNCHANGED thread
       ELSE Hears(r)
    /\ UNCHANGED <<loopVars, mode, status, meta, answered, cancelled, covered>>

Resume(r) ==
    /\ loc[r] = "resuming"
    /\ Hears(r)
    /\ UNCHANGED <<loopVars, mode, status, meta, lock, answered, cancelled, covered>>

\* The run is noted in meta.json, and starts from what the thread reads as.
StartRun(r) ==
    /\ loc[r] = "heard"
    /\ meta' = status
    /\ StartLoop(r, Read(thread))
    /\ Goto(r, "running")
    /\ UNCHANGED <<mode, status, thread, lock, answered, cancelled, covered>>

RunStep(r) ==
    /\ loc[r] = "running"
    /\ LoopStep(r)
    /\ UNCHANGED sessionVars

\* The exception ends the run, not the request.
LoopRaises(r) ==
    /\ MayFail
    /\ loc[r] = "running"
    /\ phase[r] \in {"acting", "condensing"}
    /\ LeaveLoop(r)
    /\ UNCHANGED sessionVars

\* What run_and_capture saves: the context after its first prefill_len messages.
NewMessages(r) == SubSeq(messages[r], prefill[r] + 1, Len(messages[r]))

\* run.finished is out and the new messages are saved. A cancelled run raises
\* again; otherwise the session's next status is published.
SaveRun(r) ==
    /\ loc[r] = "running"
    /\ phase[r] = "ended"
    /\ thread' = thread \o NewMessages(r)
    /\ IF r \in cancelled
       THEN Return(r, "error") /\ UNCHANGED status
       ELSE /\ status' = IF mode = "one_shot" THEN "closed" ELSE "waiting_for_input"
            /\ Goto(r, "notifying")
            /\ DropContext(r)
            /\ UNCHANGED <<lock, answered>>
    /\ UNCHANGED <<mode, meta, cancelled, covered>>

\* append_messages writes row by row, and may fail after any of them.
SaveFails(r) ==
    /\ MayFail
    /\ loc[r] = "running"
    /\ phase[r] = "ended"
    /\ \E k \in 0..(Len(NewMessages(r)) - 1) : thread' = thread \o SubSeq(NewMessages(r), 1, k)
    /\ Return(r, "error")
    /\ UNCHANGED <<mode, status, meta, cancelled, covered>>

NotifiedUnwritten(r) ==
    /\ loc[r] = "notifying"
    /\ Return(r, "sent")
    /\ UNCHANGED <<mode, status, meta, thread, cancelled, covered>>

\* The event is out: meta.json is written last, and the request is answered.
Notified(r) ==
    /\ loc[r] = "notifying"
    /\ meta' = status
    /\ Return(r, "sent")
    /\ UNCHANGED <<mode, status, thread, cancelled, covered>>

\* The daemon stops and cancels the task of an agent.run, once. In the loop, the
\* run still ends in order; at any other await the request is given up at once.
Cancel(r) ==
    /\ r \in Launched \ cancelled
    /\ loc[r] \in {"resuming", "heard", "running", "notifying"}
    /\ cancelled' = cancelled \cup {r}
    /\ IF loc[r] = "running" /\ phase[r] # "ended"
       THEN LeaveLoop(r) /\ UNCHANGED <<lock, loc, answered>>
       ELSE Return(r, "error")
    /\ UNCHANGED <<mode, status, meta, thread, covered>>

CloseWhileBusy(r) ==
    /\ loc[r] = "idle"
    /\ status' = "closed"
    /\ meta' = "closed"
    /\ Answer(r, "closed")
    /\ UNCHANGED <<loopVars, mode, thread, lock, cancelled, covered>>

\* close: nothing asks whether the session is closed already.
Close(r) ==
    /\ loc[r] = "idle"
    /\ Free
    /\ status' = "closed"
    /\ meta' = "closed"
    /\ lock' = r
    /\ Goto(r, "closing")
    /\ UNCHANGED <<loopVars, mode, thread, answered, cancelled, covered>>

CloseNotified(r) ==
    /\ loc[r] = "closing"
    /\ Return(r, "closed")
    /\ UNCHANGED <<mode, status, meta, thread, cancelled, covered>>

CompactUnlocked(r) ==
    /\ loc[r] = "idle"
    /\ Free
    /\ UNCHANGED lock
    /\ messages' = [messages EXCEPT ![r] = Read(thread)]
    /\ Goto(r, "summarising")
    /\ UNCHANGED <<prefill, step, todo, phase, outcome>>
    /\ UNCHANGED <<mode, status, meta, thread, answered, cancelled, covered>>

\* compact, of a closed session too: the LLM is asked for a summary of what is read.
Compact(r) ==
    /\ loc[r] = "idle"
    /\ Free
    /\ lock' = r
    /\ messages' = [messages EXCEPT ![r] = Read(thread)]
    /\ Goto(r, "summarising")
    /\ UNCHANGED <<prefill, step, todo, phase, outcome>>
    /\ UNCHANGED <<mode, status, meta, thread, answered, cancelled, covered>>

\* write_compacted moves the thread file away and writes the summary to a new one.
Summarised(r) ==
    /\ loc[r] = "summarising"
    /\ thread' = Condensed(r)
    /\ covered' = covered \cup HeardIn(messages[r])
    /\ Return(r, "summary")
    /\ UNCHANGED <<mode, status, meta, cancelled>>

SummaryFailsLocked(r) ==
    /\ loc[r] = "summarising"
    /\ Answer(r, "error")
    /\ DropContext(r)
    /\ UNCHANGED <<lock, mode, status, meta, thread, cancelled, covered>>

\* The LLM failed or gave no summary.
SummaryFails(r) ==
    /\ loc[r] = "summarising"
    /\ Return(r, "error")
    /\ UNCHANGED <<mode, status, meta, thread, cancelled, covered>>

----------------------------------------------------------------------------
HandlerStep(r) ==
    \/ Resume(r) \/ StartRun(r) \/ RunStep(r) \/ SaveRun(r) \/ Notified(r)
    \/ CloseNotified(r) \/ Summarised(r) \/ SummaryFails(r)

Next ==
    \E r \in Request :
        \/ Busy(r) \/ SendToClosed(r) \/ Send(r) \/ Close(r) \/ Compact(r)
        \/ HandlerStep(r) \/ LoopRaises(r) \/ SaveFails(r) \/ Cancel(r)

Spec == Init /\ [][Next]_vars

\* The LLM client and every tool call return or fail in bounded time, and the
\* event loop runs what is ready. Nothing need raise or be cancelled.
FairSpec == Spec /\ \A r \in Request : WF_vars(HandlerStep(r))
----------------------------------------------------------------------------
(* Properties *)

\* Safety: the rows that one request wrote to the thread (a message and its
\* run, or a summary) are never interleaved with those of another.
TurnsContiguous ==
    \A i, j, k \in 1..Len(thread) :
        i < j /\ j < k /\ thread[i].turn = thread[k].turn => thread[j].turn = thread[i].turn

\* Safety: the first thing a run sends to the LLM ends with the message it is
\* to answer. (It does not when an unanswered tool_use anywhere before it makes
\* read_messages drop the tail of the thread.)
RunSeesMessage ==
    \A r \in Request : loc[r] = "running" /\ phase[r] = "planning" /\ step[r] = 1 =>
        messages[r] # <<>> /\ messages[r][Len(messages[r])] = UserText(r)

\* Safety: a run that starts from a paired thread never sends the LLM a list in
\* which a tool call lacks its results or the reverse, whatever replies, cut
\* replies, tool results and summaries came before in the run.
RequestsPaired ==
    \A r \in Request : phase[r] = "planning" /\ Paired(Read(thread)) => Paired(messages[r])

\* Safety: a message whose sender was told it was run is still in the thread,
\* unless a summary was made of a conversation that held it.
NothingLost ==
    \A r \in Request :
        loc[r] \in {"heard", "running", "notifying"} \/ answered[r] = "sent" =>
            r \in HeardIn(thread) \cup covered

\* Safety: whenever no request holds the session, meta.json has its status,
\* although send_message writes it last. (A task cancelled while it publishes
\* the new status leaves the old one behind.)
MetaFresh == lock = Nobody /\ cancelled = {} => meta = status

\* Safety: what read_messages returns, for a run, a summary or a client that
\* asks for the history, pairs every tool call with its results, even after
\* runs that were cut in the middle or whose messages were saved in part.
ThreadReadsPaired == Paired(Read(thread))

\* Refinement: the lock, the thread and the status obey Dialogue.
Talk == INSTANCE Dialogue
          WITH owner <- lock, heard <- HeardIn(thread), open <- status # "closed"

ImplementsDialogue == Talk!Spec

\* Liveness: a session that is taken becomes free again, whatever the request
\* that took it met: no exit of a handler keeps the lock.
SessionIsFreed == lock # Nobody ~> lock = Nobody
----------------------------------------------------------------------------
(* The inductive invariant behind TypeOK, TurnsContiguous, MetaFresh and    *)
(* ImplementsDialogue                                                       *)

Holding == {"resuming", "heard", "running", "notifying", "closing", "summarising"}

\* Where the handler of a request and its run's loop stand.
HandlerInv(r) ==
    /\ lock = r <=> loc[r] \in Holding
    /\ loc[r] = "running" <=> phase[r] # "none"
    /\ phase[r] \in {"planning", "acting", "condensing"} => step[r] >= 1
    /\ phase[r] = "condensing" => step[r] < MaxSteps
    /\ phase[r] = "acting" => todo[r] # <<>>
    /\ loc[r] \in {"resuming", "heard", "running"} => status # "closed"
    /\ loc[r] \in {"heard", "running", "notifying"} => r \in HeardIn(thread)

\* What a run adds to its context is its own.
ContextInv(r) ==
    \A i \in 1..Len(messages[r]) :
        loc[r] = "running" /\ i > prefill[r] =>
            /\ messages[r][i].turn = r
            /\ messages[r][i].text = "message" => r \in HeardIn(thread)

\* Rows come from requests that were heard, and those of the request that has
\* the session are the last ones.
RowsInv ==
    \A i \in 1..Len(thread) :
        /\ loc[thread[i].turn] \notin {"idle", "resuming"}
        /\ thread[i].turn = lock => \A j \in i..Len(thread) : thread[j].turn = lock

\* The status runs ahead of meta.json only while it is published.
MetaInv == cancelled = {} /\ meta # status => \E r \in Request : loc[r] = "notifying"

IInv ==
    /\ TypeOK
    /\ \A r \in Request : HandlerInv(r) /\ ContextInv(r)
    /\ RowsInv
    /\ TurnsContiguous
    /\ MetaInv
----------------------------------------------------------------------------
(* What the replies must be like, and the invariants that rest on IInv,     *)
(* behind RequestsPaired, ThreadReadsPaired, RunSeesMessage and NothingLost *)

\* The loop executes the tool calls of a reply, answers them or ends with them.
NoStrayCalls == \A n \in 1..MaxCalls : <<"other", n>> \notin Reply

\* It executes or answers them; and no run is left in the middle of a step.
AllAnswered ==
    /\ NoStrayCalls
    /\ \A n \in 1..MaxCalls : <<"end_turn", n>> \notin Reply
    /\ ~MayFail
    /\ Launched = {}

IdsOf(calls) == {calls[i] : i \in 1..Len(calls)}
TodoIds(r) == IdsOf(todo[r])

\* A run that started well is at a pair's end whenever it asks the LLM, or may ask it next.
PairedInv(r) ==
    loc[r] = "running" /\ Paired(Read(thread)) =>
        /\ phase[r] \in {"planning", "condensing"} => Paired(messages[r])
        /\ phase[r] = "acting" => PairedBut(messages[r], TodoIds(r))

\* The calls behind the first p messages of m are those of run r's first s steps.
CallsUpTo(m, p, r, s) ==
    \A i \in (p + 1)..Len(m) : \A id \in m[i].uses : id[1] = r /\ id[2] <= s

\* The message with the calls ids is the last one, or has results behind it.
Awaiting(m, p, ids) ==
    \E i \in (p + 1)..Len(m) :
        /\ ids \subseteq m[i].uses
        /\ \/ i = Len(m) /\ m[i].results = {}
           \/ i + 1 = Len(m) /\ m[i + 1].results # {}

\* What a run adds is orderly, and no step makes calls twice.
CallsInv(r) ==
    loc[r] = "running" =>
        /\ phase[r] # "condensing"
        /\ prefill[r] <= Len(messages[r])
        /\ OrderlyFrom(messages[r], prefill[r])
        /\ CallsUpTo(messages[r], prefill[r], r, IF phase[r] = "planning" THEN step[r] - 1 ELSE step[r])
        /\ phase[r] = "acting" => Awaiting(messages[r], prefill[r], TodoIds(r))

\* The calls in the thread are those of runs that are over.
RowCallsInv ==
    /\ OrderlyFrom(thread, 0)
    /\ \A i \in 1..Len(thread) : \A id \in thread[i].uses :
          id[1] = thread[i].turn /\ loc[id[1]] \notin {"heard", "running"}

OrderInv == RowCallsInv /\ \A r \in Request : CallsInv(r)

\* Only the step being executed has calls without results.
DueInv(r) ==
    loc[r] = "running" =>
        /\ OneKind(messages[r])
        /\ AnsweredBut(messages[r], IF phase[r] = "acting" THEN TodoIds(r) ELSE {})

\* The thread has none, so that it is read in full.
FullInv(r) ==
    /\ loc[r] = "heard" => thread # <<>> /\ thread[Len(thread)] = UserText(r)
    /\ loc[r] = "summarising" => messages[r] = thread

AnsweredInv ==
    /\ OneKind(thread)
    /\ AnsweredBut(thread, {})
    /\ \A r \in Request : DueInv(r) /\ FullInv(r)
    /\ RunSeesMessage
    /\ NothingLost
=============================================================================
