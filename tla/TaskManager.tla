---------------------------- MODULE TaskManager -----------------------------
(***************************************************************************)
(* core/task/manager.py behind the tools task_create and task_update,      *)
(* under the retry loop of core/tools/invocation.py: the task list an      *)
(* agent keeps for its run, one JSON file per task.                        *)
(*                                                                         *)
(* The tool calls of a run come one after the other, so what can go wrong  *)
(* is a write that fails: write_text has truncated the file by then, and   *)
(* a file that cannot be parsed is a task nobody can load, list or update. *)
(* Completing a task writes several files before its own.  What invoke_    *)
(* tool tries again starts from the files the failed attempt left.         *)
(*                                                                         *)
(* A call that is refused (no such task, no such dependency, no such       *)
(* status) has written nothing and is no step.  Only the fields a later    *)
(* call depends on are kept: the status and blocked_by.                    *)
(***************************************************************************)
EXTENDS Naturals

CONSTANTS
    MaxTasks,    \* bound: tasks that are created
    MaxFaults,   \* bound: writes that fail
    Attempts,    \* how often invoke_tool invokes a tool that fails
    Lists        \* the lists of ids that calls carry

Ids == 1..MaxTasks
Statuses == {"pending", "in_progress", "completed"}

ASSUME TaskAssumption ==
    /\ MaxTasks \in Nat \ {0}
    /\ MaxFaults \in Nat
    /\ Attempts \in Nat \ {0}
    /\ Lists \subseteq SUBSET Ids

VARIABLES
    file,        \* id -> what task_<id>.json is: no file, a task, truncated
    status,      \* id -> its "status"
    blockedBy,   \* id -> its "blocked_by"
    nextId,      \* _next_id
    pc,          \* where the manager is
    call,        \* the arguments of the call; of the last one when idle
    copy,        \* the Task object the call will save
    todo,        \* files _clear_dependency has yet to visit
    attempt,     \* the attempt of invoke_tool
    faults,      \* writes that failed
    outcome,     \* of the last call
    board,       \* history: the tasks as the results of the calls describe them
    failed       \* history: tasks whose completion was answered with an error

files == <<file, status, blockedBy>>
vars == <<files, nextId, pc, call, copy, todo, attempt, faults, outcome, board, failed>>

Tasks == [status : Statuses, blockedBy : SUBSET Ids]
NoTask == [status |-> "none", blockedBy |-> {}]
Blank == [status |-> "pending", blockedBy |-> {}]
Requests == [op : {"create", "update"}, id : Ids, status : Statuses \cup {"none"},
             add : SUBSET Ids, remove : SUBSET Ids]

TypeOK ==
    /\ file \in [Ids -> {"none", "task", "truncated"}]
    /\ status \in [Ids -> Statuses]
    /\ blockedBy \in [Ids -> SUBSET Ids]
    /\ nextId \in 1..(MaxTasks + 1)
    /\ pc \in {"idle", "clearing", "saving"}
    /\ call \in Requests
    /\ copy \in Tasks
    /\ todo \subseteq Ids
    /\ attempt \in 1..Attempts
    /\ faults \in 0..MaxFaults
    /\ outcome \in {"none", "ok", "error"}
    /\ board \in [Ids -> Tasks \cup {NoTask}]
    /\ failed \subseteq Ids

\* The directory is the run's own and new.
Init ==
    /\ file = [t \in Ids |-> "none"]
    /\ status = [t \in Ids |-> "pending"]
    /\ blockedBy = [t \in Ids |-> {}]
    /\ nextId = 1
    /\ pc = "idle"
    /\ call = [op |-> "update", id |-> 1, status |-> "none", add |-> {}, remove |-> {}]
    /\ copy = Blank
    /\ todo = {}
    /\ attempt = 1
    /\ faults = 0
    /\ outcome = "none"
    /\ board = [t \in Ids |-> NoTask]
    /\ failed = {}

-----------------------------------------------------------------------------
\* What update makes of a task: the status, then the added, then the removed ids.
Updated(task, request) ==
    [status |-> IF request.status = "none" THEN task.status ELSE request.status,
     blockedBy |-> (task.blockedBy \cup request.add) \ request.remove]

Saved(t) == [status |-> status[t], blockedBy |-> blockedBy[t]]

\* task_create: the files of all dependencies exist, in whatever state they are.
Create(deps) ==
    /\ pc = "idle"
    /\ nextId \in Ids
    /\ \A d \in deps : file[d] # "none"
    /\ call' = [op |-> "create", id |-> nextId, status |-> "pending", add |-> deps, remove |-> {}]
    /\ copy' = [status |-> "pending", blockedBy |-> deps]
    /\ pc' = "saving"
    /\ todo' = {}
    /\ attempt' = 1
    /\ outcome' = "none"
    /\ UNCHANGED <<files, nextId, faults, board, failed>>

\* update loads the task; what it will save is this copy, whatever it clears meanwhile.
Load(request) ==
    /\ copy' = Updated(Saved(request.id), request)
    /\ pc' = IF request.status = "completed" THEN "clearing" ELSE "saving"
    /\ todo' = IF request.status = "completed" THEN {t \in Ids : file[t] # "none"} ELSE {}

\* task_update of a task that can be loaded.
Update(request) ==
    /\ pc = "idle"
    /\ request.op = "update"
    /\ file[request.id] = "task"
    /\ call' = request
    /\ Load(request)
    /\ attempt' = 1
    /\ outcome' = "none"
    /\ UNCHANGED <<files, nextId, faults, board, failed>>

\* Fault: the search ends at the first task that was waiting.
VisitFirst(t) ==
    /\ pc = "clearing"
    /\ t \in todo
    /\ todo' = IF file[t] = "task" /\ call.id \in blockedBy[t] THEN {} ELSE todo \ {t}
    /\ blockedBy' = IF file[t] = "task"
                    THEN [blockedBy EXCEPT ![t] = @ \ {call.id}] ELSE blockedBy
    /\ UNCHANGED <<file, status, nextId, pc, call, copy, attempt, faults, outcome, board, failed>>

\* _clear_dependency visits a file: it is skipped when it cannot be parsed or does
\* not name the completed task, and rewritten otherwise.
Visit(t) ==
    /\ pc = "clearing"
    /\ t \in todo
    /\ todo' = todo \ {t}
    /\ blockedBy' = IF file[t] = "task"
                    THEN [blockedBy EXCEPT ![t] = @ \ {call.id}] ELSE blockedBy
    /\ UNCHANGED <<file, status, nextId, pc, call, copy, attempt, faults, outcome, board, failed>>

\* All files visited: on to the task's own.
Cleared ==
    /\ pc = "clearing"
    /\ todo = {}
    /\ pc' = "saving"
    /\ UNCHANGED <<files, nextId, call, copy, todo, attempt, faults, outcome, board, failed>>

\* The call is over: its Task object is gone, what it was asked to list too.
Return(result) ==
    /\ pc' = "idle"
    /\ outcome' = result
    /\ call' = [call EXCEPT !.add = {}, !.remove = {}]
    /\ copy' = Blank
    /\ todo' = {}
    /\ attempt' = 1

\* What the result of the call says of all tasks: a completed task goes from the
\* lists of all others. A task stays what it was created as and updated to, whatever
\* is created later.
Announced(t) ==
    IF t = call.id
    THEN IF call.op = "update" THEN Updated(board[t], call)
         ELSE IF board[t] = NoTask THEN copy ELSE board[t]
    ELSE IF call.status = "completed" /\ board[t] # NoTask
         THEN [board[t] EXCEPT !.blockedBy = @ \ {call.id}]
         ELSE board[t]

\* Fault: the id of a new task is given out again.
SaveSameId ==
    /\ pc = "saving"
    /\ file' = [file EXCEPT ![call.id] = "task"]
    /\ status' = [status EXCEPT ![call.id] = copy.status]
    /\ blockedBy' = [blockedBy EXCEPT ![call.id] = copy.blockedBy]
    /\ Return("ok")
    /\ board' = [t \in Ids |-> Announced(t)]
    /\ UNCHANGED <<nextId, faults, failed>>

\* The task is written and the result returned.
Save ==
    /\ pc = "saving"
    /\ file' = [file EXCEPT ![call.id] = "task"]
    /\ status' = [status EXCEPT ![call.id] = copy.status]
    /\ blockedBy' = [blockedBy EXCEPT ![call.id] = copy.blockedBy]
    /\ nextId' = IF call.op = "create" THEN nextId + 1 ELSE nextId
    /\ Return("ok")
    /\ board' = [t \in Ids |-> Announced(t)]
    /\ UNCHANGED <<faults, failed>>

\* Fault: a failed attempt is made up for without a look at the number of attempts.
RetryOnceMore(t) ==
    IF attempt <= Attempts /\ (call.op = "create" \/ t # call.id)
    THEN /\ attempt' = attempt + 1
         /\ IF call.op = "create" THEN UNCHANGED <<pc, copy, todo>> ELSE Load(call)
         /\ UNCHANGED <<call, outcome, failed>>
    ELSE /\ Return("error")
         /\ failed' = IF call.status = "completed" THEN failed \cup {call.id} ELSE failed

\* The write of task t failed, and so did the tool: invoke_tool tries again. A new
\* attempt of create comes as far as the first, one of update only if it can still
\* load the task; if not, none of the remaining attempts can.
Retry(t) ==
    IF attempt < Attempts /\ (call.op = "create" \/ t # call.id)
    THEN /\ attempt' = attempt + 1
         /\ IF call.op = "create" THEN UNCHANGED <<pc, copy, todo>> ELSE Load(call)
         /\ UNCHANGED <<call, outcome, failed>>
    ELSE /\ Return("error")
         /\ failed' = IF call.status = "completed" THEN failed \cup {call.id} ELSE failed

\* A write fails after it has truncated the file.
WriteFails(t) ==
    /\ faults < MaxFaults
    /\ \/ pc = "clearing" /\ t \in todo /\ file[t] = "task" /\ call.id \in blockedBy[t]
       \/ pc = "saving" /\ t = call.id
    /\ faults' = faults + 1
    /\ file' = [file EXCEPT ![t] = "truncated"]
    /\ Retry(t)
    /\ UNCHANGED <<status, blockedBy, nextId, board>>

-----------------------------------------------------------------------------
UpdateRequests ==
    [op : {"update"}, id : Ids, status : Statuses \cup {"none"}, add : Lists, remove : Lists]

Next ==
    \/ \E deps \in Lists : Create(deps)
    \/ \E request \in UpdateRequests : Update(request)
    \/ \E t \in Ids : Visit(t) \/ WriteFails(t)
    \/ Cleared
    \/ Save

Spec == Init /\ [][Next]_vars

-----------------------------------------------------------------------------
(* Properties.                                                              *)

\* When task_update has said that a task is completed, no other task that can be
\* read names it in blocked_by, also when writes failed and were tried again on the
\* way (the tool's description: it is cleared from other tasks' blocked_by).
Released ==
    outcome = "ok" /\ call.op = "update" /\ call.status = "completed" =>
        \A t \in Ids \ {call.id} : file[t] = "task" => call.id \notin blockedBy[t]

\* Between calls, a task that can be read is what the results of all calls say:
\* ids are not given out twice, clearing touches nothing else, and the copy that is
\* saved overwrites nothing that was cleared. Two entries may be missing: a task whose
\* completion was reported as failed may already be gone from the lists of others,
\* and a task that named itself may have been cleared in its own file, and loaded
\* again from there because another file could not be written.
ReadsBack ==
    pc = "idle" => \A t \in Ids : file[t] = "task" =>
        /\ board[t] # NoTask
        /\ status[t] = board[t].status
        /\ blockedBy[t] \subseteq board[t].blockedBy
        /\ \A d \in board[t].blockedBy \ blockedBy[t] : d \in failed \/ d = t

-----------------------------------------------------------------------------
(* The inductive invariant behind Released and ReadsBack.                   *)

\* The ids given out are the ones below nextId; a creation that failed may have left
\* a truncated file at nextId.
IdsInOrder ==
    \A t \in Ids :
        /\ board[t] # NoTask <=> t < nextId
        /\ t < nextId => file[t] # "none"
        /\ file[t] = "task" => t < nextId

\* Entries that may be missing from a list of t.
Missing(t) == failed \cup {t} \cup
    (IF pc # "idle" /\ call.status = "completed" THEN {call.id} ELSE {})

FilesAsAnnounced ==
    \A t \in Ids : file[t] = "task" =>
        /\ status[t] = board[t].status
        /\ blockedBy[t] \subseteq board[t].blockedBy
        /\ board[t].blockedBy \ blockedBy[t] \subseteq Missing(t)

\* The call in hand, its copy, and what it has cleared so far.
CallAsAsked ==
    pc # "idle" =>
        /\ call.op = "create" => /\ call.id = nextId
                       /\ call.status = "pending"
                       /\ pc = "saving"
        /\ call.op = "update" =>
             /\ file[call.id] = "task"
             /\ copy.status = Updated(board[call.id], call).status
             /\ copy.blockedBy \subseteq Updated(board[call.id], call).blockedBy
             /\ Updated(board[call.id], call).blockedBy \ copy.blockedBy
                  \subseteq Missing(call.id)
        /\ call.status = "completed" =>
             \A t \in Ids \ ({call.id} \cup todo) : file[t] = "task" =>
                 call.id \notin blockedBy[t]
        /\ pc = "clearing" => call.status = "completed"
        /\ pc = "saving" => todo = {}
        /\ outcome = "none"

IInv == TypeOK /\ Released /\ IdsInOrder /\ FilesAsAnnounced /\ CallAsAsked
=============================================================================
