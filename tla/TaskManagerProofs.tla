------------------------- MODULE TaskManagerProofs --------------------------
(***************************************************************************)
(* Released and ReadsBack for any number of tasks, attempts and failing    *)
(* writes, from the inductive invariant IInv of TaskManager.               *)
(***************************************************************************)
EXTENDS TaskManager, TLAPS

LEMMA NoTaskIsNoTask == NoTask \notin Tasks
  BY DEF NoTask, Tasks, Statuses

\* What update makes of a task is a task again.
LEMMA UpdatedIsTask ==
  ASSUME NEW task \in Tasks, NEW request \in Requests
  PROVE  Updated(task, request) \in Tasks
  BY DEF Updated, Tasks, Requests

LEMMA BoardTask ==
  ASSUME IInv, NEW t \in Ids, file[t] = "task"
  PROVE  board[t] \in Tasks /\ board[t] # NoTask
  <1>1. t < nextId
    BY DEF IInv, IdsInOrder
  <1>. QED
    BY <1>1 DEF IInv, IdsInOrder, TypeOK

THEOREM InitInv == Init => IInv
  <1> SUFFICES ASSUME Init PROVE IInv
    OBVIOUS
  <1> USE TaskAssumption DEF Init
  <1>1. TypeOK
    <2>1. file \in [Ids -> {"none", "task", "truncated"}] /\ status \in [Ids -> Statuses]
      BY DEF Statuses
    <2>2. blockedBy \in [Ids -> SUBSET Ids] /\ nextId \in 1..(MaxTasks + 1)
      OBVIOUS
    <2>3. 1 \in Ids
      BY DEF Ids
    <2>4. call \in Requests
      BY <2>3 DEF Requests
    <2>5. copy \in Tasks /\ board \in [Ids -> Tasks \cup {NoTask}]
      BY DEF Blank, Tasks, Statuses
    <2>6. attempt \in 1..Attempts /\ faults \in 0..MaxFaults
      OBVIOUS
    <2>. QED
      BY <2>1, <2>2, <2>4, <2>5, <2>6 DEF TypeOK
  <1>2. Released /\ FilesAsAnnounced /\ CallAsAsked
    BY DEF Released, FilesAsAnnounced, CallAsAsked
  <1>3. IdsInOrder
    BY DEF IdsInOrder, Ids
  <1>. QED
    BY <1>1, <1>2, <1>3 DEF IInv

-----------------------------------------------------------------------------
(* The steps.                                                               *)

LEMMA CreateStep ==
  ASSUME IInv, NEW deps \in Lists, Create(deps)
  PROVE  IInv'
  <1> USE DEF IInv, Create, files
  <1>1. TypeOK'
    <2>1. call' \in Requests
      BY TaskAssumption DEF Requests, Statuses
    <2>2. copy' \in Tasks
      BY TaskAssumption DEF Tasks, Statuses
    <2>3. attempt' \in 1..Attempts
      BY TaskAssumption
    <2>. QED
      BY <2>1, <2>2, <2>3 DEF TypeOK
  <1>2. Released' /\ IdsInOrder'
    BY DEF Released, IdsInOrder
  <1>3. FilesAsAnnounced'
    BY DEF FilesAsAnnounced, Missing
  <1>4. CallAsAsked'
    BY DEF CallAsAsked
  <1>. QED
    BY <1>1, <1>2, <1>3, <1>4 DEF IInv

\* What Load leaves of the invariant: the copy is what the results say, but for the
\* entries that may be missing from the file it was loaded from.
LEMMA LoadedCopy ==
  ASSUME IInv, NEW request \in Requests, file[request.id] = "task"
  PROVE  /\ Updated(Saved(request.id), request) \in Tasks
         /\ Updated(Saved(request.id), request).status
              = Updated(board[request.id], request).status
         /\ Updated(Saved(request.id), request).blockedBy
              \subseteq Updated(board[request.id], request).blockedBy
         /\ Updated(board[request.id], request).blockedBy
              \ Updated(Saved(request.id), request).blockedBy \subseteq Missing(request.id)
  <1>1. request.id \in Ids
    BY DEF Requests
  <1>2. Saved(request.id) \in Tasks
    BY <1>1 DEF IInv, TypeOK, Saved, Tasks
  <1>3. Updated(Saved(request.id), request) \in Tasks
    BY <1>2, UpdatedIsTask
  <1>4. /\ status[request.id] = board[request.id].status
        /\ blockedBy[request.id] \subseteq board[request.id].blockedBy
        /\ board[request.id].blockedBy \ blockedBy[request.id] \subseteq Missing(request.id)
    BY <1>1 DEF IInv, FilesAsAnnounced
  <1>. QED
    BY <1>3, <1>4 DEF Updated, Saved

LEMMA UpdateStep ==
  ASSUME IInv, NEW request \in UpdateRequests, Update(request)
  PROVE  IInv'
  <1> USE DEF Update, files
  <1>0. request \in Requests /\ request.op = "update"
    BY TaskAssumption DEF UpdateRequests, Requests
  <1>1. request.id \in Ids
    BY <1>0 DEF Requests
  <1>2. \A t \in Ids : Missing(t) \subseteq Missing(t)'
    BY DEF Missing
  <1>3. TypeOK'
    <2>1. copy' \in Tasks /\ pc' \in {"idle", "clearing", "saving"} /\ todo' \subseteq Ids
      BY <1>0, LoadedCopy DEF Load
    <2>2. attempt' \in 1..Attempts /\ call' \in Requests
      BY <1>0, TaskAssumption
    <2>. QED
      BY <2>1, <2>2 DEF IInv, TypeOK
  <1>4. Released' /\ IdsInOrder'
    BY DEF IInv, Released, IdsInOrder
  <1>5. FilesAsAnnounced'
    BY <1>2 DEF IInv, FilesAsAnnounced
  <1>6. CallAsAsked'
    <2>1. call' = request /\ file' = file /\ board' = board /\ blockedBy' = blockedBy
      OBVIOUS
    <2>2. copy' = Updated(Saved(request.id), request)
      BY DEF Load
    <2>3. /\ pc' = "saving" => todo' = {} /\ request.status # "completed"
          /\ pc' = "clearing" => request.status = "completed"
      BY DEF Load
    <2>4. request.status = "completed" => \A t \in Ids \ todo' : file[t] # "task"
      BY DEF Load, IInv, TypeOK
    <2>5. Missing(request.id) \subseteq Missing(request.id)'
      BY <1>1, <1>2
    <2>. QED
      BY <1>0, <2>1, <2>2, <2>3, <2>4, <2>5, LoadedCopy DEF CallAsAsked
  <1>. QED
    BY <1>3, <1>4, <1>5, <1>6 DEF IInv

LEMMA VisitStep ==
  ASSUME IInv, NEW u \in Ids, Visit(u)
  PROVE  IInv'
  <1> USE DEF Visit
  <1>0. call \in Requests /\ call.status = "completed" /\ call.op = "update" /\ call.id \in Ids
    <2>1. call \in Requests
      BY DEF IInv, TypeOK
    <2>2. call.op \in {"create", "update"}
      BY <2>1 DEF Requests
    <2>. QED
      BY <2>1, <2>2 DEF IInv, CallAsAsked, Requests
  <1>1. /\ blockedBy' \in [Ids -> SUBSET Ids]
        /\ \A t \in Ids : /\ blockedBy'[t] \subseteq blockedBy[t]
                          /\ blockedBy[t] \ blockedBy'[t] \subseteq {call.id}
        /\ \A t \in Ids \ {u} : blockedBy'[t] = blockedBy[t]
        /\ file[u] = "task" => call.id \notin blockedBy'[u]
    BY DEF IInv, TypeOK
  <1>2. \A t \in Ids : Missing(t)' = Missing(t) /\ call.id \in Missing(t)
    BY <1>0 DEF Missing
  <1>3. TypeOK'
    BY <1>1 DEF IInv, TypeOK
  <1>4. Released' /\ IdsInOrder'
    <2>1. outcome # "ok"
      BY DEF IInv, CallAsAsked
    <2>. QED
      BY <2>1 DEF IInv, Released, IdsInOrder
  <1>5. FilesAsAnnounced'
    BY <1>1, <1>2 DEF IInv, FilesAsAnnounced
  <1>6. CallAsAsked'
    BY <1>0, <1>1, <1>2 DEF IInv, CallAsAsked
  <1>. QED
    BY <1>3, <1>4, <1>5, <1>6 DEF IInv

LEMMA ClearedStep ==
  ASSUME IInv, Cleared
  PROVE  IInv'
  <1> USE DEF Cleared, files
  <1>1. TypeOK' /\ Released' /\ IdsInOrder'
    BY DEF IInv, TypeOK, Released, IdsInOrder
  <1>2. \A t \in Ids : Missing(t)' = Missing(t)
    BY DEF Missing
  <1>3. FilesAsAnnounced' /\ CallAsAsked'
    BY <1>2 DEF IInv, FilesAsAnnounced, CallAsAsked, TypeOK, Requests
  <1>. QED
    BY <1>1, <1>3 DEF IInv

\* What a result says of the tasks, and of the one it is about.
LEMMA AnnouncedTasks ==
  ASSUME IInv, pc = "saving"
  PROVE  /\ call.id \in Ids
         /\ \A t \in Ids : board[t] = NoTask /\ t # call.id => Announced(t) = NoTask
         /\ \A t \in Ids : board[t] # NoTask => Announced(t) \in Tasks
         /\ Announced(call.id) \in Tasks
  <1>1. call \in Requests /\ copy \in Tasks /\ board \in [Ids -> Tasks \cup {NoTask}]
    BY DEF IInv, TypeOK
  <1>2. call.id \in Ids /\ call.op \in {"create", "update"}
    BY <1>1 DEF Requests
  <1>3. \A t \in Ids : board[t] # NoTask => [board[t] EXCEPT !.blockedBy = @ \ {call.id}] \in Tasks
    BY <1>1 DEF Tasks
  <1>4. \A t \in Ids : board[t] # NoTask => Updated(board[t], call) \in Tasks
    BY <1>1, UpdatedIsTask
  <1>5. call.op = "update" => board[call.id] # NoTask
    BY <1>2, BoardTask DEF IInv, CallAsAsked
  <1>6. Announced(call.id) \in Tasks
    BY <1>1, <1>2, <1>4, <1>5 DEF Announced
  <1>7. \A t \in Ids \ {call.id} : board[t] = NoTask => Announced(t) = NoTask
    BY DEF Announced
  <1>8. \A t \in Ids \ {call.id} : board[t] # NoTask => Announced(t) \in Tasks
    BY <1>1, <1>3 DEF Announced
  <1>. QED
    BY <1>2, <1>6, <1>7, <1>8

LEMMA SaveStep ==
  ASSUME IInv, Save
  PROVE  IInv'
  <1> USE DEF Save, Return
  <1>0. /\ call \in Requests /\ copy \in Tasks /\ call.id \in Ids
        /\ call.op \in {"create", "update"}
    BY DEF IInv, TypeOK, Requests
  <1>1. /\ call'.id = call.id /\ call'.op = call.op /\ call'.status = call.status
        /\ call' \in Requests
    BY <1>0 DEF Requests
  <1>2. /\ file' \in [Ids -> {"none", "task", "truncated"}]
        /\ status' \in [Ids -> Statuses]
        /\ blockedBy' \in [Ids -> SUBSET Ids]
    BY <1>0 DEF IInv, TypeOK, Tasks
  <1>3. board' \in [Ids -> Tasks \cup {NoTask}]
    BY AnnouncedTasks
  <1>4. call.op = "create" => call.id = nextId
    BY DEF IInv, CallAsAsked
  <1>5. nextId' \in 1..(MaxTasks + 1)
    BY <1>0, <1>4, TaskAssumption DEF IInv, TypeOK, Ids
  <1>6. TypeOK'
    <2>1. copy' \in Tasks /\ attempt' \in 1..Attempts
      BY TaskAssumption DEF Blank, Tasks, Statuses
    <2>. QED
      BY <1>1, <1>2, <1>3, <1>5, <2>1 DEF IInv, TypeOK
  <1>7. Released'
    <2>1. pc = "saving" /\ todo = {}
      BY DEF IInv, CallAsAsked
    <2>2. call.status = "completed" => \A t \in Ids \ {call.id} : file[t] = "task" =>
            call.id \notin blockedBy[t]
      BY <2>1 DEF IInv, CallAsAsked
    <2>3. \A t \in Ids \ {call.id} : file'[t] = file[t] /\ blockedBy'[t] = blockedBy[t]
      BY DEF IInv, TypeOK
    <2>. QED
      BY <1>1, <2>2, <2>3 DEF Released
  <1>8. IdsInOrder'
    <2>1. \A t \in Ids : board'[t] # NoTask <=> board[t] # NoTask \/ t = call.id
      BY AnnouncedTasks, NoTaskIsNoTask
    <2>2. \A t \in Ids : file'[t] = IF t = call.id THEN "task" ELSE file[t]
      BY DEF IInv, TypeOK
    <2>3. call.op = "update" => call.id < nextId
      BY <1>0 DEF IInv, CallAsAsked, IdsInOrder
    <2>. QED
      BY <1>0, <1>4, <2>1, <2>2, <2>3 DEF IInv, IdsInOrder, TypeOK, Ids
  <1>9. FilesAsAnnounced'
    <2> SUFFICES ASSUME NEW t \in Ids, file'[t] = "task"
                 PROVE  /\ status'[t] = board'[t].status
                        /\ blockedBy'[t] \subseteq board'[t].blockedBy
                        /\ board'[t].blockedBy \ blockedBy'[t] \subseteq failed \cup {t}
      BY DEF FilesAsAnnounced, Missing
    <2>0. board'[t] = Announced(t)
      OBVIOUS
    <2>1. CASE t = call.id
      <3>1. status'[t] = copy.status /\ blockedBy'[t] = copy.blockedBy
        BY <2>1 DEF IInv, TypeOK
      <3>2. CASE call.op = "create"
        <4>1. board[t] = NoTask
          BY <1>4, <2>1, <3>2 DEF IInv, IdsInOrder, TypeOK
        <4>2. board'[t] = copy
          BY <2>0, <2>1, <3>2, <4>1 DEF Announced
        <4>. QED
          BY <3>1, <4>2
      <3>3. CASE call.op = "update"
        <4>1. board'[t] = Updated(board[t], call)
          BY <2>0, <2>1, <3>3 DEF Announced
        <4>2. /\ copy.status = Updated(board[t], call).status
              /\ copy.blockedBy \subseteq Updated(board[t], call).blockedBy
              /\ Updated(board[t], call).blockedBy \ copy.blockedBy \subseteq Missing(t)
          BY <2>1, <3>3 DEF IInv, CallAsAsked
        <4>3. Missing(t) \subseteq failed \cup {t}
          BY <2>1 DEF Missing
        <4>. QED
          BY <3>1, <4>1, <4>2, <4>3
      <3>. QED
        BY <1>0, <3>2, <3>3
    <2>2. CASE t # call.id
      <3>1. file[t] = "task" /\ status'[t] = status[t] /\ blockedBy'[t] = blockedBy[t]
        BY <2>2 DEF IInv, TypeOK
      <3>2. /\ status[t] = board[t].status
            /\ blockedBy[t] \subseteq board[t].blockedBy
            /\ board[t].blockedBy \ blockedBy[t] \subseteq Missing(t)
        BY <3>1 DEF IInv, FilesAsAnnounced
      <3>3. board[t] \in Tasks /\ board[t] # NoTask
        BY <3>1, BoardTask
      <3>4. CASE call.status = "completed"
        <4>1. board'[t].status = board[t].status
              /\ board'[t].blockedBy = board[t].blockedBy \ {call.id}
          BY <2>0, <2>2, <3>3, <3>4 DEF Announced, Tasks
        <4>2. call.id \notin blockedBy[t]
          BY <2>2, <3>1, <3>4 DEF IInv, CallAsAsked
        <4>3. Missing(t) \subseteq failed \cup {t} \cup {call.id}
          BY DEF Missing
        <4>. QED
          BY <3>1, <3>2, <4>1, <4>2, <4>3
      <3>5. CASE call.status # "completed"
        <4>1. board'[t] = board[t]
          BY <2>0, <2>2, <3>5 DEF Announced
        <4>2. Missing(t) \subseteq failed \cup {t}
          BY <3>5 DEF Missing
        <4>. QED
          BY <3>1, <3>2, <4>1, <4>2
      <3>. QED
        BY <3>4, <3>5
    <2>. QED
      BY <2>1, <2>2
  <1>10. CallAsAsked'
    BY DEF CallAsAsked
  <1>. QED
    BY <1>6, <1>7, <1>8, <1>9, <1>10 DEF IInv

LEMMA WriteFailsStep ==
  ASSUME IInv, NEW u \in Ids, WriteFails(u)
  PROVE  IInv'
  <1> USE DEF WriteFails
  <1>0. /\ call \in Requests /\ call.id \in Ids /\ call.op \in {"create", "update"}
        /\ pc # "idle"
    BY DEF IInv, TypeOK, Requests
  <1>1. /\ file' \in [Ids -> {"none", "task", "truncated"}]
        /\ \A t \in Ids : file'[t] = IF t = u THEN "truncated" ELSE file[t]
        /\ \A t \in Ids : file'[t] = "task" => file[t] = "task" /\ t # u
        /\ status' = status /\ blockedBy' = blockedBy /\ board' = board /\ nextId' = nextId
    BY DEF IInv, TypeOK
  <1>2. /\ call'.id = call.id /\ call'.op = call.op /\ call'.status = call.status
        /\ call' \in Requests
    BY <1>0 DEF Retry, Return, Requests
  <1>3. failed' \subseteq Ids /\ failed \subseteq failed'
    BY <1>0 DEF IInv, TypeOK, Retry
  <1>4. CASE attempt < Attempts /\ (call.op = "create" \/ u # call.id)
    <2>1. call' = call /\ outcome' = outcome /\ failed' = failed /\ attempt' = attempt + 1
      BY <1>4 DEF Retry
    <2>2. call.op = "update" => file[call.id] = "task"
      BY <1>0 DEF IInv, CallAsAsked
    <2>3. CASE call.op = "create"
      <3>1. pc' = pc /\ copy' = copy /\ todo' = todo /\ pc = "saving"
        BY <1>4, <2>3 DEF Retry, IInv, CallAsAsked
      <3>2. u = call.id /\ u = nextId
        BY <2>3, <3>1, <1>0 DEF IInv, CallAsAsked
      <3>. QED
        <4>1. TypeOK'
          BY <1>1, <1>4, <2>1, <3>1, TaskAssumption DEF IInv, TypeOK
        <4>2. Released' /\ IdsInOrder'
          BY <1>0, <1>1, <2>1, <3>1, <3>2 DEF IInv, Released, IdsInOrder, CallAsAsked
        <4>3. FilesAsAnnounced' /\ CallAsAsked'
          BY <1>0, <1>1, <2>1, <2>3, <3>1
          DEF IInv, FilesAsAnnounced, Missing, CallAsAsked
        <4>. QED
          BY <4>1, <4>2, <4>3 DEF IInv
    <2>4. CASE call.op = "update"
      <3>0. Load(call) /\ u # call.id
        BY <1>4, <2>4 DEF Retry
      <3>1. /\ copy' = Updated(Saved(call.id), call) /\ copy' \in Tasks
            /\ pc' \in {"clearing", "saving"} /\ todo' \subseteq Ids
        BY <1>0, <2>2, <2>4, <3>0, LoadedCopy DEF Load
      <3>2. TypeOK'
        BY <1>1, <1>2, <1>4, <2>1, <3>1, TaskAssumption DEF IInv, TypeOK
      <3>3. \A t \in Ids : Missing(t)' = Missing(t)
        BY <1>0, <2>1, <3>1 DEF Missing
      <3>4. Released' /\ IdsInOrder'
        <4>1. outcome # "ok"
          BY <1>0 DEF IInv, CallAsAsked
        <4>2. u <= nextId /\ (u = call.id \/ file[u] = "task")
          BY <1>0 DEF IInv, CallAsAsked, IdsInOrder, TypeOK, Ids
        <4>. QED
          BY <1>1, <2>1, <4>1, <4>2 DEF IInv, Released, IdsInOrder
      <3>5. FilesAsAnnounced'
        BY <1>1, <3>3 DEF IInv, FilesAsAnnounced
      <3>6. CallAsAsked'
        <4>1. pc' = "saving" => todo' = {} /\ call.status # "completed"
          BY <3>0 DEF Load
        <4>2. pc' = "clearing" => call.status = "completed"
          BY <3>0 DEF Load
        <4>3. call.status = "completed" => \A t \in Ids \ todo' : file[t] # "task"
          BY <3>0 DEF Load, IInv, TypeOK
        <4>4. file'[call.id] = "task" /\ outcome' = "none"
          BY <1>0, <1>1, <2>1, <2>2, <2>4, <3>0 DEF IInv, CallAsAsked
        <4>. QED
          BY <1>0, <1>1, <2>1, <2>2, <2>4, <3>1, <3>3, <4>1, <4>2, <4>3, <4>4, LoadedCopy
          DEF CallAsAsked
      <3>. QED
        BY <3>2, <3>4, <3>5, <3>6 DEF IInv
    <2>. QED
      BY <1>0, <2>3, <2>4
  <1>5. CASE ~(attempt < Attempts /\ (call.op = "create" \/ u # call.id))
    <2>1. Return("error") /\ failed' = IF call.status = "completed" THEN failed \cup {call.id} ELSE failed
      BY <1>5 DEF Retry
    <2>2. TypeOK'
      <3>1. copy' \in Tasks /\ attempt' \in 1..Attempts
        BY <2>1, TaskAssumption DEF Return, Blank, Tasks, Statuses
      <3>. QED
        BY <1>1, <1>2, <1>3, <2>1, <3>1, TaskAssumption DEF IInv, TypeOK, Return
    <2>3. Released' /\ CallAsAsked'
      BY <2>1 DEF Return, Released, CallAsAsked
    <2>4. IdsInOrder'
      <3>1. u <= nextId
        BY <1>0 DEF IInv, CallAsAsked, IdsInOrder, TypeOK, Ids
      <3>. QED
        BY <1>1, <3>1 DEF IInv, IdsInOrder
    <2>5. FilesAsAnnounced'
      <3>1. \A t \in Ids : Missing(t) \subseteq Missing(t)'
        BY <2>1 DEF Missing, Return
      <3>. QED
        BY <1>1, <3>1 DEF IInv, FilesAsAnnounced
    <2>. QED
      BY <2>2, <2>3, <2>4, <2>5 DEF IInv
  <1>. QED
    BY <1>4, <1>5

THEOREM StepInv == IInv /\ [Next]_vars => IInv'
  <1> SUFFICES ASSUME IInv, [Next]_vars PROVE IInv'
    OBVIOUS
  <1>1. ASSUME NEW deps \in Lists, Create(deps) PROVE IInv'
    BY <1>1, CreateStep
  <1>2. ASSUME NEW request \in UpdateRequests, Update(request) PROVE IInv'
    BY <1>2, UpdateStep
  <1>3. ASSUME NEW t \in Ids, Visit(t) PROVE IInv'
    BY <1>3, VisitStep
  <1>4. ASSUME NEW t \in Ids, WriteFails(t) PROVE IInv'
    BY <1>4, WriteFailsStep
  <1>5. CASE UNCHANGED vars
    <2> USE <1>5 DEF vars, files
    <2>1. TypeOK' /\ Released' /\ IdsInOrder'
      BY DEF IInv, TypeOK, Released, IdsInOrder
    <2>2. FilesAsAnnounced' /\ CallAsAsked'
      BY DEF IInv, FilesAsAnnounced, CallAsAsked, Missing
    <2>. QED
      BY <2>1, <2>2 DEF IInv
  <1>. QED
    BY <1>1, <1>2, <1>3, <1>4, <1>5, ClearedStep, SaveStep DEF Next

-----------------------------------------------------------------------------
\* Whatever writes fail, a task that was reported as completed holds up no other task
\* that can be read.
THEOREM AlwaysReleased == Spec => []Released
  <1>1. IInv => Released
    BY DEF IInv
  <1>. QED
    BY InitInv, StepInv, <1>1, PTL DEF Spec

\* Whatever writes fail, the tasks that can be read are what the results of the calls
\* say, but for the entries ReadsBack excepts.
THEOREM AlwaysReadsBack == Spec => []ReadsBack
  <1>1. IInv => ReadsBack
    BY DEF IInv, ReadsBack, FilesAsAnnounced, IdsInOrder, TypeOK, Missing
  <1>. QED
    BY InitInv, StepInv, <1>1, PTL DEF Spec

\* The files, the dependencies and the calls under way stay what the task tools can
\* write: for any number of tasks and any dependencies.
THEOREM TypeCorrect == Spec => []TypeOK
  <1>1. IInv => TypeOK
    BY DEF IInv
  <1>. QED
    BY InitInv, StepInv, <1>1, PTL DEF Spec
=============================================================================
