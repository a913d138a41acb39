---------------------------- MODULE EventStream -----------------------------
(***************************************************************************)
(* The way of an event from a run to the clients: core/events/bus.py and   *)
(* writer.py, transport/ipc_broadcaster.py, the connections of             *)
(* transport/socket_server.py and the subscribe handler of app.py.         *)
(*                                                                         *)
(* All runs publish on one bus.  Its first subscriber that suspends is the *)
(* broadcaster, which writes an event to one subscription after the other  *)
(* and awaits each connection's drain; then the writers of all runs that   *)
(* go on append it to their events.jsonl, without suspending.  A run       *)
(* awaits the end of a publish before the next one, so the nth event of a  *)
(* run is <<run, n>>; the last one is its run.finished.                    *)
(***************************************************************************)
EXTENDS Naturals, Sequences, FiniteSets, SequencesExt

CONSTANTS
    Runs,        \* run ids
    Conns,       \* connections, each of one client that subscribes at most once
    LastEvent,   \* the number of events a run publishes
    Params,      \* connection -> the parameters of event.subscribe its client may send
    NoRun,       \* replay_from_run = None
    Unwritable   \* runs whose events.jsonl may refuse a write

ASSUME EventStreamAssumption ==
    /\ LastEvent \in Nat \ {0}
    /\ NoRun \notin Runs
    /\ Unwritable \subseteq Runs
    /\ Params \in [Conns -> SUBSET [topics : {"*", "run.finished"},
                                     scope : Runs \cup {"global"},
                                     replay : Runs \cup {NoRun}]]

VARIABLES
    run,      \* run -> what it does, the number of its last event, and in a
              \* publish the subscriptions still to be served and the dead writers
    file,     \* run -> its events.jsonl
    subs,     \* the broadcaster's _subscriptions, a sequence of [conn, params]
    conn,     \* "open", "lost" (the peer is gone), "ended" (its finally has run)
    sent,     \* connection -> the events written to it
    request,  \* connection -> where its one request is
    since     \* history: connection -> run -> the run's last event when it subscribed

vars == <<run, file, subs, conn, sent, request, since>>

Event == Runs \X (1..LastEvent)
AnyParams == UNION {Params[c] : c \in Conns}
Subscription == [conn : Conns, params : AnyParams]
NoRequest == [pc |-> "none"]

TypeOK ==
    /\ run \in [Runs -> [pc : {"new", "going", "pushing", "over"}, n : 0..LastEvent,
                         todo : Seq(Subscription), dead : SUBSET Conns]]
    /\ file \in [Runs -> Seq(Event)]
    /\ subs \in Seq(Subscription)
    /\ conn \in [Conns -> {"open", "lost", "ended"}]
    /\ sent \in [Conns -> Seq(Event)]
    /\ request \in [Conns -> {NoRequest} \cup
           [pc : {"task", "replaying", "subscribed", "refused", "dropped"}, params : AnyParams]]
    /\ since \in [Conns -> [Runs -> 0..LastEvent]]

Init ==
    /\ run = [r \in Runs |-> [pc |-> "new", n |-> 0, todo |-> <<>>, dead |-> {}]]
    /\ file = [r \in Runs |-> <<>>]
    /\ subs = <<>>
    /\ conn = [c \in Conns |-> "open"]
    /\ sent = [c \in Conns |-> <<>>]
    /\ request = [c \in Conns |-> NoRequest]
    /\ since = [c \in Conns |-> [r \in Runs |-> 0]]

-----------------------------------------------------------------------------
(* What a subscription is sent.                                             *)

\* _matches_topic: of the patterns, all that counts here is whether they take
\* every event or only those at the end of a run.
MatchesTopic(e, params) == params.topics = "*" \/ e[2] = LastEvent

\* _matches_scope
MatchesScope(e, params) == params.scope \in {"global", e[1]}

Matches(e, params) == MatchesTopic(e, params) /\ MatchesScope(e, params)

Subscribed(c) == \E i \in DOMAIN subs : subs[i].conn = c

\* The elements of s at the positions K, in their order: SelectSeq, in a form that
\* the proofs can use.
Nth(K, j) == CHOOSE i \in K : Cardinality({k \in K : k <= i}) = j
Kept(s, K) == [j \in 1..Cardinality(K) |-> s[Nth(K, j)]]

Unsubscribe(dead) == Kept(subs, {i \in DOMAIN subs : subs[i].conn \notin dead})

-----------------------------------------------------------------------------
(* Runs: run_and_capture, EventBus.publish and IpcEventBroadcaster.handle.  *)

\* Fault: the writer of the run is subscribed to the bus twice.
WriteFilesTwice(r, e, failed) ==
    [q \in Runs |-> IF q = r THEN file[q] \o <<e, e>> ELSE file[q]]

\* EventWriter.handle of every writer that is open, the run's own among them: the
\* event is appended, or the write failed and the error was logged.
WriteFiles(r, e, failed) ==
    [q \in Runs |-> IF (q = r \/ run[q].pc \in {"going", "pushing"}) /\ q \notin failed
                    THEN Append(file[q], e) ELSE file[q]]

\* Fault: the run does not see that its last event was published.
ReturnGoesOn(r, e, dead) ==
    /\ subs' = Unsubscribe(dead)
    /\ run' = [run EXCEPT ![r] = [pc |-> "going", n |-> e[2], todo |-> <<>>, dead |-> {}]]
    /\ UNCHANGED <<file, sent>>

\* handle ends by dropping the dead writers; then the files are written and publish
\* returns. After run.finished the run closes its own writer.
Return(r, e, dead) ==
    /\ subs' = Unsubscribe(dead)
    /\ \E failed \in SUBSET Unwritable : file' = WriteFiles(r, e, failed)
    /\ run' = [run EXCEPT ![r] = [pc |-> IF e[2] = LastEvent THEN "over" ELSE "going",
                                  n |-> e[2], todo |-> <<>>, dead |-> {}]]
    /\ UNCHANGED sent

\* The event is written to the first subscription of todo, whose drain is awaited.
Push(r, e, todo, dead) ==
    /\ run' = [run EXCEPT ![r] = [pc |-> "pushing", n |-> e[2], todo |-> todo, dead |-> dead]]
    /\ sent' = [sent EXCEPT ![Head(todo).conn] = IF conn[Head(todo).conn] = "open"
                                                 THEN Append(@, e) ELSE @]
    /\ UNCHANGED <<subs, file>>

Serve(r, e, todo, dead) ==
    IF todo = <<>> THEN Return(r, e, dead) ELSE Push(r, e, todo, dead)

\* publish of the run's next event: handle copies the subscriptions. Before the first
\* one, run.started, the run opens its EventWriter and subscribes it.
Publish(r) ==
    /\ run[r].pc \in {"new", "going"}
    /\ LET e == <<r, run[r].n + 1>>
       IN  Serve(r, e, Kept(subs, {i \in DOMAIN subs : Matches(e, subs[i].params)}), {})
    /\ UNCHANGED <<conn, request, since>>

\* Fault: the first dead connection ends the broadcast.
DrainedStops(r) ==
    /\ run[r].pc = "pushing"
    /\ LET c == Head(run[r].todo).conn
       IN  Serve(r, <<r, run[r].n>>, IF conn[c] = "open" THEN Tail(run[r].todo) ELSE <<>>,
                 IF conn[c] = "open" THEN run[r].dead ELSE run[r].dead \cup {c})
    /\ UNCHANGED <<conn, request, since>>

\* Fault: dead connections are skipped and kept.
DrainedKeeps(r) ==
    /\ run[r].pc = "pushing"
    /\ Serve(r, <<r, run[r].n>>, Tail(run[r].todo), {})
    /\ UNCHANGED <<conn, request, since>>

\* Fault: the drain of a dead connection is awaited for ever.
DrainedWaits(r) ==
    /\ run[r].pc = "pushing"
    /\ conn[Head(run[r].todo).conn] = "open"
    /\ Serve(r, <<r, run[r].n>>, Tail(run[r].todo), run[r].dead)
    /\ UNCHANGED <<conn, request, since>>

\* The drain of the subscription in turn returns, or raises as its connection is gone.
Drained(r) ==
    /\ run[r].pc = "pushing"
    /\ LET c == Head(run[r].todo).conn
       IN  Serve(r, <<r, run[r].n>>, Tail(run[r].todo),
                 IF conn[c] = "open" THEN run[r].dead ELSE run[r].dead \cup {c})
    /\ UNCHANGED <<conn, request, since>>

-----------------------------------------------------------------------------
(* Connections: _read_loop, _handle_connection and _handle_line.            *)

\* The client sends a line; the read loop makes a task of it.
Request(c, params) ==
    /\ conn[c] = "open"
    /\ request[c] = NoRequest
    /\ request' = [request EXCEPT ![c] = [pc |-> "task", params |-> params]]
    /\ UNCHANGED <<run, file, subs, conn, sent, since>>

\* Not JSON, no request, no such method, or parameters that fail validation:
\* an error is sent, and lost if the connection is.
Refuse(c) ==
    /\ request[c].pc = "task"
    /\ request' = [request EXCEPT ![c].pc = IF conn[c] = "open" THEN "refused" ELSE "dropped"]
    /\ UNCHANGED <<run, file, subs, conn, sent, since>>

\* What _replay_events writes: the scope is not looked at.
Replayed(params) ==
    IF params.replay = NoRun THEN <<>>
    ELSE LET events == file[params.replay]
         IN  Kept(events, {i \in DOMAIN events : MatchesTopic(events[i], params)})

\* broadcaster.subscribe, and the answer. The writer is not asked whether it is open.
Enlist(c) ==
    /\ subs' = Append(subs, [conn |-> c, params |-> request[c].params])
    /\ since' = [since EXCEPT ![c] = [r \in Runs |-> run[r].n]]
    /\ request' = [request EXCEPT ![c].pc = "subscribed"]

\* The handler replays the file; with nothing to replay it goes on at once.
Subscribe(c) ==
    /\ request[c].pc = "task"
    /\ LET replayed == Replayed(request[c].params)
       IN  /\ sent' = [sent EXCEPT ![c] = IF conn[c] = "open" THEN replayed ELSE @]
           /\ IF replayed = <<>> THEN Enlist(c)
              ELSE /\ request' = [request EXCEPT ![c].pc = "replaying"]
                   /\ UNCHANGED <<subs, since>>
    /\ UNCHANGED <<run, file, conn>>

\* Fault: what was published during the drain is replayed from the start.
ReplayDrainedAgain(c) ==
    /\ request[c].pc = "replaying"
    /\ conn[c] = "open"
    /\ sent' = [sent EXCEPT ![c] = @ \o Replayed(request[c].params)]
    /\ Enlist(c)
    /\ UNCHANGED <<run, file, conn>>

\* The drain of the replay returns.
ReplayDrained(c) ==
    /\ request[c].pc = "replaying"
    /\ conn[c] = "open"
    /\ Enlist(c)
    /\ UNCHANGED <<run, file, conn, sent>>

\* It raises: the handler fails, and so does sending its error.
ReplayBroken(c) ==
    /\ request[c].pc = "replaying"
    /\ conn[c] # "open"
    /\ request' = [request EXCEPT ![c].pc = "dropped"]
    /\ UNCHANGED <<run, file, subs, conn, sent, since>>

\* The client goes, and the transport notices. One that never asked for anything
\* goes unnoticed by the rest.
Lose(c) ==
    /\ conn[c] = "open"
    /\ request[c] # NoRequest
    /\ conn' = [conn EXCEPT ![c] = "lost"]
    /\ UNCHANGED <<run, file, subs, sent, request, since>>

\* The read loop returns or raises; the finally clause of _handle_connection.
EndConnection(c) ==
    /\ conn[c] = "lost"
    /\ conn' = [conn EXCEPT ![c] = "ended"]
    /\ subs' = Unsubscribe({c})
    /\ UNCHANGED <<run, file, sent, request, since>>

-----------------------------------------------------------------------------
RunStep(r) == Publish(r) \/ Drained(r)
HandlerStep(c) == Refuse(c) \/ Subscribe(c) \/ ReplayDrained(c) \/ ReplayBroken(c)

Next ==
    \/ \E r \in Runs : RunStep(r)
    \/ \E c \in Conns :
        \/ \E params \in Params[c] : Request(c, params)
        \/ HandlerStep(c)
        \/ Lose(c) \/ EndConnection(c)

\* A run goes on to its end. A drain returns: no client stops reading for ever
\* and keeps its connection, for one that does would stop every run.
Fairness ==
    /\ \A r \in Runs : WF_vars(RunStep(r))
    /\ \A c \in Conns : WF_vars(HandlerStep(c)) /\ WF_vars(EndConnection(c))

Spec == Init /\ [][Next]_vars /\ Fairness

-----------------------------------------------------------------------------
(* Properties.                                                              *)

\* No event of a run comes twice, or before an earlier one of the same run.
InOrder(events) ==
    \A i, j \in DOMAIN events :
        i < j /\ events[i][1] = events[j][1] => events[i][2] < events[j][2]

\* Replay and live stream together: no client is sent an event of a run twice,
\* or before an earlier one of the same run, however the replay of a file, the
\* copies of the subscriptions and the writes of other runs interleave.
StreamInOrder == \A c \in Conns : InOrder(sent[c])

\* Every events.jsonl, which takes the events of all runs that go on at the same
\* time, holds each event at most once, those of a run in the order it published them.
FilesInOrder == \A q \in Runs : InOrder(file[q])

\* From its registration on a client is sent every event that it asked for, also
\* when other subscriptions come, go and die while the broadcaster awaits a drain.
LiveComplete ==
    \A c \in Conns : conn[c] = "open" /\ request[c].pc = "subscribed" =>
        \A r \in Runs :
            \A n \in (since[c][r] + 1)..(run[r].n - (IF run[r].pc = "pushing" THEN 1 ELSE 0)) :
                Matches(<<r, n>>, request[c].params) => Contains(sent[c], <<r, n>>)

\* A subscription registered after its connection ended, which no finally
\* clause will remove, is dropped by the broadcasts of a run that still has
\* events for it.
AbandonedForgotten ==
    \A c \in Conns :
        (/\ conn[c] = "ended" /\ Subscribed(c)
         /\ \E r \in Runs : run[r].n < LastEvent /\ MatchesScope(<<r, LastEvent>>, request[c].params))
            ~> ~Subscribed(c)

\* Every publish returns, so every run ends, whatever clients come, stall for a
\* while and go, and whatever is registered while a publish waits.
RunsEnd == \A r \in Runs : <>(run[r].pc = "over")
-----------------------------------------------------------------------------
(* The inductive invariant behind FilesInOrder.                             *)

\* What the files are and the numbers of the events, as far as the order of a
\* file depends on it.
Numbered ==
    /\ run = [r \in Runs |-> run[r]]
    /\ \A r \in Runs : run[r].n \in Nat
    /\ file \in [Runs -> Seq(Runs \X Nat)]

\* No file is ahead of a run: the event that is being pushed is in none yet.
FilesBehind ==
    \A q \in Runs : \A i \in DOMAIN file[q] :
        LET r == file[q][i][1] IN
        /\ file[q][i][2] <= run[r].n
        /\ run[r].pc = "pushing" => file[q][i][2] < run[r].n

IInv == Numbered /\ FilesBehind /\ FilesInOrder

-----------------------------------------------------------------------------
(* The inductive invariants behind TypeOK, StreamInOrder and LiveComplete.  *)

\* A run publishes its last event once, and waits in a publish only for subscriptions.
Counted ==
    \A r \in Runs :
        /\ run[r].pc \in {"new", "going"} => run[r].n < LastEvent
        /\ run[r].pc = "pushing" <=> run[r].todo # <<>>
        /\ run[r].pc = "pushing" => run[r].n > 0

TypeInv == TypeOK /\ Counted

\* In the list and in its copies a connection is there once, and as it asked.
OneEach(list) == \A i, j \in DOMAIN list : list[i].conn = list[j].conn => i = j
AsAsked(list) ==
    \A i \in DOMAIN list :
        request[list[i].conn] = [pc |-> "subscribed", params |-> list[i].params]
Registered(list) == OneEach(list) /\ AsAsked(list)

\* todo lists the subscriptions a publish has left: its event is still to be written to c.
Awaits(todo, c) == \E k \in DOMAIN todo : k > 1 /\ todo[k].conn = c

\* No client is ahead of a run: it has not got the event that is still to be written to it.
SentBehind ==
    \A c \in Conns : \A i \in DOMAIN sent[c] :
        LET r == sent[c][i][1] IN
        /\ sent[c][i][2] <= run[r].n
        /\ Awaits(run[r].todo, c) => sent[c][i][2] < run[r].n

OrderInv ==
    /\ Registered(subs) /\ \A r \in Runs : Registered(run[r].todo)
    /\ SentBehind /\ StreamInOrder

\* Every event since c subscribed was written to it, or will be by the publish under way.
Served(c) ==
    \A r \in Runs : \A n \in (since[c][r] + 1)..run[r].n :
        Matches(<<r, n>>, request[c].params) =>
            Contains(sent[c], <<r, n>>) \/ (n = run[r].n /\ Awaits(run[r].todo, c))

DeliveryInv ==
    /\ \A r \in Runs : \A c \in run[r].dead : conn[c] # "open"
    /\ \A c \in Conns : conn[c] = "open" /\ request[c].pc = "subscribed" =>
            Subscribed(c) /\ Served(c)
=============================================================================
