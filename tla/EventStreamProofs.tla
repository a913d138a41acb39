------------------------- MODULE EventStreamProofs --------------------------
(***************************************************************************)
(* For any number of runs, events and connections and any failing writes:  *)
(* FilesInOrder from the inductive invariant IInv of EventStream, the      *)
(* types from TypeInv, and on top of these StreamInOrder from OrderInv and *)
(* LiveComplete from DeliveryInv.                                          *)
(***************************************************************************)
EXTENDS EventStream, FiniteSetTheorems, FunctionTheorems, TLAPS

THEOREM InitInv == Init => IInv
  BY DEF Init, IInv, Numbered, FilesBehind, FilesInOrder, InOrder

\* A file that takes an event with a higher number than all of the same run.
LEMMA Appended ==
  ASSUME NEW g \in Seq(Runs \X Nat), InOrder(g), NEW r \in Runs, NEW n \in Nat,
         \A i \in DOMAIN g : g[i][1] = r => g[i][2] < n
  PROVE  /\ Append(g, <<r, n>>) \in Seq(Runs \X Nat)
         /\ InOrder(Append(g, <<r, n>>))
         /\ \A i \in DOMAIN Append(g, <<r, n>>) :
              \/ i \in DOMAIN g /\ Append(g, <<r, n>>)[i] = g[i]
              \/ Append(g, <<r, n>>)[i] = <<r, n>>
  <1> DEFINE e == <<r, n>>
             f == Append(g, e)
  <1>1. e \in Runs \X Nat
    OBVIOUS
  <1>2. /\ f \in Seq(Runs \X Nat)
        /\ \A i \in DOMAIN f : (i \in DOMAIN g /\ f[i] = g[i]) \/ (i = Len(g) + 1 /\ f[i] = e)
        /\ \A i \in DOMAIN f : i <= Len(g) + 1
        /\ Len(g) \in Nat /\ \A i \in DOMAIN f : i \in Nat
    <2> HIDE DEF e
    <2>. QED
      BY <1>1
  <1>3. InOrder(f)
    <2> SUFFICES ASSUME NEW i \in DOMAIN f, NEW j \in DOMAIN f, i < j, f[i][1] = f[j][1]
                 PROVE  f[i][2] < f[j][2]
      BY DEF InOrder
    <2>1. i # Len(g) + 1
      <3> HIDE DEF e, f
      <3>. QED
        BY <1>2
    <2>2. i \in DOMAIN g /\ f[i] = g[i]
      BY <2>1, <1>2
    <2>3. CASE j \in DOMAIN g /\ f[j] = g[j]
      BY <2>2, <2>3 DEF InOrder
    <2>4. CASE f[j] = e
      <3>1. g[i][1] = r
        BY <2>2, <2>4
      <3>2. g[i][2] < n
        BY <3>1, <2>2
      <3>. QED
        BY <3>2, <2>2, <2>4
    <2>. QED
      BY <1>2, <2>3, <2>4
  <1>. QED
    BY <1>2, <1>3

\* A publish goes on: to the next subscription, or into the files and back.
LEMMA ServeStep ==
  ASSUME IInv, NEW r \in Runs, NEW n \in Nat, NEW todo, NEW dead,
         n >= run[r].n,
         \A p \in Runs : \A i \in DOMAIN file[p] : file[p][i][1] = r => file[p][i][2] < n,
         Serve(r, <<r, n>>, todo, dead)
  PROVE  IInv'
  <1>1. CASE Return(r, <<r, n>>, dead)
    <2>1. PICK failed : file' = WriteFiles(r, <<r, n>>, failed)
      BY <1>1 DEF Return
    <2>2. /\ run' = [q \in Runs |-> run'[q]]
          /\ run'[r].n = n /\ run'[r].pc # "pushing"
          /\ \A q \in Runs \ {r} : run'[q] = run[q]
      BY <1>1 DEF Return, IInv, Numbered
    <2>3. \A q \in Runs :
            /\ file'[q] \in Seq(Runs \X Nat)
            /\ InOrder(file'[q])
            /\ \A i \in DOMAIN file'[q] :
                 (i \in DOMAIN file[q] /\ file'[q][i] = file[q][i]) \/ file'[q][i] = <<r, n>>
      <3>1. TAKE q \in Runs
      <3>2. file[q] \in Seq(Runs \X Nat) /\ InOrder(file[q])
        BY DEF IInv, Numbered, FilesInOrder
      <3>3. CASE file'[q] = file[q]
        BY <3>2, <3>3
      <3>4. CASE file'[q] = Append(file[q], <<r, n>>)
        BY <3>2, <3>4, Appended
      <3>. QED
        BY <2>1, <3>3, <3>4 DEF WriteFiles
    <2>4. Numbered'
      <3>1. file' \in [Runs -> Seq(Runs \X Nat)]
        BY <2>1, <2>3 DEF WriteFiles
      <3>. QED
        BY <3>1, <2>2 DEF IInv, Numbered
    <2>5. FilesBehind'
      <3> SUFFICES ASSUME NEW q \in Runs, NEW i \in DOMAIN file'[q]
                   PROVE  LET p == file'[q][i][1] IN
                          /\ file'[q][i][2] <= run'[p].n
                          /\ run'[p].pc = "pushing" => file'[q][i][2] < run'[p].n
        BY DEF FilesBehind
      <3>1. CASE file'[q][i] = <<r, n>>
        BY <3>1, <2>2
      <3>2. CASE i \in DOMAIN file[q] /\ file'[q][i] = file[q][i]
        <4>1. file[q][i] \in Runs \X Nat
          BY <3>2 DEF IInv, Numbered
        <4>2. CASE file[q][i][1] = r
          BY <4>1, <4>2, <3>2, <2>2
        <4>3. CASE file[q][i][1] # r
          BY <4>1, <4>3, <3>2, <2>2 DEF IInv, FilesBehind
        <4>. QED
          BY <4>2, <4>3
      <3>. QED
        BY <2>3, <3>1, <3>2
    <2>. QED
      BY <2>3, <2>4, <2>5 DEF IInv, FilesInOrder
  <1>2. CASE todo # <<>> /\ Push(r, <<r, n>>, todo, dead)
    <2>1. /\ run' = [q \in Runs |-> run'[q]]
          /\ run'[r].n = n
          /\ \A q \in Runs \ {r} : run'[q] = run[q]
          /\ file' = file
      BY <1>2 DEF Push, IInv, Numbered
    <2>2. FilesBehind'
      <3> SUFFICES ASSUME NEW q \in Runs, NEW i \in DOMAIN file[q]
                   PROVE  LET p == file[q][i][1] IN
                          /\ file[q][i][2] <= run'[p].n
                          /\ run'[p].pc = "pushing" => file[q][i][2] < run'[p].n
        BY <2>1 DEF FilesBehind
      <3>1. file[q][i] \in Runs \X Nat
        BY DEF IInv, Numbered
      <3>2. CASE file[q][i][1] = r
        BY <3>1, <3>2, <2>1
      <3>3. CASE file[q][i][1] # r
        BY <3>1, <3>3, <2>1 DEF IInv, FilesBehind
      <3>. QED
        BY <3>2, <3>3
    <2>. QED
      BY <2>1, <2>2 DEF IInv, Numbered, FilesInOrder
  <1>. QED
    BY <1>1, <1>2 DEF Serve

\* Every step preserves the invariant: only a publish writes files.
THEOREM StepInv == IInv /\ [Next]_vars => IInv'
  <1> SUFFICES ASSUME IInv, [Next]_vars PROVE IInv'
    OBVIOUS
  <1>1. ASSUME NEW r \in Runs, Publish(r) PROVE IInv'
    <2>1. run[r].n \in Nat /\ run[r].n + 1 \in Nat /\ run[r].n + 1 >= run[r].n
      BY DEF IInv, Numbered
    <2>2. \A p \in Runs : \A i \in DOMAIN file[p] :
            file[p][i][1] = r => file[p][i][2] < run[r].n + 1
      <3> SUFFICES ASSUME NEW p \in Runs, NEW i \in DOMAIN file[p], file[p][i][1] = r
                   PROVE  file[p][i][2] < run[r].n + 1
        OBVIOUS
      <3>1. file[p][i] \in Runs \X Nat
        BY DEF IInv, Numbered
      <3>2. file[p][i][2] <= run[r].n
        BY DEF IInv, FilesBehind
      <3>. QED
        BY <3>1, <3>2, <2>1
    <2>3. \E todo : Serve(r, <<r, run[r].n + 1>>, todo, {})
      BY <1>1 DEF Publish
    <2>. QED
      BY <2>1, <2>2, <2>3, ServeStep
  <1>2. ASSUME NEW r \in Runs, Drained(r) PROVE IInv'
    <2>1. run[r].pc = "pushing" /\ run[r].n \in Nat /\ run[r].n >= run[r].n
      BY <1>2 DEF Drained, IInv, Numbered
    <2>2. \A p \in Runs : \A i \in DOMAIN file[p] : file[p][i][1] = r => file[p][i][2] < run[r].n
      BY <2>1 DEF IInv, FilesBehind
    <2>3. \E todo, dead : Serve(r, <<r, run[r].n>>, todo, dead)
      BY <1>2 DEF Drained
    <2>. QED
      BY <2>1, <2>2, <2>3, ServeStep
  <1>3. CASE UNCHANGED <<run, file>>
    BY <1>3 DEF IInv, Numbered, FilesBehind, FilesInOrder
  <1>4. ASSUME NEW c \in Conns,
               \/ \E params \in Params[c] : Request(c, params)
               \/ HandlerStep(c) \/ Lose(c) \/ EndConnection(c)
        PROVE  UNCHANGED <<run, file>>
    BY <1>4 DEF Request, HandlerStep, Refuse, Subscribe, ReplayDrained, ReplayBroken, Lose,
                EndConnection
  <1>. QED
    BY <1>1, <1>2, <1>3, <1>4 DEF Next, RunStep, vars

THEOREM Invariance == Spec => []IInv
  BY InitInv, StepInv, PTL DEF Spec

\* No events.jsonl ever holds an event twice or out of its run's order, although all
\* runs write all files: for any runs, events, subscriptions and failing writes.
THEOREM AlwaysFilesInOrder == Spec => []FilesInOrder
  <1>1. IInv => FilesInOrder
    BY DEF IInv
  <1>. QED
    BY <1>1, Invariance, PTL

-----------------------------------------------------------------------------
(* Positions in a sequence and the elements kept there.                     *)

\* The numbers of a finite set are counted off by Nth, in their order.
LEMMA CountedOff ==
  ASSUME NEW n \in Nat, NEW K \in SUBSET (1..n)
  PROVE  /\ Cardinality(K) \in Nat
         /\ \A j \in 1..Cardinality(K) : Nth(K, j) \in K
         /\ \A i, j \in 1..Cardinality(K) : i < j => Nth(K, i) < Nth(K, j)
         /\ \A i \in K : \E j \in 1..Cardinality(K) : Nth(K, j) = i
  <1> DEFINE Below(i) == {k \in K : k <= i}
             m == Cardinality(K)
             rank == [i \in K |-> Cardinality(Below(i))]
  <1>1. IsFiniteSet(K) /\ m \in Nat
    <2>1. IsFiniteSet(1..n)
      BY FS_Interval
    <2>2. IsFiniteSet(K)
      BY <2>1, FS_Subset
    <2>. QED
      BY <2>2, FS_CardinalityType
  <1>0. \A i \in K : i \in Nat
    OBVIOUS
  <1>2. ASSUME NEW i \in K
        PROVE  IsFiniteSet(Below(i)) /\ Cardinality(Below(i)) \in 1..m
    <2>1. Below(i) \in SUBSET K /\ i \in Below(i)
      OBVIOUS
    <2>2. IsFiniteSet(Below(i)) /\ Cardinality(Below(i)) <= m
      BY <2>1, <1>1, FS_Subset
    <2>3. Cardinality(Below(i)) \in Nat /\ Cardinality(Below(i)) # 0
      BY <2>1, <2>2, FS_CardinalityType, FS_EmptySet
    <2>. QED
      BY <2>2, <2>3, <1>1
  <1>3. ASSUME NEW i \in K, NEW j \in K, i < j
        PROVE  Cardinality(Below(i)) < Cardinality(Below(j))
    <2>1. Below(i) \in SUBSET Below(j) /\ j \in Below(j) /\ j \notin Below(i)
      <3>1. i \in Nat /\ j \in Nat /\ ~(j <= i) /\ j <= j
        BY <1>3, <1>0
      <3>2. \A k \in K : k <= i => k <= j
        BY <3>1, <1>0, <1>3
      <3>. QED
        BY <3>1, <3>2
    <2>2. /\ Cardinality(Below(i)) <= Cardinality(Below(j))
          /\ Cardinality(Below(j)) # Cardinality(Below(i))
      <3> HIDE DEF Below
      <3>. QED
        BY <2>1, <1>2, FS_Subset
    <2>. QED
      BY <2>2, <1>2, <1>1
  <1>4. rank \in Injection(K, 1..m)
    <2>1. rank \in [K -> 1..m]
      BY <1>2
    <2>2. ASSUME NEW i \in K, NEW j \in K, rank[i] = rank[j] PROVE i = j
      <3>1. i \in Nat /\ j \in Nat
        OBVIOUS
      <3>2. ~(i < j) /\ ~(j < i)
        BY <2>2, <1>2, <1>3, <1>1
      <3>. QED
        BY <3>1, <3>2
    <2>. QED
      BY <2>1, <2>2 DEF Injection, IsInjective
  <1>5. IsFiniteSet(1..m) /\ Cardinality(1..m) = m
    BY <1>1, FS_Interval
  <1>6. rank \in Surjection(K, 1..m)
    <2> HIDE DEF rank
    <2>. QED
      BY <1>4, <1>5, FS_Injection
  <1>7. ASSUME NEW j \in 1..m PROVE Nth(K, j) \in K /\ Cardinality(Below(Nth(K, j))) = j
    <2>1. \E i \in K : rank[i] = j
      BY <1>6 DEF Surjection
    <2>. QED
      BY <2>1 DEF Nth
  <1>8. ASSUME NEW i \in K PROVE \E j \in 1..m : Nth(K, j) = i
    <2>1. Nth(K, rank[i]) \in K /\ rank[Nth(K, rank[i])] = rank[i] /\ rank[i] \in 1..m
      BY <1>2, <1>7
    <2>. QED
      BY <2>1, <1>4 DEF Injection, IsInjective
  <1>9. ASSUME NEW i \in 1..m, NEW j \in 1..m, i < j PROVE Nth(K, i) < Nth(K, j)
    <2> DEFINE a == Nth(K, i)
               b == Nth(K, j)
    <2>0. i \in Nat /\ j \in Nat
      BY <1>1
    <2>1. a \in K /\ b \in K
      BY <1>7
    <2>2. Cardinality(Below(a)) = i /\ Cardinality(Below(b)) = j
      BY <1>7
    <2> HIDE DEF a, b, Below
    <2>3. a # b
      BY <1>9, <2>0, <2>2
    <2>4. ~(b < a)
      BY <1>3, <1>9, <2>0, <2>1, <2>2
    <2>5. a < b
      BY <1>0, <2>1, <2>3, <2>4
    <2>. QED
      BY <2>5 DEF a, b
  <1>. QED
    BY <1>1, <1>7, <1>8, <1>9

\* What is kept of a sequence: elements of it, in their order, each of those chosen.
LEMMA KeptElements ==
  ASSUME NEW S, NEW s \in Seq(S), NEW K \in SUBSET DOMAIN s
  PROVE  /\ Kept(s, K) \in Seq(S)
         /\ \E f \in [DOMAIN Kept(s, K) -> K] :
              /\ \A j \in DOMAIN Kept(s, K) : Kept(s, K)[j] = s[f[j]]
              /\ \A i, j \in DOMAIN Kept(s, K) : i < j => f[i] < f[j]
         /\ \A i \in K : \E j \in DOMAIN Kept(s, K) : Kept(s, K)[j] = s[i]
  <1> DEFINE m == Cardinality(K)
             f == [j \in 1..m |-> Nth(K, j)]
  <1>1. Len(s) \in Nat /\ K \in SUBSET (1..Len(s)) /\ \A i \in K : s[i] \in S
    OBVIOUS
  <1>2. /\ m \in Nat
        /\ \A j \in 1..m : Nth(K, j) \in K
        /\ \A i, j \in 1..m : i < j => Nth(K, i) < Nth(K, j)
        /\ \A i \in K : \E j \in 1..m : Nth(K, j) = i
    BY <1>1, CountedOff
  <1>3. Kept(s, K) = [j \in 1..m |-> s[Nth(K, j)]]
    BY DEF Kept
  <1>4. DOMAIN Kept(s, K) = 1..m /\ \A j \in 1..m : Kept(s, K)[j] = s[Nth(K, j)]
    BY <1>3
  <1>5. Kept(s, K) \in Seq(S)
    <2>1. Kept(s, K) \in [1..m -> S]
      BY <1>1, <1>2, <1>3
    <2>. QED
      BY <2>1, <1>2
  <1>6. f \in [DOMAIN Kept(s, K) -> K]
    BY <1>2, <1>4
  <1>7. /\ \A j \in DOMAIN Kept(s, K) : Kept(s, K)[j] = s[f[j]]
        /\ \A i, j \in DOMAIN Kept(s, K) : i < j => f[i] < f[j]
    BY <1>2, <1>4
  <1>8. \A i \in K : \E j \in DOMAIN Kept(s, K) : Kept(s, K)[j] = s[i]
    BY <1>2, <1>4
  <1> HIDE DEF f
  <1>. QED
    BY <1>5, <1>6, <1>7, <1>8

-----------------------------------------------------------------------------
(* Types.                                                                   *)

THEOREM InitTypes == Init => TypeInv
  <1> SUFFICES ASSUME Init PROVE TypeInv
    OBVIOUS
  <1> USE EventStreamAssumption DEF Init
  <1>1. 0 \in 0..LastEvent /\ 0 < LastEvent
    OBVIOUS
  <1>2. run \in [Runs -> [pc : {"new", "going", "pushing", "over"}, n : 0..LastEvent,
                          todo : Seq(Subscription), dead : SUBSET Conns]]
    BY <1>1
  <1>3. request \in [Conns -> {NoRequest} \cup
           [pc : {"task", "replaying", "subscribed", "refused", "dropped"}, params : AnyParams]]
    OBVIOUS
  <1>4. since \in [Conns -> [Runs -> 0..LastEvent]]
    BY <1>1
  <1>5. TypeOK
    BY <1>2, <1>3, <1>4 DEF TypeOK
  <1>6. Counted
    BY <1>1 DEF Counted
  <1>. QED
    BY <1>5, <1>6 DEF TypeInv

\* What the filters of the list and of a file give.
LEMMA Selections ==
  ASSUME TypeOK
  PROVE  /\ \A dead : Unsubscribe(dead) \in Seq(Subscription)
         /\ \A e : Kept(subs, {i \in DOMAIN subs : Matches(e, subs[i].params)}) \in Seq(Subscription)
         /\ \A params \in AnyParams : Replayed(params) \in Seq(Event)
  <1>1. subs \in Seq(Subscription)
    BY DEF TypeOK
  <1>2. \A K \in SUBSET DOMAIN subs : Kept(subs, K) \in Seq(Subscription)
    BY <1>1, KeptElements
  <1>3. ASSUME NEW params \in AnyParams PROVE Replayed(params) \in Seq(Event)
    <2>1. CASE params.replay = NoRun
      BY <2>1 DEF Replayed
    <2>2. CASE params.replay # NoRun
      <3>1. params.replay \in Runs
        BY <2>2, EventStreamAssumption DEF AnyParams
      <3>2. file[params.replay] \in Seq(Event)
        BY <3>1 DEF TypeOK
      <3>3. \A K \in SUBSET DOMAIN file[params.replay] : Kept(file[params.replay], K) \in Seq(Event)
        BY <3>2, KeptElements
      <3>. QED
        BY <2>2, <3>3 DEF Replayed
    <2>. QED
      BY <2>1, <2>2
  <1>. QED
    BY <1>2, <1>3 DEF Unsubscribe

\* The state of the run that publishes, after a step of its publish.
LEMMA ServeTypes ==
  ASSUME TypeInv, NEW r \in Runs, NEW n \in 1..LastEvent,
         NEW todo \in Seq(Subscription), NEW dead \in SUBSET Conns,
         Serve(r, <<r, n>>, todo, dead), UNCHANGED <<conn, request, since>>
  PROVE  TypeInv'
  <1> USE EventStreamAssumption DEF TypeInv
  <1> DEFINE States == [pc : {"new", "going", "pushing", "over"}, n : 0..LastEvent,
                        todo : Seq(Subscription), dead : SUBSET Conns]
  <1>0. /\ <<r, n>> \in Event /\ n \in 0..LastEvent /\ n > 0 /\ n \in Nat
        /\ run \in [Runs -> States]
    BY DEF Event, TypeOK
  <1>1. CASE Return(r, <<r, n>>, dead)
    <2> DEFINE new == [pc |-> IF n = LastEvent THEN "over" ELSE "going",
                       n |-> n, todo |-> <<>>, dead |-> {}]
    <2>1. /\ run' = [run EXCEPT ![r] = new] /\ sent' = sent
          /\ subs' = Unsubscribe(dead)
      BY <1>1 DEF Return
    <2>2. PICK failed : file' = WriteFiles(r, <<r, n>>, failed)
      BY <1>1 DEF Return
    <2>3. new \in States
      BY <1>0
    <2>4. run' \in [Runs -> States] /\ run'[r] = new /\ \A q \in Runs \ {r} : run'[q] = run[q]
      <3> HIDE DEF new, States
      <3>. QED
        BY <1>0, <2>1, <2>3
    <2>5. file' \in [Runs -> Seq(Event)]
      <3>1. \A q \in Runs : file[q] \in Seq(Event) /\ Append(file[q], <<r, n>>) \in Seq(Event)
        BY <1>0 DEF TypeOK
      <3>. QED
        BY <2>2, <3>1 DEF WriteFiles
    <2>6. subs' \in Seq(Subscription)
      BY <2>1, Selections
    <2>7. TypeOK'
      BY <2>1, <2>4, <2>5, <2>6 DEF TypeOK
    <2>8. Counted'
      <3>1. /\ new.pc \in {"new", "going"} => new.n < LastEvent
            /\ new.pc = "pushing" <=> new.todo # <<>>
            /\ new.pc = "pushing" => new.n > 0
        BY <1>0
      <3> HIDE DEF new
      <3>. QED
        BY <2>4, <3>1 DEF Counted
    <2>. QED
      BY <2>7, <2>8
  <1>2. CASE todo # <<>> /\ Push(r, <<r, n>>, todo, dead)
    <2> DEFINE new == [pc |-> "pushing", n |-> n, todo |-> todo, dead |-> dead]
               c == Head(todo).conn
    <2>1. /\ run' = [run EXCEPT ![r] = new] /\ file' = file /\ subs' = subs
          /\ sent' = [sent EXCEPT ![c] = IF conn[c] = "open" THEN Append(@, <<r, n>>) ELSE @]
      BY <1>2 DEF Push
    <2>2. new \in States
      BY <1>0
    <2>3. run' \in [Runs -> States] /\ run'[r] = new /\ \A q \in Runs \ {r} : run'[q] = run[q]
      <3> HIDE DEF new, States
      <3>. QED
        BY <1>0, <2>1, <2>2
    <2>4. c \in Conns
      <3>1. Head(todo) \in Subscription
        BY <1>2
      <3>. QED
        BY <3>1 DEF Subscription
    <2>5. sent' \in [Conns -> Seq(Event)]
      <3>1. sent[c] \in Seq(Event) /\ Append(sent[c], <<r, n>>) \in Seq(Event)
        BY <1>0, <2>4 DEF TypeOK
      <3> HIDE DEF c
      <3>. QED
        BY <2>1, <2>4, <3>1 DEF TypeOK
    <2>6. TypeOK'
      BY <2>1, <2>3, <2>5 DEF TypeOK
    <2>7. Counted'
      <3>1. /\ new.pc \in {"new", "going"} => new.n < LastEvent
            /\ new.pc = "pushing" <=> new.todo # <<>>
            /\ new.pc = "pushing" => new.n > 0
        BY <1>0, <1>2
      <3> HIDE DEF new
      <3>. QED
        BY <2>3, <3>1 DEF Counted
    <2>. QED
      BY <2>6, <2>7
  <1>. QED
    BY <1>1, <1>2 DEF Serve

\* The publish of a run, as Serve takes it up: at the next event, or after a drain.
LEMMA RunStepServes ==
  ASSUME TypeInv, NEW r \in Runs, RunStep(r)
  PROVE  \E n \in 1..LastEvent, todo \in Seq(Subscription), dead \in SUBSET Conns :
           /\ Serve(r, <<r, n>>, todo, dead)
           /\ UNCHANGED <<conn, request, since>>
           /\ \/ /\ run[r].todo = <<>> /\ n = run[r].n + 1 /\ dead = {}
                 /\ todo = Kept(subs, {i \in DOMAIN subs : Matches(<<r, n>>, subs[i].params)})
              \/ /\ run[r].todo # <<>> /\ n = run[r].n /\ todo = Tail(run[r].todo)
                 /\ LET c == Head(run[r].todo).conn
                    IN  dead = IF conn[c] = "open" THEN run[r].dead ELSE run[r].dead \cup {c}
  <1> USE EventStreamAssumption DEF TypeInv
  <1>0. /\ run[r].n \in 0..LastEvent /\ run[r].todo \in Seq(Subscription)
        /\ run[r].dead \in SUBSET Conns
    BY DEF TypeOK
  <1>1. CASE Publish(r)
    <2> DEFINE n == run[r].n + 1
               todo == Kept(subs, {i \in DOMAIN subs : Matches(<<r, n>>, subs[i].params)})
    <2>1. Serve(r, <<r, n>>, todo, {}) /\ UNCHANGED <<conn, request, since>>
      BY <1>1 DEF Publish
    <2>2. n \in 1..LastEvent /\ run[r].todo = <<>>
      BY <1>0, <1>1 DEF Publish, Counted
    <2>3. todo \in Seq(Subscription)
      BY Selections
    <2>4. {} \in SUBSET Conns
      OBVIOUS
    <2>5. n = run[r].n + 1
      OBVIOUS
    <2>6. todo = Kept(subs, {i \in DOMAIN subs : Matches(<<r, n>>, subs[i].params)})
      OBVIOUS
    <2> HIDE DEF n, todo
    <2>. QED
      BY <2>1, <2>2, <2>3, <2>4, <2>5, <2>6
  <1>2. CASE Drained(r)
    <2> DEFINE n == run[r].n
               c == Head(run[r].todo).conn
               todo == Tail(run[r].todo)
               dead == IF conn[c] = "open" THEN run[r].dead ELSE run[r].dead \cup {c}
    <2>1. Serve(r, <<r, n>>, todo, dead) /\ UNCHANGED <<conn, request, since>>
      BY <1>2 DEF Drained
    <2>2. run[r].todo # <<>> /\ n \in 1..LastEvent
      BY <1>0, <1>2 DEF Drained, Counted
    <2>3. Head(run[r].todo) \in Subscription /\ todo \in Seq(Subscription)
      BY <1>0, <2>2
    <2>4. dead \in SUBSET Conns
      BY <1>0, <2>3 DEF Subscription
    <2>5. n = run[r].n /\ todo = Tail(run[r].todo)
      OBVIOUS
    <2>6. LET d == Head(run[r].todo).conn
          IN  dead = IF conn[d] = "open" THEN run[r].dead ELSE run[r].dead \cup {d}
      OBVIOUS
    <2> HIDE DEF n, todo, dead, c
    <2>. QED
      BY <2>1, <2>2, <2>3, <2>4, <2>5, <2>6
  <1>. QED
    BY <1>1, <1>2 DEF RunStep

\* A request moves on: its answer, its refusal, or the loss of its connection.
LEMMA RequestTypes ==
  ASSUME TypeOK, NEW c \in Conns,
         \/ \E params \in Params[c] : Request(c, params)
         \/ HandlerStep(c) \/ Lose(c) \/ EndConnection(c)
  PROVE  TypeOK' /\ run' = run
  <1> DEFINE Requests == {NoRequest} \cup
               [pc : {"task", "replaying", "subscribed", "refused", "dropped"}, params : AnyParams]
  <1>0. request \in [Conns -> Requests] /\ run' = run
    BY DEF TypeOK, Request, HandlerStep, Refuse, Subscribe, ReplayDrained, ReplayBroken, Lose,
           EndConnection
  <1>1. ASSUME request[c].pc # "none"
        PROVE  /\ request[c].params \in AnyParams
               /\ \A p \in {"task", "replaying", "subscribed", "refused", "dropped"} :
                    [request EXCEPT ![c].pc = p] \in [Conns -> Requests]
    <2>1. request[c] # NoRequest
      BY <1>1 DEF NoRequest
    <2>2. request[c] \in [pc : {"task", "replaying", "subscribed", "refused", "dropped"},
                          params : AnyParams]
      BY <1>0, <2>1
    <2>. QED
      BY <1>0, <2>2
  <1>2. ASSUME Enlist(c), request[c].pc # "none"
        PROVE  subs' \in Seq(Subscription) /\ since' \in [Conns -> [Runs -> 0..LastEvent]]
               /\ request' \in [Conns -> Requests]
    <2>1. request' \in [Conns -> Requests] /\ request[c].params \in AnyParams
      BY <1>1, <1>2 DEF Enlist
    <2>2. [conn |-> c, params |-> request[c].params] \in Subscription
      BY <2>1 DEF Subscription
    <2>3. subs' \in Seq(Subscription)
      BY <1>2, <2>2 DEF Enlist, TypeOK
    <2>4. [r \in Runs |-> run[r].n] \in [Runs -> 0..LastEvent]
      BY DEF TypeOK
    <2>5. since' \in [Conns -> [Runs -> 0..LastEvent]]
      BY <1>2, <2>4 DEF Enlist, TypeOK
    <2>. QED
      BY <2>1, <2>3, <2>5
  <1>3. ASSUME NEW params \in Params[c], Request(c, params) PROVE TypeOK'
    <2>1. params \in AnyParams
      BY DEF AnyParams
    <2>2. request' \in [Conns -> Requests]
      BY <1>0, <1>3, <2>1 DEF Request
    <2>. QED
      BY <1>3, <2>2 DEF TypeOK, Request
  <1>4. CASE Refuse(c)
    <2>1. request' \in [Conns -> Requests]
      BY <1>1, <1>4 DEF Refuse
    <2>. QED
      BY <1>4, <2>1 DEF TypeOK, Refuse
  <1>5. CASE Subscribe(c)
    <2>1. request[c].pc = "task" /\ UNCHANGED <<run, file, conn>>
      BY <1>5 DEF Subscribe
    <2>2. Replayed(request[c].params) \in Seq(Event)
      BY <1>1, <2>1, Selections
    <2>3. sent' \in [Conns -> Seq(Event)]
      BY <1>5, <2>2 DEF Subscribe, TypeOK
    <2>4. Enlist(c) \/ (/\ request' = [request EXCEPT ![c].pc = "replaying"]
                        /\ UNCHANGED <<subs, since>>)
      BY <1>5 DEF Subscribe
    <2>5. /\ subs' \in Seq(Subscription) /\ since' \in [Conns -> [Runs -> 0..LastEvent]]
          /\ request' \in [Conns -> Requests]
      <3>1. request[c].pc # "none" /\ "replaying" \in {"task", "replaying", "subscribed", "refused", "dropped"}
        BY <2>1
      <3>2. [request EXCEPT ![c].pc = "replaying"] \in [Conns -> Requests]
        BY <1>1, <3>1
      <3>3. subs \in Seq(Subscription) /\ since \in [Conns -> [Runs -> 0..LastEvent]]
        BY DEF TypeOK
      <3> HIDE DEF Requests
      <3>. QED
        BY <1>2, <2>4, <3>1, <3>2, <3>3
    <2>. QED
      BY <2>1, <2>3, <2>5 DEF TypeOK
  <1>6. CASE ReplayDrained(c)
    BY <1>2, <1>6 DEF TypeOK, ReplayDrained
  <1>7. CASE ReplayBroken(c)
    <2>1. request' \in [Conns -> Requests]
      BY <1>1, <1>7 DEF ReplayBroken
    <2>. QED
      BY <1>7, <2>1 DEF TypeOK, ReplayBroken
  <1>8. CASE Lose(c)
    BY <1>8 DEF TypeOK, Lose
  <1>9. CASE EndConnection(c)
    <2>1. subs' \in Seq(Subscription)
      BY <1>9, Selections DEF EndConnection
    <2>. QED
      BY <1>9, <2>1 DEF TypeOK, EndConnection
  <1>. QED
    BY <1>0, <1>3, <1>4, <1>5, <1>6, <1>7, <1>8, <1>9 DEF HandlerStep

THEOREM TypeStep == TypeInv /\ [Next]_vars => TypeInv'
  <1> SUFFICES ASSUME TypeInv, [Next]_vars PROVE TypeInv'
    OBVIOUS
  <1>1. ASSUME NEW r \in Runs, RunStep(r) PROVE TypeInv'
    BY <1>1, RunStepServes, ServeTypes
  <1>2. ASSUME NEW c \in Conns,
               \/ \E params \in Params[c] : Request(c, params)
               \/ HandlerStep(c) \/ Lose(c) \/ EndConnection(c)
        PROVE  TypeInv'
    BY <1>2, RequestTypes DEF TypeInv, Counted
  <1>3. CASE UNCHANGED vars
    BY <1>3 DEF vars, TypeInv, TypeOK, Counted
  <1>. QED
    BY <1>1, <1>2, <1>3 DEF Next

\* Runs, files, lists, connections and requests stay what publish and the subscribe
\* handler can make of them: for any runs, connections and parameters.
THEOREM TypeCorrect == Spec => []TypeOK
  <1>1. TypeInv => TypeOK
    BY DEF TypeInv
  <1>. QED
    BY InitTypes, TypeStep, <1>1, PTL DEF Spec

-----------------------------------------------------------------------------
(* The order of what a client is sent.                                      *)

LEMMA InitOrder == Init => OrderInv
  BY DEF Init, OrderInv, Registered, OneEach, AsAsked, SentBehind, StreamInOrder, InOrder, Awaits

LEMMA EventsNumbered ==
  ASSUME NEW g \in Seq(Event)
  PROVE  g \in Seq(Runs \X Nat)
  <1>1. Event \subseteq Runs \X Nat
    BY EventStreamAssumption DEF Event
  <1>. QED
    BY <1>1

\* A replay keeps the order of the file.
LEMMA KeptInOrder ==
  ASSUME NEW g \in Seq(Event), InOrder(g), NEW K \in SUBSET DOMAIN g
  PROVE  /\ InOrder(Kept(g, K))
         /\ \A j \in DOMAIN Kept(g, K) : \E i \in DOMAIN g : Kept(g, K)[j] = g[i]
  <1>1. PICK f \in [DOMAIN Kept(g, K) -> K] :
          /\ \A j \in DOMAIN Kept(g, K) : Kept(g, K)[j] = g[f[j]]
          /\ \A i, j \in DOMAIN Kept(g, K) : i < j => f[i] < f[j]
    BY KeptElements
  <1>2. \A j \in DOMAIN Kept(g, K) : f[j] \in DOMAIN g
    BY <1>1
  <1>. QED
    BY <1>1, <1>2 DEF InOrder

\* So does a copy of a list, or a list without the connections that died.
LEMMA KeptRegistered ==
  ASSUME NEW list \in Seq(Subscription), Registered(list), NEW K \in SUBSET DOMAIN list
  PROVE  Registered(Kept(list, K))
  <1> DEFINE kept == Kept(list, K)
  <1>1. PICK f \in [DOMAIN kept -> K] :
          /\ \A j \in DOMAIN kept : kept[j] = list[f[j]]
          /\ \A i, j \in DOMAIN kept : i < j => f[i] < f[j]
    BY KeptElements
  <1>2. kept \in Seq(Subscription)
    BY KeptElements
  <1>3. \A j \in DOMAIN kept : j \in Nat /\ f[j] \in DOMAIN list /\ f[j] \in Nat
    <2>1. \A j \in DOMAIN kept : f[j] \in DOMAIN list
      BY <1>1
    <2> HIDE DEF kept
    <2>. QED
      BY <1>2, <2>1
  <1> HIDE DEF kept
  <1>4. OneEach(kept)
    <2> SUFFICES ASSUME NEW i \in DOMAIN kept, NEW j \in DOMAIN kept, kept[i].conn = kept[j].conn
                 PROVE  i = j
      BY DEF OneEach
    <2>1. f[i] = f[j]
      BY <1>1, <1>3 DEF Registered, OneEach
    <2>2. ~(i < j) /\ ~(j < i)
      BY <1>1, <1>3, <2>1
    <2>. QED
      BY <1>3, <2>2
  <1>5. AsAsked(kept)
    BY <1>1, <1>3 DEF Registered, AsAsked
  <1>. QED
    BY <1>4, <1>5 DEF Registered, kept

LEMMA TailRegistered ==
  ASSUME NEW list \in Seq(Subscription), list # <<>>, Registered(list)
  PROVE  Registered(Tail(list))
  <1>1. \A i \in DOMAIN Tail(list) : i \in Nat /\ i + 1 \in DOMAIN list /\ Tail(list)[i] = list[i + 1]
    OBVIOUS
  <1>2. OneEach(Tail(list))
    <2> SUFFICES ASSUME NEW i \in DOMAIN Tail(list), NEW j \in DOMAIN Tail(list),
                        Tail(list)[i].conn = Tail(list)[j].conn
                 PROVE  i = j
      BY DEF OneEach
    <2>1. i + 1 = j + 1
      BY <1>1 DEF Registered, OneEach
    <2>. QED
      BY <1>1, <2>1
  <1>3. AsAsked(Tail(list))
    BY <1>1 DEF Registered, AsAsked
  <1>. QED
    BY <1>2, <1>3 DEF Registered

LEMMA RegisteredOnes ==
  ASSUME NEW list, Registered(list), NEW i \in DOMAIN list
  PROVE  request[list[i].conn].pc = "subscribed" /\ request[list[i].conn].params = list[i].params
  <1>1. request[list[i].conn] = [pc |-> "subscribed", params |-> list[i].params]
    BY DEF Registered, AsAsked
  <1>. QED
    BY <1>1

\* A request that is subscribed stays so.
LEMMA StaysAsked ==
  ASSUME NEW list \in Seq(Subscription), AsAsked(list),
         \A c \in Conns : request[c].pc = "subscribed" => request'[c] = request[c]
  PROVE  \A i \in DOMAIN list :
           request'[list[i].conn] = [pc |-> "subscribed", params |-> list[i].params]
  <1> SUFFICES ASSUME NEW i \in DOMAIN list
               PROVE  request'[list[i].conn] = [pc |-> "subscribed", params |-> list[i].params]
    OBVIOUS
  <1>1. list[i] \in Subscription
    OBVIOUS
  <1>2. list[i].conn \in Conns
    BY <1>1 DEF Subscription
  <1>3. request[list[i].conn] = [pc |-> "subscribed", params |-> list[i].params]
    BY DEF AsAsked
  <1>. QED
    BY <1>2, <1>3

\* A publish writes its event to the first subscription that is left, or to none.
LEMMA ServeOrder ==
  ASSUME TypeInv, TypeInv', OrderInv, NEW r \in Runs, NEW n \in 1..LastEvent,
         NEW todo \in Seq(Subscription), NEW dead,
         Serve(r, <<r, n>>, todo, dead), UNCHANGED request,
         n >= run[r].n,
         Registered(todo),
         \A c \in Conns : \A i \in DOMAIN sent[c] :
           sent[c][i][1] = r /\ (\E k \in DOMAIN todo : todo[k].conn = c) => sent[c][i][2] < n
  PROVE  OrderInv'
  <1>0. /\ run \in [Runs -> [pc : {"new", "going", "pushing", "over"}, n : 0..LastEvent,
                            todo : Seq(Subscription), dead : SUBSET Conns]]
        /\ sent \in [Conns -> Seq(Event)] /\ subs \in Seq(Subscription)
        /\ n \in Nat /\ LastEvent \in Nat
    BY EventStreamAssumption DEF TypeInv, TypeOK
  <1>t. todo = <<>> \/ (Head(todo) \in Subscription /\ Head(todo).conn \in Conns)
    <2>1. todo # <<>> => Head(todo) \in Subscription
      OBVIOUS
    <2>. QED
      BY <2>1 DEF Subscription
  <1>1. /\ run'[r].n = n /\ run'[r].todo \in {<<>>, todo}
        /\ \A q \in Runs \ {r} : run'[q] = run[q]
    BY <1>0 DEF Serve, Return, Push
  <1>2. /\ \A q \in Runs \ {r}, c \in Conns : Awaits(run'[q].todo, c) <=> Awaits(run[q].todo, c)
        /\ \A c \in Conns : Awaits(run'[r].todo, c) => \E k \in DOMAIN todo : k > 1 /\ todo[k].conn = c
    BY <1>1 DEF Awaits
  <1>3. /\ Registered(subs)' /\ \A q \in Runs : Registered(run[q].todo)'
    <2>1. Registered(<<>>)
      BY DEF Registered, OneEach, AsAsked
    <2>2. \A q \in Runs : Registered(run'[q].todo)
      BY <1>1, <2>1 DEF OrderInv
    <2>3. Registered(subs')
      <3>1. subs' = subs \/ subs' = Unsubscribe(dead)
        BY DEF Serve, Return, Push
      <3>2. Registered(Unsubscribe(dead))
        BY <1>0, KeptRegistered DEF Unsubscribe, OrderInv
      <3>. QED
        BY <3>1, <3>2 DEF OrderInv
    <2>. QED
      BY <2>2, <2>3 DEF Registered, OneEach, AsAsked
  <1>4. ASSUME NEW c \in Conns, NEW i \in DOMAIN sent[c]
        PROVE  LET q == sent[c][i][1] IN
               /\ sent[c][i][2] <= run'[q].n
               /\ Awaits(run'[q].todo, c) => sent[c][i][2] < run'[q].n
    <2>1. sent[c][i] \in Event
      BY <1>0
    <2>2. sent[c][i][1] \in Runs /\ sent[c][i][2] \in Nat
      BY <2>1, <1>0 DEF Event
    <2>3. run[r].n \in Nat
      BY <1>0
    <2>4. CASE sent[c][i][1] = r
      <3>1. sent[c][i][2] <= run[r].n
        BY <2>4 DEF OrderInv, SentBehind
      <3>2. sent[c][i][2] <= n
        BY <1>0, <2>2, <2>3, <3>1
      <3>3. Awaits(run'[r].todo, c) => sent[c][i][2] < n
        BY <1>2, <2>4
      <3>. QED
        BY <1>1, <2>4, <3>2, <3>3
    <2>5. CASE sent[c][i][1] # r
      BY <1>1, <1>2, <2>2, <2>5 DEF OrderInv, SentBehind
    <2>. QED
      BY <2>4, <2>5
  <1>5. CASE sent' = sent
    BY <1>3, <1>4, <1>5 DEF OrderInv, SentBehind, StreamInOrder
  <1>6. CASE todo # <<>> /\ Push(r, <<r, n>>, todo, dead) /\ conn[Head(todo).conn] = "open"
    <2> DEFINE c == Head(todo).conn
    <2>1. /\ c \in Conns /\ c = todo[1].conn /\ 1 \in DOMAIN todo
          /\ sent' = [sent EXCEPT ![c] = Append(sent[c], <<r, n>>)]
      BY <1>6, <1>t DEF Push
    <2> HIDE DEF c
    <2>2. sent[c] \in Seq(Runs \X Nat) /\ InOrder(sent[c])
      BY <2>1, <1>0, EventsNumbered DEF OrderInv, StreamInOrder
    <2>3. \A i \in DOMAIN sent[c] : sent[c][i][1] = r => sent[c][i][2] < n
      BY <2>1
    <2>4. /\ InOrder(Append(sent[c], <<r, n>>))
          /\ \A i \in DOMAIN Append(sent[c], <<r, n>>) :
               \/ i \in DOMAIN sent[c] /\ Append(sent[c], <<r, n>>)[i] = sent[c][i]
               \/ Append(sent[c], <<r, n>>)[i] = <<r, n>>
      BY <1>0, <2>2, <2>3, Appended
    <2>5. sent'[c] = Append(sent[c], <<r, n>>) /\ \A d \in Conns \ {c} : sent'[d] = sent[d]
      BY <1>0, <2>1
    <2>6. StreamInOrder'
      BY <2>4, <2>5 DEF OrderInv, StreamInOrder
    <2>7. ~Awaits(run'[r].todo, c)
      <3> SUFFICES ASSUME NEW k \in DOMAIN todo, k > 1, todo[k].conn = c PROVE FALSE
        BY <1>2, <2>1
      <3>1. k = 1
        BY <2>1 DEF Registered, OneEach
      <3>. QED
        BY <3>1
    <2>8. SentBehind'
      <3> SUFFICES ASSUME NEW d \in Conns, NEW i \in DOMAIN sent'[d]
                   PROVE  LET q == sent'[d][i][1] IN
                          /\ sent'[d][i][2] <= run'[q].n
                          /\ Awaits(run'[q].todo, d) => sent'[d][i][2] < run'[q].n
        BY DEF SentBehind
      <3>1. CASE d = c /\ sent'[d][i] = <<r, n>>
        BY <1>0, <1>1, <2>7, <3>1
      <3>2. CASE i \in DOMAIN sent[d] /\ sent'[d][i] = sent[d][i]
        BY <1>4, <3>2
      <3>. QED
        BY <2>4, <2>5, <3>1, <3>2
    <2>. QED
      BY <1>3, <2>6, <2>8 DEF OrderInv
  <1>7. sent' = sent \/ (todo # <<>> /\ Push(r, <<r, n>>, todo, dead) /\ conn[Head(todo).conn] = "open")
    <2>1. CASE Return(r, <<r, n>>, dead)
      BY <2>1 DEF Return
    <2>2. CASE todo # <<>> /\ Push(r, <<r, n>>, todo, dead) /\ conn[Head(todo).conn] # "open"
      <3> DEFINE c == Head(todo).conn
      <3>1. c \in Conns /\ sent' = [sent EXCEPT ![c] = sent[c]]
        BY <2>2, <1>t DEF Push
      <3> HIDE DEF c
      <3>. QED
        BY <3>1, <1>0
    <2>. QED
      BY <2>1, <2>2 DEF Serve
  <1>. QED
    BY <1>5, <1>6, <1>7

\* What a publish takes up has not got the event yet, and is registered.
LEMMA RunOrder ==
  ASSUME TypeInv, TypeInv', OrderInv, NEW r \in Runs, RunStep(r)
  PROVE  OrderInv'
  <1>1. PICK n \in 1..LastEvent, todo \in Seq(Subscription), dead \in SUBSET Conns :
           /\ Serve(r, <<r, n>>, todo, dead)
           /\ UNCHANGED <<conn, request, since>>
           /\ \/ /\ run[r].todo = <<>> /\ n = run[r].n + 1 /\ dead = {}
                 /\ todo = Kept(subs, {i \in DOMAIN subs : Matches(<<r, n>>, subs[i].params)})
              \/ /\ run[r].todo # <<>> /\ n = run[r].n /\ todo = Tail(run[r].todo)
                 /\ LET c == Head(run[r].todo).conn
                    IN  dead = IF conn[c] = "open" THEN run[r].dead ELSE run[r].dead \cup {c}
    BY RunStepServes
  <1>2. /\ run[r].n \in Nat /\ run[r].todo \in Seq(Subscription) /\ subs \in Seq(Subscription)
        /\ sent \in [Conns -> Seq(Event)] /\ LastEvent \in Nat
    BY EventStreamAssumption DEF TypeInv, TypeOK
  <1>3. n >= run[r].n
    BY <1>1, <1>2
  <1>4. Registered(todo)
    BY <1>1, <1>2, KeptRegistered, TailRegistered DEF OrderInv
  <1>5. ASSUME NEW c \in Conns, NEW i \in DOMAIN sent[c], sent[c][i][1] = r,
               NEW k \in DOMAIN todo, todo[k].conn = c
        PROVE  sent[c][i][2] < n
    <2>1. sent[c][i] \in Event
      BY <1>2
    <2>2. sent[c][i][2] \in Nat
      BY <2>1, <1>2 DEF Event
    <2>3. sent[c][i][2] <= run[r].n /\ (Awaits(run[r].todo, c) => sent[c][i][2] < run[r].n)
      BY <1>5 DEF OrderInv, SentBehind
    <2>4. CASE n = run[r].n + 1
      BY <2>2, <2>3, <2>4, <1>2
    <2>5. CASE run[r].todo # <<>> /\ n = run[r].n /\ todo = Tail(run[r].todo)
      <3>1. k + 1 \in DOMAIN run[r].todo /\ k + 1 > 1 /\ run[r].todo[k + 1] = todo[k]
        BY <2>5, <1>2
      <3>2. Awaits(run[r].todo, c)
        BY <3>1, <1>5 DEF Awaits
      <3>. QED
        BY <2>3, <2>5, <3>2
    <2>. QED
      BY <1>1, <2>4, <2>5
  <1>6. \A c \in Conns : \A i \in DOMAIN sent[c] :
           sent[c][i][1] = r /\ (\E k \in DOMAIN todo : todo[k].conn = c) => sent[c][i][2] < n
    BY <1>5
  <1>. QED
    BY <1>1, <1>3, <1>4, <1>6, ServeOrder

\* A replay is in order and behind the runs, as the file is.
LEMMA ReplayedOrder ==
  ASSUME TypeInv, IInv, NEW params \in AnyParams
  PROVE  /\ InOrder(Replayed(params))
         /\ \A j \in DOMAIN Replayed(params) :
              Replayed(params)[j][2] <= run[Replayed(params)[j][1]].n
  <1>1. CASE params.replay = NoRun
    BY <1>1 DEF Replayed, InOrder
  <1>2. CASE params.replay # NoRun
    <2> DEFINE g == file[params.replay]
               K == {i \in DOMAIN g : MatchesTopic(g[i], params)}
    <2>1. params.replay \in Runs
      BY <1>2, EventStreamAssumption DEF AnyParams
    <2>2. g \in Seq(Event) /\ InOrder(g) /\ \A i \in DOMAIN g : g[i][2] <= run[g[i][1]].n
      BY <2>1 DEF TypeInv, TypeOK, IInv, FilesInOrder, FilesBehind
    <2>3. Replayed(params) = Kept(g, K) /\ K \in SUBSET DOMAIN g
      BY <1>2 DEF Replayed
    <2> HIDE DEF g, K
    <2>. QED
      BY <2>2, <2>3, KeptInOrder
  <1>. QED
    BY <1>1, <1>2

\* A request is replayed a file, which is behind the runs, before it is subscribed.
LEMMA RequestOrder ==
  ASSUME TypeInv, TypeInv', IInv, OrderInv, NEW c \in Conns,
         \/ \E params \in Params[c] : Request(c, params)
         \/ HandlerStep(c) \/ Lose(c) \/ EndConnection(c)
  PROVE  OrderInv'
  <1>0. /\ subs \in Seq(Subscription) /\ sent \in [Conns -> Seq(Event)]
        /\ request = [d \in Conns |-> request[d]] /\ run' = run
        /\ \A r \in Runs : run[r].todo \in Seq(Subscription)
    BY RequestTypes DEF TypeInv, TypeOK
  <1>1. \A d \in Conns : request[d].pc = "subscribed" => request'[d] = request[d]
    BY <1>0 DEF Request, HandlerStep, Refuse, Subscribe, ReplayDrained, ReplayBroken, Enlist,
                Lose, EndConnection, NoRequest
  <1>2. \A r \in Runs : Registered(run[r].todo)'
    <2> SUFFICES ASSUME NEW r \in Runs PROVE Registered(run[r].todo)'
      OBVIOUS
    <2>1. run[r].todo \in Seq(Subscription) /\ Registered(run[r].todo)
      BY <1>0 DEF OrderInv
    <2>2. \A i \in DOMAIN run[r].todo :
            request'[run[r].todo[i].conn] = [pc |-> "subscribed", params |-> run[r].todo[i].params]
      BY <2>1, <1>1, StaysAsked DEF Registered
    <2>. QED
      BY <1>0, <2>1, <2>2 DEF Registered, OneEach, AsAsked
  <1>3. Registered(subs)'
    <2>1. ASSUME NEW K \in SUBSET DOMAIN subs, subs' = Kept(subs, K) PROVE Registered(subs)'
      <3>1. Registered(subs') /\ subs' \in Seq(Subscription)
        BY <1>0, <2>1, KeptRegistered, KeptElements DEF OrderInv
      <3>2. \A i \in DOMAIN subs' :
              request'[subs'[i].conn] = [pc |-> "subscribed", params |-> subs'[i].params]
        BY <3>1, <1>1, StaysAsked DEF Registered
      <3>. QED
        BY <3>1, <3>2 DEF Registered, OneEach, AsAsked
    <2>2. CASE subs' = subs
      <3>1. \A i \in DOMAIN subs :
              request'[subs[i].conn] = [pc |-> "subscribed", params |-> subs[i].params]
        BY <1>0, <1>1, StaysAsked DEF OrderInv, Registered
      <3>. QED
        BY <2>2, <3>1 DEF OrderInv, Registered, OneEach, AsAsked
    <2>3. CASE Enlist(c) /\ request[c].pc \in {"task", "replaying"}
      <3> DEFINE new == [conn |-> c, params |-> request[c].params]
      <3>1. subs' = Append(subs, new) /\ request' = [request EXCEPT ![c].pc = "subscribed"]
        BY <2>3 DEF Enlist
      <3>2. request'[c] = [pc |-> "subscribed", params |-> new.params]
        <4>1. request[c] # NoRequest
          BY <2>3 DEF NoRequest
        <4>2. request[c] \in [pc : {"task", "replaying", "subscribed", "refused", "dropped"},
                              params : AnyParams]
          BY <4>1 DEF TypeInv, TypeOK
        <4>. QED
          BY <1>0, <3>1, <4>2
      <3>3. new.conn = c /\ Len(subs) \in Nat
        BY <1>0
      <3> HIDE DEF new
      <3>4. \A i \in DOMAIN subs' :
              \/ i \in DOMAIN subs /\ i \in 1..Len(subs) /\ subs'[i] = subs[i]
              \/ i = Len(subs) + 1 /\ subs'[i] = new
        BY <1>0, <3>1
      <3>5. \A i \in DOMAIN subs : subs[i].conn # c
        <4>1. \A i \in DOMAIN subs : request[subs[i].conn].pc = "subscribed"
          BY RegisteredOnes DEF OrderInv
        <4>. QED
          BY <2>3, <4>1
      <3>6. OneEach(subs)'
        BY <3>3, <3>4, <3>5 DEF OrderInv, Registered, OneEach
      <3>7. \A i \in DOMAIN subs :
              request'[subs[i].conn] = [pc |-> "subscribed", params |-> subs[i].params]
        BY <1>0, <1>1, StaysAsked DEF OrderInv, Registered
      <3>8. AsAsked(subs)'
        BY <3>2, <3>3, <3>4, <3>7 DEF AsAsked
      <3>. QED
        BY <3>6, <3>8 DEF Registered
    <2>4. \/ subs' = subs \/ (\E K \in SUBSET DOMAIN subs : subs' = Kept(subs, K))
          \/ Enlist(c) /\ request[c].pc \in {"task", "replaying"}
      BY DEF Request, HandlerStep, Refuse, Subscribe, ReplayDrained, ReplayBroken, Lose,
             EndConnection, Unsubscribe
    <2>. QED
      BY <2>1, <2>2, <2>3, <2>4
  <1>4. \A r \in Runs, d \in Conns : Awaits(run'[r].todo, d) <=> Awaits(run[r].todo, d)
    BY <1>0 DEF Awaits
  <1>5. CASE sent' = sent
    BY <1>0, <1>2, <1>3, <1>4, <1>5 DEF OrderInv, SentBehind, StreamInOrder
  <1>6. CASE Subscribe(c) /\ conn[c] = "open"
    <2> DEFINE replayed == Replayed(request[c].params)
    <2>1. request[c].pc = "task" /\ sent' = [sent EXCEPT ![c] = replayed]
      BY <1>6 DEF Subscribe
    <2>2. request[c].params \in AnyParams
      <3>1. request[c] # NoRequest
        BY <2>1 DEF NoRequest
      <3>. QED
        BY <3>1 DEF TypeInv, TypeOK
    <2>3. /\ InOrder(replayed)
          /\ \A j \in DOMAIN replayed : replayed[j][2] <= run[replayed[j][1]].n
      BY <2>2, ReplayedOrder
    <2>4. \A r \in Runs : ~Awaits(run[r].todo, c)
      <3>1. \A r \in Runs : \A k \in DOMAIN run[r].todo : request[run[r].todo[k].conn].pc = "subscribed"
        BY RegisteredOnes DEF OrderInv
      <3>. QED
        BY <2>1, <3>1 DEF Awaits
    <2> HIDE DEF replayed
    <2>5. sent'[c] = replayed /\ \A d \in Conns \ {c} : sent'[d] = sent[d]
      BY <1>0, <2>1
    <2>6. StreamInOrder'
      BY <2>3, <2>5 DEF OrderInv, StreamInOrder
    <2>7. SentBehind'
      <3> SUFFICES ASSUME NEW d \in Conns, NEW i \in DOMAIN sent'[d]
                   PROVE  LET q == sent'[d][i][1] IN
                          /\ sent'[d][i][2] <= run[q].n
                          /\ Awaits(run'[q].todo, d) => sent'[d][i][2] < run[q].n
        BY <1>0 DEF SentBehind
      <3>1. CASE d = c
        <4>1. sent'[c] \in Seq(Event)
          BY DEF TypeInv, TypeOK
        <4>2. sent'[c][i] \in Event
          BY <3>1, <4>1
        <4>3. sent'[c][i][1] \in Runs
          BY <4>2 DEF Event
        <4>. QED
          BY <3>1, <4>3, <2>3, <2>4, <2>5, <1>4
      <3>2. CASE d # c
        <4>1. sent[d][i] \in Event
          BY <1>0, <2>5, <3>2
        <4>2. sent[d][i][1] \in Runs
          BY <4>1 DEF Event
        <4>. QED
          BY <3>2, <4>2, <2>5, <1>4 DEF OrderInv, SentBehind
      <3>. QED
        BY <3>1, <3>2
    <2>. QED
      BY <1>2, <1>3, <2>6, <2>7 DEF OrderInv
  <1>7. sent' = sent \/ (Subscribe(c) /\ conn[c] = "open")
    <2>1. CASE Subscribe(c) /\ conn[c] # "open"
      BY <1>0, <2>1 DEF Subscribe
    <2>. QED
      BY <2>1 DEF Request, HandlerStep, Refuse, ReplayDrained, ReplayBroken, Lose, EndConnection
  <1>. QED
    BY <1>5, <1>6, <1>7

LEMMA OrderStep ==
  ASSUME TypeInv, TypeInv', IInv, OrderInv, [Next]_vars
  PROVE  OrderInv'
  <1>1. CASE UNCHANGED vars
    <2>1. \A r \in Runs, c \in Conns : Awaits(run'[r].todo, c) <=> Awaits(run[r].todo, c)
      BY <1>1 DEF vars, Awaits
    <2>. QED
      BY <1>1, <2>1 DEF vars, OrderInv, Registered, OneEach, AsAsked, SentBehind, StreamInOrder
  <1>. QED
    BY <1>1, RunOrder, RequestOrder DEF Next

\* However the replay of a file, the copies of the list and the publishes of other
\* runs interleave, no client is sent an event twice or out of its run's order: for
\* any runs, events, connections, parameters and failing writes.
THEOREM AlwaysStreamInOrder == Spec => []StreamInOrder
  <1>1. TypeInv /\ IInv /\ OrderInv /\ [Next]_vars => (TypeInv /\ IInv /\ OrderInv)'
    BY TypeStep, StepInv, OrderStep
  <1>2. OrderInv => StreamInOrder
    BY DEF OrderInv
  <1>. QED
    BY InitTypes, InitInv, InitOrder, <1>1, <1>2, PTL DEF Spec

-----------------------------------------------------------------------------
(* The completeness of what a client is sent.                               *)

LEMMA InitDelivery == Init => DeliveryInv
  BY DEF Init, DeliveryInv, NoRequest

\* The list loses the connections that are dropped from it, and no other.
LEMMA KeepsSubscribed ==
  ASSUME TypeOK, NEW dead, NEW c \in Conns \ dead, Subscribed(c), subs' = Unsubscribe(dead)
  PROVE  Subscribed(c)'
  <1> DEFINE K == {i \in DOMAIN subs : subs[i].conn \notin dead}
  <1>1. PICK i \in DOMAIN subs : subs[i].conn = c
    BY DEF Subscribed
  <1>2. i \in K
    BY <1>1
  <1>3. subs \in Seq(Subscription)
    BY DEF TypeOK
  <1>4. K \in SUBSET DOMAIN subs /\ subs' = Kept(subs, K)
    BY DEF Unsubscribe
  <1> HIDE DEF K
  <1>5. \E j \in DOMAIN Kept(subs, K) : Kept(subs, K)[j] = subs[i]
    BY <1>2, <1>3, <1>4, KeptElements
  <1>. QED
    BY <1>1, <1>4, <1>5 DEF Subscribed

LEMMA ContainsMore ==
  ASSUME NEW g \in Seq(Event), NEW e \in Event
  PROVE  /\ Contains(Append(g, e), e)
         /\ \A d : Contains(g, d) => Contains(Append(g, e), d)
  <1>1. /\ Len(Append(g, e)) = Len(g) + 1 /\ Len(g) \in Nat
        /\ Append(g, e)[Len(g) + 1] = e
        /\ \A i \in 1..Len(g) : Append(g, e)[i] = g[i]
    OBVIOUS
  <1>2. \A i \in 1..Len(g) : i \in 1..Len(Append(g, e))
    BY <1>1
  <1>3. Len(g) + 1 \in 1..Len(Append(g, e))
    BY <1>1
  <1>. QED
    BY <1>1, <1>2, <1>3 DEF Contains

\* Those who wait for the event of a publish get it now or are left in its list.
LEMMA ServeDelivery ==
  ASSUME TypeInv, TypeInv', DeliveryInv, NEW r \in Runs, NEW n \in 1..LastEvent,
         NEW todo \in Seq(Subscription), NEW dead \in SUBSET Conns,
         Serve(r, <<r, n>>, todo, dead), UNCHANGED <<conn, request, since>>,
         \A c \in dead : conn[c] # "open",
         \A c \in Conns : conn[c] = "open" /\ request[c].pc = "subscribed" =>
           \A m \in (since[c][r] + 1)..n : Matches(<<r, m>>, request[c].params) =>
             \/ Contains(sent[c], <<r, m>>)
             \/ m = n /\ \E k \in DOMAIN todo : todo[k].conn = c
  PROVE  DeliveryInv'
  <1>0. /\ run \in [Runs -> [pc : {"new", "going", "pushing", "over"}, n : 0..LastEvent,
                            todo : Seq(Subscription), dead : SUBSET Conns]]
        /\ sent \in [Conns -> Seq(Event)] /\ subs \in Seq(Subscription)
        /\ <<r, n>> \in Event
    BY EventStreamAssumption DEF TypeInv, TypeOK, Event
  <1>1. /\ run'[r].n = n /\ run'[r].todo \in {<<>>, todo} /\ run'[r].dead \in {{}, dead}
        /\ \A q \in Runs \ {r} : run'[q] = run[q]
    BY <1>0 DEF Serve, Return, Push
  <1>2. \A q \in Runs : \A c \in run'[q].dead : conn'[c] # "open"
    BY <1>1 DEF DeliveryInv
  <1>3. ASSUME NEW c \in Conns, conn[c] = "open", request[c].pc = "subscribed"
        PROVE  Subscribed(c)'
    <2>1. Subscribed(c) /\ c \notin dead
      BY <1>3 DEF DeliveryInv
    <2>2. CASE subs' = subs
      BY <2>1, <2>2 DEF Subscribed
    <2>3. CASE subs' = Unsubscribe(dead)
      BY <2>1, <2>3, KeepsSubscribed DEF TypeInv
    <2>. QED
      BY <2>2, <2>3 DEF Serve, Return, Push
  <1>4. ASSUME NEW c \in Conns
        PROVE  \A e : Contains(sent[c], e) => Contains(sent'[c], e)
    <2>1. sent[c] \in Seq(Event)
      BY <1>0
    <2>2. sent' = sent \/ Push(r, <<r, n>>, todo, dead)
      BY DEF Serve, Return
    <2>3. CASE Push(r, <<r, n>>, todo, dead)
      <3>1. sent'[c] = sent[c] \/ sent'[c] = Append(sent[c], <<r, n>>)
        BY <1>0, <2>3 DEF Push
      <3>2. \A e : Contains(sent[c], e) => Contains(Append(sent[c], <<r, n>>), e)
        BY <1>0, <2>1, ContainsMore
      <3>. QED
        BY <3>1, <3>2
    <2>. QED
      BY <2>2, <2>3
  <1>5. ASSUME NEW c \in Conns, conn[c] = "open", NEW k \in DOMAIN todo, todo[k].conn = c
        PROVE  Contains(sent'[c], <<r, n>>) \/ Awaits(run'[r].todo, c)
    <2>1. Push(r, <<r, n>>, todo, dead) /\ run'[r].todo = todo
      <3>1. todo # <<>>
        BY <1>5
      <3>2. Push(r, <<r, n>>, todo, dead)
        BY <3>1 DEF Serve
      <3>. QED
        BY <3>2, <1>0 DEF Push
    <2>2. CASE k = 1
      <3>1. Head(todo).conn = c
        BY <2>2, <1>5
      <3>2. sent'[c] = Append(sent[c], <<r, n>>)
        BY <2>1, <3>1, <1>0, <1>5 DEF Push
      <3>. QED
        BY <3>2, <1>0, ContainsMore
    <2>3. CASE k > 1
      BY <2>1, <2>3, <1>5 DEF Awaits
    <2>4. k \in Nat /\ k >= 1
      OBVIOUS
    <2>. QED
      BY <2>2, <2>3, <2>4
  <1>6. ASSUME NEW c \in Conns, conn[c] = "open", request[c].pc = "subscribed",
               NEW q \in Runs, NEW m \in (since[c][q] + 1)..run'[q].n,
               Matches(<<q, m>>, request[c].params)
        PROVE  Contains(sent'[c], <<q, m>>) \/ (m = run'[q].n /\ Awaits(run'[q].todo, c))
    <2>1. CASE q = r
      <3>1. m \in (since[c][r] + 1)..n
        BY <1>1, <1>6, <2>1
      <3>2. \/ Contains(sent[c], <<r, m>>)
            \/ m = n /\ \E k \in DOMAIN todo : todo[k].conn = c
        BY <1>6, <2>1, <3>1
      <3>. QED
        BY <3>2, <2>1, <1>1, <1>4, <1>5, <1>6
    <2>2. CASE q # r
      <3>1. Contains(sent[c], <<q, m>>) \/ (m = run[q].n /\ Awaits(run[q].todo, c))
        BY <1>1, <1>6, <2>2 DEF DeliveryInv, Served
      <3>. QED
        BY <3>1, <2>2, <1>1, <1>4
    <2>. QED
      BY <2>1, <2>2
  <1>7. \A c \in Conns : conn[c] = "open" /\ request[c].pc = "subscribed" => Served(c)'
    BY <1>6 DEF Served, Matches, MatchesTopic, MatchesScope
  <1>. QED
    BY <1>2, <1>3, <1>7 DEF DeliveryInv

LEMMA RunDelivery ==
  ASSUME TypeInv, TypeInv', OrderInv, DeliveryInv, NEW r \in Runs, RunStep(r)
  PROVE  DeliveryInv'
  <1>1. PICK n \in 1..LastEvent, todo \in Seq(Subscription), dead \in SUBSET Conns :
           /\ Serve(r, <<r, n>>, todo, dead)
           /\ UNCHANGED <<conn, request, since>>
           /\ \/ /\ run[r].todo = <<>> /\ n = run[r].n + 1 /\ dead = {}
                 /\ todo = Kept(subs, {i \in DOMAIN subs : Matches(<<r, n>>, subs[i].params)})
              \/ /\ run[r].todo # <<>> /\ n = run[r].n /\ todo = Tail(run[r].todo)
                 /\ LET c == Head(run[r].todo).conn
                    IN  dead = IF conn[c] = "open" THEN run[r].dead ELSE run[r].dead \cup {c}
    BY RunStepServes
  <1>0. /\ run[r].n \in Nat /\ run[r].todo \in Seq(Subscription) /\ subs \in Seq(Subscription)
        /\ LastEvent \in Nat /\ since \in [Conns -> [Runs -> 0..LastEvent]]
    BY EventStreamAssumption DEF TypeInv, TypeOK
  <1>2. \A c \in dead : conn[c] # "open"
    BY <1>1 DEF DeliveryInv
  <1>3. ASSUME NEW c \in Conns, conn[c] = "open", request[c].pc = "subscribed",
               NEW m \in (since[c][r] + 1)..n, Matches(<<r, m>>, request[c].params)
        PROVE  \/ Contains(sent[c], <<r, m>>)
               \/ m = n /\ \E k \in DOMAIN todo : todo[k].conn = c
    <2>0. Subscribed(c) /\ Served(c) /\ since[c][r] \in Nat /\ m \in Nat
      BY <1>3, <1>0 DEF DeliveryInv
    <2>1. CASE run[r].todo = <<>> /\ n = run[r].n + 1
      <3>1. ~Awaits(run[r].todo, c)
        BY <2>1 DEF Awaits
      <3>2. CASE m # n
        <4>1. m \in (since[c][r] + 1)..run[r].n
          BY <2>0, <2>1, <3>2, <1>0
        <4>. QED
          BY <4>1, <3>1, <2>0, <1>3 DEF Served
      <3>3. CASE m = n
        <4> DEFINE K == {i \in DOMAIN subs : Matches(<<r, n>>, subs[i].params)}
        <4>1. PICK i \in DOMAIN subs : subs[i].conn = c
          BY <2>0 DEF Subscribed
        <4>2. subs[i].params = request[c].params
          BY <4>1, RegisteredOnes DEF OrderInv
        <4>3. i \in K
          BY <4>2, <3>3, <1>3
        <4>4. todo = Kept(subs, K) /\ K \in SUBSET DOMAIN subs
          BY <1>1, <2>1, <1>0
        <4> HIDE DEF K
        <4>5. \E j \in DOMAIN Kept(subs, K) : Kept(subs, K)[j] = subs[i]
          BY <4>3, <4>4, <1>0, KeptElements
        <4>. QED
          BY <4>1, <4>4, <4>5, <3>3
      <3>. QED
        BY <3>2, <3>3
    <2>2. CASE run[r].todo # <<>> /\ n = run[r].n /\ todo = Tail(run[r].todo)
      <3>1. Contains(sent[c], <<r, m>>) \/ (m = n /\ Awaits(run[r].todo, c))
        BY <2>0, <2>2, <1>3 DEF Served
      <3>2. ASSUME Awaits(run[r].todo, c) PROVE \E k \in DOMAIN todo : todo[k].conn = c
        <4>1. PICK k \in DOMAIN run[r].todo : k > 1 /\ run[r].todo[k].conn = c
          BY <3>2 DEF Awaits
        <4> DEFINE old == run[r].todo
        <4>2. old \in Seq(Subscription) /\ old # <<>> /\ k \in DOMAIN old /\ k > 1 /\ todo = Tail(old)
          BY <4>1, <2>2, <1>0
        <4> HIDE DEF old
        <4>3. k - 1 \in DOMAIN todo /\ todo[k - 1] = old[k]
          BY <4>2
        <4>. QED
          BY <4>1, <4>3 DEF old
      <3>. QED
        BY <3>1, <3>2
    <2>. QED
      BY <1>1, <2>1, <2>2
  <1>. QED
    BY <1>1, <1>2, <1>3, ServeDelivery

\* A connection that subscribes is owed nothing yet; one that goes is owed nothing more.
LEMMA RequestDelivery ==
  ASSUME TypeInv, DeliveryInv, NEW c \in Conns,
         \/ \E params \in Params[c] : Request(c, params)
         \/ HandlerStep(c) \/ Lose(c) \/ EndConnection(c)
  PROVE  DeliveryInv'
  <1>0. /\ subs \in Seq(Subscription) /\ sent \in [Conns -> Seq(Event)]
        /\ request = [d \in Conns |-> request[d]] /\ since = [d \in Conns |-> since[d]]
        /\ conn = [d \in Conns |-> conn[d]] /\ run' = run
        /\ \A r \in Runs : run[r].n \in Nat /\ run[r].dead \subseteq Conns
        /\ TypeOK
    BY RequestTypes, EventStreamAssumption DEF TypeInv, TypeOK
  <1>1. \A d \in Conns : conn'[d] = "open" => conn[d] = "open"
    BY <1>0 DEF Request, HandlerStep, Refuse, Subscribe, ReplayDrained, ReplayBroken, Lose,
                EndConnection
  <1>2. \A r \in Runs : \A d \in run'[r].dead : conn'[d] # "open"
    BY <1>0, <1>1 DEF DeliveryInv
  <1>3. \A d \in Conns \ {c} : request'[d] = request[d] /\ since'[d] = since[d] /\ sent'[d] = sent[d]
    BY <1>0 DEF Request, HandlerStep, Refuse, Subscribe, ReplayDrained, ReplayBroken, Enlist,
                Lose, EndConnection
  <1>4. ASSUME NEW d \in Conns \ {c}, Subscribed(d) PROVE Subscribed(d)'
    <2>1. CASE subs' = subs
      BY <1>4, <2>1 DEF Subscribed
    <2>2. CASE Enlist(c)
      <3> DEFINE new == [conn |-> c, params |-> request[c].params]
      <3>1. subs' = Append(subs, new)
        BY <2>2 DEF Enlist
      <3> HIDE DEF new
      <3>2. \A i \in DOMAIN subs : i \in DOMAIN subs' /\ subs'[i] = subs[i]
        BY <1>0, <3>1
      <3>. QED
        BY <1>4, <3>2 DEF Subscribed
    <2>3. CASE subs' = Unsubscribe({c})
      BY <1>0, <1>4, <2>3, KeepsSubscribed
    <2>. QED
      BY <2>1, <2>2, <2>3 DEF Request, HandlerStep, Refuse, Subscribe, ReplayDrained,
         ReplayBroken, Lose, EndConnection
  <1>5. ASSUME NEW d \in Conns \ {c}, conn'[d] = "open", request'[d].pc = "subscribed"
        PROVE  Subscribed(d)' /\ Served(d)'
    <2>1. Subscribed(d) /\ Served(d)
      BY <1>1, <1>3, <1>5 DEF DeliveryInv
    <2>. QED
      BY <1>0, <1>3, <1>4, <2>1 DEF Served, Matches, MatchesTopic, MatchesScope
  <1>6. ASSUME conn'[c] = "open", request'[c].pc = "subscribed" PROVE Subscribed(c)' /\ Served(c)'
    <2>1. CASE Enlist(c)
      <3> DEFINE new == [conn |-> c, params |-> request[c].params]
      <3>1. subs' = Append(subs, new) /\ new.conn = c
            /\ since'[c] = [r \in Runs |-> run[r].n]
        BY <2>1, <1>0 DEF Enlist
      <3> HIDE DEF new
      <3>2. Len(subs) + 1 \in DOMAIN subs' /\ subs'[Len(subs) + 1] = new
        BY <1>0, <3>1
      <3>3. Subscribed(c)'
        BY <3>1, <3>2 DEF Subscribed
      <3>4. \A r \in Runs : (since'[c][r] + 1)..run'[r].n = {}
        BY <1>0, <3>1
      <3>. QED
        BY <3>3, <3>4 DEF Served
    <2>2. CASE ~Enlist(c)
      <3>0. \A p : [request EXCEPT ![c].pc = p][c].pc = p
        <4>1. request[c] = [pc |-> "none"] \/
              request[c] \in [pc : {"task", "replaying", "subscribed", "refused", "dropped"},
                              params : AnyParams]
          BY <1>0 DEF TypeOK, NoRequest
        <4>. QED
          BY <1>0, <4>1
      <3>1. ~(Lose(c) \/ EndConnection(c))
        BY <1>0, <1>6 DEF Lose, EndConnection
      <3>2. ~(\E params \in Params[c] : Request(c, params)) /\ ~Refuse(c) /\ ~ReplayBroken(c)
        <4>1. ASSUME NEW params \in Params[c], Request(c, params) PROVE FALSE
          <5>1. request'[c] = [pc |-> "task", params |-> params]
            BY <4>1, <1>0 DEF Request
          <5>2. request'[c].pc = "task"
            BY <5>1
          <5>. QED
            BY <5>2, <1>6
        <4>2. CASE Refuse(c)
          <5>1. request'[c].pc \in {"refused", "dropped"}
            BY <4>2, <3>0 DEF Refuse
          <5>. QED
            BY <5>1, <1>6
        <4>3. CASE ReplayBroken(c)
          <5>1. request'[c].pc = "dropped"
            BY <4>3, <3>0 DEF ReplayBroken
          <5>. QED
            BY <5>1, <1>6
        <4>. QED
          BY <4>1, <4>2, <4>3
      <3>3. ~Subscribe(c) /\ ~ReplayDrained(c)
        BY <2>2, <1>0, <1>6, <3>0 DEF Subscribe, ReplayDrained
      <3>. QED
        BY <3>1, <3>2, <3>3 DEF HandlerStep
    <2>. QED
      BY <2>1, <2>2
  <1>. QED
    BY <1>2, <1>5, <1>6 DEF DeliveryInv

LEMMA DeliveryStep ==
  ASSUME TypeInv, TypeInv', OrderInv, DeliveryInv, [Next]_vars
  PROVE  DeliveryInv'
  <1>1. CASE UNCHANGED vars
    BY <1>1 DEF vars, DeliveryInv, Subscribed, Served, Matches, MatchesTopic, MatchesScope
  <1>. QED
    BY <1>1, RunDelivery, RequestDelivery DEF Next

\* From its registration on an open connection is sent every event it asked for, but the
\* one of a publish that has still to come to it, whatever subscriptions come, go and die
\* in the meantime: for any runs, events, connections and parameters.
THEOREM AlwaysLiveComplete == Spec => []LiveComplete
  <1>1. /\ TypeInv /\ IInv /\ OrderInv /\ DeliveryInv /\ [Next]_vars
           => (TypeInv /\ IInv /\ OrderInv /\ DeliveryInv)'
    BY TypeStep, StepInv, OrderStep, DeliveryStep
  <1>2. TypeInv /\ DeliveryInv => LiveComplete
    <2> SUFFICES ASSUME TypeInv, DeliveryInv, NEW c \in Conns,
                        conn[c] = "open", request[c].pc = "subscribed", NEW r \in Runs,
                        NEW n \in (since[c][r] + 1)..(run[r].n - (IF run[r].pc = "pushing" THEN 1 ELSE 0)),
                        Matches(<<r, n>>, request[c].params)
                 PROVE  Contains(sent[c], <<r, n>>)
      BY DEF LiveComplete
    <2>1. run[r].n \in Nat /\ since[c][r] \in Nat
      BY EventStreamAssumption DEF TypeInv, TypeOK
    <2>2. n \in (since[c][r] + 1)..run[r].n /\ (run[r].pc = "pushing" => n # run[r].n)
      BY <2>1
    <2>3. run[r].pc # "pushing" => run[r].todo = <<>>
      BY DEF TypeInv, Counted
    <2>4. run[r].pc # "pushing" => ~Awaits(run[r].todo, c)
      BY <2>3 DEF Awaits
    <2>. QED
      BY <2>2, <2>4 DEF DeliveryInv, Served
  <1>. QED
    BY InitTypes, InitInv, InitOrder, InitDelivery, <1>1, <1>2, PTL DEF Spec
=============================================================================
