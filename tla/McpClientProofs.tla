-------------------------- MODULE McpClientProofs ---------------------------
(***************************************************************************)
(* OneReader and OwnAnswer for any number of calls and attempts and any    *)
(* server, from the inductive invariant IInv of McpClient.                 *)
(***************************************************************************)
EXTENDS McpClient, TLAPS

\* A line ahead of the first can be dropped, and one can be added at the end.
LEMMA TailMembers ==
  ASSUME NEW S, NEW s \in Seq(S), s # <<>>
  PROVE  /\ Head(s) \in S
         /\ Tail(s) \in Seq(S)
         /\ \A i \in DOMAIN Tail(s) : i + 1 \in DOMAIN s /\ Tail(s)[i] = s[i + 1]
         /\ 1 \in DOMAIN s /\ Head(s) = s[1]
  OBVIOUS

LEMMA AppendMembers ==
  ASSUME NEW S, NEW s \in Seq(S), NEW e \in S
  PROVE  /\ Append(s, e) \in Seq(S)
         /\ \A i \in DOMAIN Append(s, e) :
               (i \in DOMAIN s /\ Append(s, e)[i] = s[i]) \/ Append(s, e)[i] = e
  OBVIOUS

LEMMA OtherIsNoAnswer == Other \notin Answers
  <1>1. DOMAIN Other = {"kind"}
    BY DEF Other
  <1>2. \A a \in Answers : DOMAIN a = {"request", "ok"}
    BY DEF Answers
  <1>3. "ok" # "kind"
    OBVIOUS
  <1>. QED
    BY <1>1, <1>2, <1>3

\* What a line that carries a call's id is.
LEMMA HeadAnswer ==
  ASSUME IInv, NEW c \in Calls, stream # <<>>, Answering(Head(stream), id[c])
  PROVE  Head(stream) \in answers /\ Known(Head(stream).request)
  <1>1. stream \in Seq(Answers \cup {Other})
    BY DEF IInv, TypeOK
  <1>2. 1 \in DOMAIN stream /\ Head(stream) = stream[1]
    BY <1>1, TailMembers
  <1>. QED
    BY <1>2 DEF IInv, Answering

THEOREM InitInv == Init => IInv
  <1> SUFFICES ASSUME Init PROVE IInv
    OBVIOUS
  <1> USE DEF Init
  <1>1. TypeOK
    <2>1. pc \in [Calls -> {"idle", "waiting", "reading", "result", "error",
                           "timeout", "cancelled"}]
      OBVIOUS
    <2>2. attempt \in [Calls -> 1..Attempts] /\ id \in [Calls -> Nat] /\ lastId \in Nat
      BY McpAssumption
    <2>3. gone \in BOOLEAN /\ lock \in Calls \cup {NoCall}
      BY Zenon
    <2>4. inbox \subseteq Requests /\ answers \subseteq Answers
      OBVIOUS
    <2>5. stream \in Seq(Answers \cup {Other}) /\ got \in [Calls -> Answers \cup {NoAnswer}]
      OBVIOUS
    <2>. QED
      BY <2>1, <2>2, <2>3, <2>4, <2>5 DEF TypeOK
  <1>2. OneReader
    BY McpAssumption DEF OneReader
  <1>3. OwnAnswer /\ IdsDiffer
    BY DEF OwnAnswer, IdsDiffer
  <1>. QED
    BY <1>1, <1>2, <1>3 DEF IInv

\* A failed attempt stays within the bound, and touches no other call.
LEMMA FailedCall ==
  ASSUME TypeOK, NEW c \in Calls, Fail(c)
  PROVE  /\ attempt' \in [Calls -> 1..Attempts]
         /\ pc' \in [Calls -> {"idle", "waiting", "reading", "result", "error",
                               "timeout", "cancelled"}]
         /\ pc'[c] \in {"idle", "error"}
         /\ \A d \in Calls \ {c} : pc'[d] = pc[d] /\ attempt'[d] = attempt[d]
         /\ lock' = IF lock = c THEN NoCall ELSE lock
         /\ id' = id /\ lastId' = lastId
  <1> USE McpAssumption DEF TypeOK, Fail, Leave
  <1>1. CASE attempt[c] < Attempts
    <2>1. attempt[c] + 1 \in 1..Attempts
      BY <1>1
    <2>. QED
      BY <1>1, <2>1
  <1>2. CASE ~(attempt[c] < Attempts)
    BY <1>2
  <1>. QED
    BY <1>1, <1>2

\* A request stays known while no call takes to its id.
LEMMA KnownKept ==
  ASSUME NEW request, Known(request), lastId' = lastId, id' = id,
         \A d \in Calls : pc'[d] \in {"waiting", "reading", "result"} =>
             pc[d] \in {"waiting", "reading", "result"} /\ attempt'[d] = attempt[d]
  PROVE  Known(request)'
  BY DEF Known, RequestOf

-----------------------------------------------------------------------------
(* Each action preserves IInv.                                              *)

LEMMA InvokePreserves ==
  ASSUME IInv, NEW c \in Calls, Invoke(c)
  PROVE  IInv'
  <1> USE McpAssumption DEF Invoke, serverVars
  <1>0. TypeOK /\ OneReader /\ OwnAnswer /\ IdsDiffer
    BY DEF IInv
  <1>1. TypeOK'
    <2>1. pc' \in [Calls -> {"idle", "waiting", "reading", "result", "error",
                            "timeout", "cancelled"}]
      BY <1>0 DEF TypeOK
    <2>2. attempt' \in [Calls -> 1..Attempts] /\ id' \in [Calls -> Nat] /\ lastId' \in Nat
      BY <1>0 DEF TypeOK
    <2>3. lock' \in Calls \cup {NoCall}
      BY <1>0 DEF TypeOK
    <2>4. gone' \in BOOLEAN
      BY <1>0, Zenon DEF TypeOK
    <2>5. inbox' \subseteq Requests /\ answers' \subseteq Answers
      BY <1>0 DEF TypeOK
    <2>6. stream' \in Seq(Answers \cup {Other})
      BY <1>0 DEF TypeOK
    <2>7. got' \in [Calls -> Answers \cup {NoAnswer}]
      BY <1>0 DEF TypeOK
    <2>. QED
      BY <2>1, <2>2, <2>3, <2>4, <2>5, <2>6, <2>7 DEF TypeOK
  <1>2. OneReader'
    BY <1>0 DEF OneReader, TypeOK
  <1>3. OwnAnswer'
    BY <1>0 DEF OwnAnswer, TypeOK, RequestOf, Known
  <1>4. IdsDiffer' /\ \A d \in Calls : id'[d] <= lastId' /\ (pc'[d] \in {"waiting", "reading"} => id'[d] # 0)
    BY <1>0 DEF IInv, IdsDiffer, TypeOK
  <1>5. \A request \in inbox' : Known(request)'
    BY <1>0 DEF IInv, TypeOK, Known, RequestOf, Requests, IdsDiffer
  <1>6. \A answer \in answers' : Known(answer.request)'
    BY <1>0 DEF IInv, TypeOK, Known, RequestOf, Requests, Answers
  <1>7. \A i \in DOMAIN stream' : stream'[i] # Other => stream'[i] \in answers'
    BY <1>0 DEF IInv, TypeOK
  <1>. QED
    BY <1>1, <1>2, <1>3, <1>4, <1>5, <1>6, <1>7 DEF IInv

LEMMA AcquirePreserves ==
  ASSUME IInv, NEW c \in Calls, Acquire(c)
  PROVE  IInv'
  <1> USE McpAssumption DEF Acquire, First
  <1>h. RequestOf(c) \in Requests
    BY DEF Acquire, First, RequestOf, Requests, IInv, TypeOK
  <1>0. TypeOK /\ OneReader /\ OwnAnswer /\ IdsDiffer
    BY DEF IInv
  <1>1. TypeOK'
    <2>1. pc' \in [Calls -> {"idle", "waiting", "reading", "result", "error",
                            "timeout", "cancelled"}]
      BY <1>0 DEF TypeOK
    <2>2. attempt' \in [Calls -> 1..Attempts] /\ id' \in [Calls -> Nat] /\ lastId' \in Nat
      BY <1>0 DEF TypeOK
    <2>3. lock' \in Calls \cup {NoCall}
      BY <1>0 DEF TypeOK
    <2>4. gone' \in BOOLEAN
      BY <1>0, Zenon DEF TypeOK
    <2>5. inbox' \subseteq Requests /\ answers' \subseteq Answers
      BY <1>0, <1>h DEF TypeOK
    <2>6. stream' \in Seq(Answers \cup {Other})
      BY <1>0 DEF TypeOK
    <2>7. got' \in [Calls -> Answers \cup {NoAnswer}]
      BY <1>0, <1>h DEF TypeOK
    <2>. QED
      BY <2>1, <2>2, <2>3, <2>4, <2>5, <2>6, <2>7 DEF TypeOK
  <1>2. OneReader'
    BY <1>0 DEF OneReader, TypeOK
  <1>3. OwnAnswer'
    BY <1>0, <1>h DEF OwnAnswer, TypeOK, RequestOf, Known
  <1>4. IdsDiffer' /\ \A d \in Calls : id'[d] <= lastId' /\ (pc'[d] \in {"waiting", "reading"} => id'[d] # 0)
    BY <1>0 DEF IInv, IdsDiffer, TypeOK
  <1>5. \A request \in inbox' : Known(request)'
    BY <1>0, <1>h DEF IInv, TypeOK, Known, RequestOf, Requests, IdsDiffer
  <1>6. \A answer \in answers' : Known(answer.request)'
    BY <1>0, <1>h DEF IInv, TypeOK, Known, RequestOf, Requests, Answers
  <1>7. \A i \in DOMAIN stream' : stream'[i] # Other => stream'[i] \in answers'
    BY <1>0 DEF IInv, TypeOK
  <1>. QED
    BY <1>1, <1>2, <1>3, <1>4, <1>5, <1>6, <1>7 DEF IInv

LEMMA WriteFailsPreserves ==
  ASSUME IInv, NEW c \in Calls, WriteFails(c)
  PROVE  IInv'
  <1> USE McpAssumption DEF WriteFails, Fail, Leave, First, serverVars
  <1>0. TypeOK /\ OneReader /\ OwnAnswer /\ IdsDiffer
    BY DEF IInv
  <1>1. TypeOK'
    <2>1. pc' \in [Calls -> {"idle", "waiting", "reading", "result", "error",
                            "timeout", "cancelled"}]
      BY <1>0 DEF TypeOK
    <2>2. attempt' \in [Calls -> 1..Attempts] /\ id' \in [Calls -> Nat] /\ lastId' \in Nat
      BY <1>0, FailedCall DEF TypeOK
    <2>3. lock' \in Calls \cup {NoCall}
      BY <1>0 DEF TypeOK
    <2>4. gone' \in BOOLEAN
      BY <1>0, Zenon DEF TypeOK
    <2>5. inbox' \subseteq Requests /\ answers' \subseteq Answers
      BY <1>0 DEF TypeOK
    <2>6. stream' \in Seq(Answers \cup {Other})
      BY <1>0 DEF TypeOK
    <2>7. got' \in [Calls -> Answers \cup {NoAnswer}]
      BY <1>0 DEF TypeOK
    <2>. QED
      BY <2>1, <2>2, <2>3, <2>4, <2>5, <2>6, <2>7 DEF TypeOK
  <1>2. OneReader'
    BY <1>0 DEF OneReader, TypeOK
  <1>3. OwnAnswer'
    BY <1>0 DEF OwnAnswer, TypeOK, RequestOf, Known
  <1>4. IdsDiffer' /\ \A d \in Calls : id'[d] <= lastId' /\ (pc'[d] \in {"waiting", "reading"} => id'[d] # 0)
    BY <1>0 DEF IInv, IdsDiffer, TypeOK
  <1>5. \A request \in inbox' : Known(request)'
    BY <1>0 DEF IInv, TypeOK, Known, RequestOf, Requests, IdsDiffer
  <1>6. \A answer \in answers' : Known(answer.request)'
    BY <1>0, FailedCall, KnownKept DEF IInv
  <1>7. \A i \in DOMAIN stream' : stream'[i] # Other => stream'[i] \in answers'
    BY <1>0 DEF IInv, TypeOK
  <1>. QED
    BY <1>1, <1>2, <1>3, <1>4, <1>5, <1>6, <1>7 DEF IInv

LEMMA SkipLinePreserves ==
  ASSUME IInv, NEW c \in Calls, SkipLine(c)
  PROVE  IInv'
  <1> USE McpAssumption DEF SkipLine, clientVars
  <1>0. TypeOK /\ OneReader /\ OwnAnswer /\ IdsDiffer
    BY DEF IInv
  <1>1. TypeOK'
    <2>1. pc' \in [Calls -> {"idle", "waiting", "reading", "result", "error",
                            "timeout", "cancelled"}]
      BY <1>0 DEF TypeOK
    <2>2. attempt' \in [Calls -> 1..Attempts] /\ id' \in [Calls -> Nat] /\ lastId' \in Nat
      BY <1>0 DEF TypeOK
    <2>3. lock' \in Calls \cup {NoCall}
      BY <1>0 DEF TypeOK
    <2>4. gone' \in BOOLEAN
      BY <1>0, Zenon DEF TypeOK
    <2>5. inbox' \subseteq Requests /\ answers' \subseteq Answers
      BY <1>0 DEF TypeOK
    <2>6. stream' \in Seq(Answers \cup {Other})
      BY <1>0, TailMembers DEF TypeOK
    <2>7. got' \in [Calls -> Answers \cup {NoAnswer}]
      BY <1>0 DEF TypeOK
    <2>. QED
      BY <2>1, <2>2, <2>3, <2>4, <2>5, <2>6, <2>7 DEF TypeOK
  <1>2. OneReader'
    BY <1>0 DEF OneReader, TypeOK
  <1>3. OwnAnswer'
    BY <1>0 DEF OwnAnswer, TypeOK, RequestOf, Known
  <1>4. IdsDiffer' /\ \A d \in Calls : id'[d] <= lastId' /\ (pc'[d] \in {"waiting", "reading"} => id'[d] # 0)
    BY <1>0 DEF IInv, IdsDiffer, TypeOK
  <1>5. \A request \in inbox' : Known(request)'
    BY <1>0 DEF IInv, TypeOK, Known, RequestOf, Requests, IdsDiffer
  <1>6. \A answer \in answers' : Known(answer.request)'
    BY <1>0 DEF IInv, TypeOK, Known, RequestOf, Requests, Answers
  <1>7. \A i \in DOMAIN stream' : stream'[i] # Other => stream'[i] \in answers'
    BY <1>0, TailMembers DEF IInv, TypeOK
  <1>. QED
    BY <1>1, <1>2, <1>3, <1>4, <1>5, <1>6, <1>7 DEF IInv

LEMMA TakeAnswerPreserves ==
  ASSUME IInv, NEW c \in Calls, TakeAnswer(c)
  PROVE  IInv'
  <1> USE McpAssumption DEF TakeAnswer, Fail, Leave
  <1>h. Head(stream) \in answers /\ Known(Head(stream).request)
    BY HeadAnswer DEF TakeAnswer
  <1>0. TypeOK /\ OneReader /\ OwnAnswer /\ IdsDiffer
    BY DEF IInv
  <1>1. TypeOK'
    <2>1. pc' \in [Calls -> {"idle", "waiting", "reading", "result", "error",
                            "timeout", "cancelled"}]
      BY <1>0 DEF TypeOK
    <2>2. attempt' \in [Calls -> 1..Attempts] /\ id' \in [Calls -> Nat] /\ lastId' \in Nat
      BY <1>0, FailedCall DEF TypeOK
    <2>3. lock' \in Calls \cup {NoCall}
      BY <1>0 DEF TypeOK
    <2>4. gone' \in BOOLEAN
      BY <1>0, Zenon DEF TypeOK
    <2>5. inbox' \subseteq Requests /\ answers' \subseteq Answers
      BY <1>0, <1>h DEF TypeOK
    <2>6. stream' \in Seq(Answers \cup {Other})
      BY <1>0, TailMembers DEF TypeOK
    <2>7. got' \in [Calls -> Answers \cup {NoAnswer}]
      BY <1>0, <1>h DEF TypeOK
    <2>. QED
      BY <2>1, <2>2, <2>3, <2>4, <2>5, <2>6, <2>7 DEF TypeOK
  <1>2. OneReader'
    BY <1>0 DEF OneReader, TypeOK
  <1>3. OwnAnswer'
    <2>1. CASE Head(stream).ok
      <3>1. Head(stream).request = RequestOf(c)
        BY <1>h DEF Known, Answering
      <3>2. got'[c] = Head(stream) /\ RequestOf(c)' = RequestOf(c) /\ Head(stream) \in answers
        BY <2>1, <1>0, <1>h DEF TypeOK, RequestOf
      <3>3. \A d \in Calls \ {c} : pc'[d] = pc[d] /\ got'[d] = got[d] /\ RequestOf(d)' = RequestOf(d)
        BY <2>1, <1>0 DEF TypeOK, RequestOf
      <3>. QED
        BY <2>1, <3>1, <3>2, <3>3, <1>0 DEF OwnAnswer
    <2>2. CASE ~Head(stream).ok
      <3>1. Fail(c) /\ got' = got /\ answers' = answers
        BY <2>2
      <3>. QED
        BY <3>1, <1>0, FailedCall DEF OwnAnswer, RequestOf
    <2>. QED
      BY <2>1, <2>2
  <1>4. IdsDiffer' /\ \A d \in Calls : id'[d] <= lastId' /\ (pc'[d] \in {"waiting", "reading"} => id'[d] # 0)
    BY <1>0 DEF IInv, IdsDiffer, TypeOK
  <1>5. \A request \in inbox' : Known(request)'
    BY <1>0, <1>h DEF IInv, TypeOK, Known, RequestOf, Requests, IdsDiffer
  <1>6. \A answer \in answers' : Known(answer.request)'
    BY <1>0, <1>h DEF IInv, TypeOK, Known, RequestOf, Requests, Answers
  <1>7. \A i \in DOMAIN stream' : stream'[i] # Other => stream'[i] \in answers'
    BY <1>0, TailMembers DEF IInv, TypeOK
  <1>. QED
    BY <1>1, <1>2, <1>3, <1>4, <1>5, <1>6, <1>7 DEF IInv

LEMMA UnavailablePreserves ==
  ASSUME IInv, NEW c \in Calls, Unavailable(c)
  PROVE  IInv'
  <1> USE McpAssumption DEF Unavailable, Fail, Leave, serverVars
  <1>0. TypeOK /\ OneReader /\ OwnAnswer /\ IdsDiffer
    BY DEF IInv
  <1>1. TypeOK'
    <2>1. pc' \in [Calls -> {"idle", "waiting", "reading", "result", "error",
                            "timeout", "cancelled"}]
      BY <1>0 DEF TypeOK
    <2>2. attempt' \in [Calls -> 1..Attempts] /\ id' \in [Calls -> Nat] /\ lastId' \in Nat
      BY <1>0, FailedCall DEF TypeOK
    <2>3. lock' \in Calls \cup {NoCall}
      BY <1>0 DEF TypeOK
    <2>4. gone' \in BOOLEAN
      BY <1>0, Zenon DEF TypeOK
    <2>5. inbox' \subseteq Requests /\ answers' \subseteq Answers
      BY <1>0 DEF TypeOK
    <2>6. stream' \in Seq(Answers \cup {Other})
      BY <1>0 DEF TypeOK
    <2>7. got' \in [Calls -> Answers \cup {NoAnswer}]
      BY <1>0 DEF TypeOK
    <2>. QED
      BY <2>1, <2>2, <2>3, <2>4, <2>5, <2>6, <2>7 DEF TypeOK
  <1>2. OneReader'
    BY <1>0 DEF OneReader, TypeOK
  <1>3. OwnAnswer'
    BY <1>0 DEF OwnAnswer, TypeOK, RequestOf, Known
  <1>4. IdsDiffer' /\ \A d \in Calls : id'[d] <= lastId' /\ (pc'[d] \in {"waiting", "reading"} => id'[d] # 0)
    BY <1>0 DEF IInv, IdsDiffer, TypeOK
  <1>5. \A request \in inbox' : Known(request)'
    BY <1>0 DEF IInv, TypeOK, Known, RequestOf, Requests, IdsDiffer
  <1>6. \A answer \in answers' : Known(answer.request)'
    BY <1>0, FailedCall, KnownKept DEF IInv
  <1>7. \A i \in DOMAIN stream' : stream'[i] # Other => stream'[i] \in answers'
    BY <1>0 DEF IInv, TypeOK
  <1>. QED
    BY <1>1, <1>2, <1>3, <1>4, <1>5, <1>6, <1>7 DEF IInv

LEMMA ToolTimeoutPreserves ==
  ASSUME IInv, NEW c \in Calls, ToolTimeout(c)
  PROVE  IInv'
  <1> USE McpAssumption DEF ToolTimeout, Leave, serverVars
  <1>0. TypeOK /\ OneReader /\ OwnAnswer /\ IdsDiffer
    BY DEF IInv
  <1>1. TypeOK'
    <2>1. pc' \in [Calls -> {"idle", "waiting", "reading", "result", "error",
                            "timeout", "cancelled"}]
      BY <1>0 DEF TypeOK
    <2>2. attempt' \in [Calls -> 1..Attempts] /\ id' \in [Calls -> Nat] /\ lastId' \in Nat
      BY <1>0 DEF TypeOK
    <2>3. lock' \in Calls \cup {NoCall}
      BY <1>0 DEF TypeOK
    <2>4. gone' \in BOOLEAN
      BY <1>0, Zenon DEF TypeOK
    <2>5. inbox' \subseteq Requests /\ answers' \subseteq Answers
      BY <1>0 DEF TypeOK
    <2>6. stream' \in Seq(Answers \cup {Other})
      BY <1>0 DEF TypeOK
    <2>7. got' \in [Calls -> Answers \cup {NoAnswer}]
      BY <1>0 DEF TypeOK
    <2>. QED
      BY <2>1, <2>2, <2>3, <2>4, <2>5, <2>6, <2>7 DEF TypeOK
  <1>2. OneReader'
    BY <1>0 DEF OneReader, TypeOK
  <1>3. OwnAnswer'
    BY <1>0 DEF OwnAnswer, TypeOK, RequestOf, Known
  <1>4. IdsDiffer' /\ \A d \in Calls : id'[d] <= lastId' /\ (pc'[d] \in {"waiting", "reading"} => id'[d] # 0)
    BY <1>0 DEF IInv, IdsDiffer, TypeOK
  <1>5. \A request \in inbox' : Known(request)'
    BY <1>0 DEF IInv, TypeOK, Known, RequestOf, Requests, IdsDiffer
  <1>6. \A answer \in answers' : Known(answer.request)'
    BY <1>0 DEF IInv, TypeOK, Known, RequestOf, Requests, Answers
  <1>7. \A i \in DOMAIN stream' : stream'[i] # Other => stream'[i] \in answers'
    BY <1>0 DEF IInv, TypeOK
  <1>. QED
    BY <1>1, <1>2, <1>3, <1>4, <1>5, <1>6, <1>7 DEF IInv

LEMMA CancelPreserves ==
  ASSUME IInv, NEW c \in Calls, Cancel(c)
  PROVE  IInv'
  <1> USE McpAssumption DEF Cancel, Leave, serverVars
  <1>0. TypeOK /\ OneReader /\ OwnAnswer /\ IdsDiffer
    BY DEF IInv
  <1>1. TypeOK'
    <2>1. pc' \in [Calls -> {"idle", "waiting", "reading", "result", "error",
                            "timeout", "cancelled"}]
      BY <1>0 DEF TypeOK
    <2>2. attempt' \in [Calls -> 1..Attempts] /\ id' \in [Calls -> Nat] /\ lastId' \in Nat
      BY <1>0 DEF TypeOK
    <2>3. lock' \in Calls \cup {NoCall}
      BY <1>0 DEF TypeOK
    <2>4. gone' \in BOOLEAN
      BY <1>0, Zenon DEF TypeOK
    <2>5. inbox' \subseteq Requests /\ answers' \subseteq Answers
      BY <1>0 DEF TypeOK
    <2>6. stream' \in Seq(Answers \cup {Other})
      BY <1>0 DEF TypeOK
    <2>7. got' \in [Calls -> Answers \cup {NoAnswer}]
      BY <1>0 DEF TypeOK
    <2>. QED
      BY <2>1, <2>2, <2>3, <2>4, <2>5, <2>6, <2>7 DEF TypeOK
  <1>2. OneReader'
    BY <1>0 DEF OneReader, TypeOK
  <1>3. OwnAnswer'
    BY <1>0 DEF OwnAnswer, TypeOK, RequestOf, Known
  <1>4. IdsDiffer' /\ \A d \in Calls : id'[d] <= lastId' /\ (pc'[d] \in {"waiting", "reading"} => id'[d] # 0)
    BY <1>0 DEF IInv, IdsDiffer, TypeOK
  <1>5. \A request \in inbox' : Known(request)'
    BY <1>0 DEF IInv, TypeOK, Known, RequestOf, Requests, IdsDiffer
  <1>6. \A answer \in answers' : Known(answer.request)'
    BY <1>0 DEF IInv, TypeOK, Known, RequestOf, Requests, Answers
  <1>7. \A i \in DOMAIN stream' : stream'[i] # Other => stream'[i] \in answers'
    BY <1>0 DEF IInv, TypeOK
  <1>. QED
    BY <1>1, <1>2, <1>3, <1>4, <1>5, <1>6, <1>7 DEF IInv

-----------------------------------------------------------------------------
\* The server's steps, which change no call.
LEMMA ServerPreserves ==
  ASSUME IInv, UNCHANGED clientVars,
         (\E request \in inbox, ok \in BOOLEAN : Answer(request, ok)) \/ Notify \/ Exit
  PROVE  IInv'
  <1>0. TypeOK /\ OneReader /\ OwnAnswer /\ IdsDiffer
    BY DEF IInv
  <1>1. /\ inbox' \subseteq inbox
        /\ gone' \in BOOLEAN
        /\ answers \subseteq answers'
        /\ \A answer \in answers' \ answers : answer \in Answers /\ answer.request \in inbox
        /\ stream' = stream \/ \E line \in answers' \cup {Other} : stream' = Append(stream, line)
    <2>1. CASE \E request \in inbox, ok \in BOOLEAN : Answer(request, ok)
      <3>1. PICK request \in inbox, ok \in BOOLEAN : Answer(request, ok)
        BY <2>1
      <3>2. request \in Requests
        BY <1>0 DEF TypeOK
      <3> DEFINE new == [request |-> request, ok |-> ok]
      <3>3. new \in Answers /\ new.request = request
        BY <3>2 DEF Answers
      <3>4. inbox' \subseteq inbox /\ answers' = answers \cup {new} /\ stream' = Append(stream, new)
        BY <3>1 DEF Answer
      <3>5. gone' = gone
        BY <3>1 DEF Answer
      <3>6. gone' \in BOOLEAN
        BY <3>5, <1>0, Zenon DEF TypeOK
      <3>. QED
        BY <3>3, <3>4, <3>6
    <2>2. CASE Notify
      BY <2>2, <1>0 DEF Notify, TypeOK
    <2>3. CASE Exit
      <3>1. gone' \in BOOLEAN
        BY <2>3, Zenon DEF Exit
      <3>. QED
        BY <3>1, <2>3 DEF Exit
    <2>. QED
      BY <2>1, <2>2, <2>3
  <1> DEFINE Lines == Answers \cup {Other}
  <1>2. /\ answers' \subseteq Answers
        /\ stream' \in Seq(Lines)
        /\ \A i \in DOMAIN stream' :
              (i \in DOMAIN stream /\ stream'[i] = stream[i]) \/ stream'[i] \in answers' \cup {Other}
    <2>1. answers \subseteq Answers /\ stream \in Seq(Lines)
      BY <1>0 DEF TypeOK
    <2>2. answers' \subseteq Answers
      BY <2>1, <1>1
    <2>3. CASE stream' = stream
      BY <2>1, <2>2, <2>3
    <2>4. CASE \E line \in answers' \cup {Other} : stream' = Append(stream, line)
      <3>1. PICK line \in answers' \cup {Other} : stream' = Append(stream, line)
        BY <2>4
      <3>2. line \in Lines
        BY <3>1, <2>2
      <3> HIDE DEF Lines
      <3>3. /\ Append(stream, line) \in Seq(Lines)
            /\ \A i \in DOMAIN Append(stream, line) :
                  (i \in DOMAIN stream /\ Append(stream, line)[i] = stream[i])
                  \/ Append(stream, line)[i] = line
        BY <3>2, <2>1, AppendMembers
      <3>. QED
        BY <3>1, <3>3, <2>2
    <2>. QED
      BY <1>1, <2>3, <2>4
  <1>3. TypeOK'
    BY <1>0, <1>1, <1>2 DEF TypeOK, clientVars
  <1>4. OneReader' /\ OwnAnswer' /\ IdsDiffer'
    BY <1>0, <1>1 DEF OneReader, OwnAnswer, IdsDiffer, RequestOf, clientVars
  <1>5. \A request : Known(request) => Known(request)'
    BY DEF Known, RequestOf, clientVars
  <1>6. \A i \in DOMAIN stream' : stream'[i] # Other => stream'[i] \in answers'
    <2>1. \A i \in DOMAIN stream : stream[i] # Other => stream[i] \in answers
      BY DEF IInv
    <2>. QED
      BY <2>1, <1>1, <1>2
  <1>. QED
    BY <1>1, <1>3, <1>4, <1>5, <1>6 DEF IInv, clientVars

\* Every step preserves the invariant.
THEOREM StepInv == IInv /\ [Next]_vars => IInv'
  <1> SUFFICES ASSUME IInv, [Next]_vars PROVE IInv'
    OBVIOUS
  <1>1. CASE \E c \in Calls : Invoke(c) \/ Step(c) \/ ToolTimeout(c) \/ Cancel(c)
    BY <1>1, InvokePreserves, AcquirePreserves, WriteFailsPreserves, SkipLinePreserves,
       TakeAnswerPreserves, UnavailablePreserves, ToolTimeoutPreserves, CancelPreserves DEF Step
  <1>2. CASE (\E request \in inbox, ok \in BOOLEAN : Answer(request, ok)) \/ Notify \/ Exit
    <2>1. UNCHANGED clientVars
      BY <1>2 DEF Answer, Notify, Exit, clientVars
    <2>. QED
      BY <1>2, <2>1, ServerPreserves
  <1>3. CASE UNCHANGED vars
    BY <1>3 DEF vars, clientVars, serverVars, IInv, TypeOK, OneReader, OwnAnswer, IdsDiffer,
                Known, RequestOf
  <1>. QED
    BY <1>1, <1>2, <1>3 DEF Next

THEOREM Invariant == Spec => []IInv
  BY InitInv, StepInv, PTL DEF Spec

\* There is never a second reader of the server's stream, and the lock is never
\* held by a call that does not read: for any calls, attempts and server.
THEOREM AlwaysOneReader == Spec => []OneReader
  <1>1. IInv => OneReader
    BY DEF IInv
  <1>. QED
    BY <1>1, Invariant, PTL

\* A tool call only ever reports what the server answered to its current attempt.
THEOREM AlwaysOwnAnswer == Spec => []OwnAnswer
  <1>1. IInv => OwnAnswer
    BY DEF IInv
  <1>. QED
    BY <1>1, Invariant, PTL

\* Every call, request, answer and line on its way is what the client and its server
\* can hold, the lock included: for any calls, attempts and server.
THEOREM TypeCorrect == Spec => []TypeOK
  <1>1. IInv => TypeOK
    BY DEF IInv
  <1>. QED
    BY <1>1, Invariant, PTL
=============================================================================
