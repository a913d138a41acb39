------------------------------- MODULE Thread -------------------------------
(***************************************************************************)
(* Anthropic message lists: an agent run's context.messages and the rows   *)
(* of a session's thread.jsonl.                                            *)
(*                                                                         *)
(* A message is its role, the turn (run or request) that produced it, the  *)
(* ids of its tool_use and tool_result blocks, and whether its text is a   *)
(* user's message or a summary; what the texts say, thinking blocks and    *)
(* the shortening of long results play no part.                            *)
(***************************************************************************)
EXTENDS Naturals, Sequences

UserText(r)       == [turn |-> r, role |-> "user", text |-> "message", uses |-> {}, results |-> {}]
Assistant(r, ids) == [turn |-> r, role |-> "assistant", text |-> "other", uses |-> ids, results |-> {}]
ResultsOf(r, ids) == [turn |-> r, role |-> "user", text |-> "other", uses |-> {}, results |-> ids]

\* A summary and the assistant's acknowledgement of it.
Condensed(r) ==
    << [turn |-> r, role |-> "user", text |-> "summary", uses |-> {}, results |-> {}],
       Assistant(r, {}) >>

AddResultApart(m, r, id) == Append(m, ResultsOf(r, {id}))

\* add_tool_result: the results of one step share one user message.
AddResult(m, r, id) ==
    IF m # <<>> /\ m[Len(m)].results # {}
    THEN [m EXCEPT ![Len(m)].results = @ \cup {id}]
    ELSE Append(m, ResultsOf(r, {id}))

\* The tool_use ids of the first k messages that none of those after answers.
Unanswered(m, k) ==
    UNION {m[i].uses \ UNION {m[j].results : j \in (i + 1)..k} : i \in 1..k}

KeepOrphans(m) == m

\* _trim_orphan_tool_use: if a tool_use is left unanswered at the end, keep
\* only what precedes it. An unanswered one hides everything after it.
TrimOrphans(m) ==
    LET balanced == {k \in 0..Len(m) : Unanswered(m, k) = {}}
        last == CHOOSE k \in balanced : \A j \in balanced : j <= k
    IN  SubSeq(m, 1, last)

\* What the API accepts: every tool_use is answered by the very next message,
\* and every tool_result answers the message just before it.
PairedTo(m, k) ==
    \A i \in 1..k :
        /\ m[i].uses # {} => i < k /\ m[i + 1].results = m[i].uses
        /\ m[i].results # {} => i > 1 /\ m[i - 1].uses = m[i].results

Paired(m) == PairedTo(m, Len(m))

\* The turns whose user message is in m.
HeardIn(m) == {m[i].turn : i \in {j \in 1..Len(m) : m[j].text = "message"}}
----------------------------------------------------------------------------
(* What inductive invariants say of lists                                   *)

\* Behind the first p messages, results answer only calls of the message just
\* before them, and no call is made twice.
OrderlyFrom(m, p) ==
    /\ \A i \in (p + 1)..Len(m) :
          m[i].results # {} => i > p + 1 /\ m[i].results \subseteq m[i - 1].uses
    /\ \A i, j \in (p + 1)..Len(m) : i # j => m[i].uses \cap m[j].uses = {}

\* Every call but those of ids is answered further on.
AnsweredBut(m, ids) ==
    \A i \in 1..Len(m) : \A id \in m[i].uses \ ids :
        \E j \in (i + 1)..Len(m) : id \in m[j].results

\* No message both calls and answers.
OneKind(m) == \A i \in 1..Len(m) : m[i].uses = {} \/ m[i].results = {}

\* m ends with calls, and perhaps the results of some; those of ids are due.
PairedBut(m, ids) ==
    \E k \in 1..Len(m) :
        /\ PairedTo(m, k - 1)
        /\ m[k].results = {}
        /\ \/ k = Len(m) /\ m[k].uses = ids
           \/ /\ k + 1 = Len(m)
              /\ m[k + 1].uses = {}
              /\ m[k + 1].results # {}
              /\ m[k].uses = m[k + 1].results \cup ids
=============================================================================
