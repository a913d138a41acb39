----------------------------- MODULE MCSession ------------------------------
(* Instances of Session: a few requests of any kind to one session.         *)
EXTENDS Session, TLC

CONSTANTS r1, r2, r3, r4

\* The stop reasons the loop tells apart, with no, one or two tool calls.
KnownReplies ==
    { <<"end_turn", 0>>, <<"tool_use", 1>>, <<"tool_use", 2>>,
      <<"max_tokens", 0>>, <<"max_tokens", 2>> }

\* One with tool calls that the loop neither executes nor answers.
AllReplies == KnownReplies \cup { <<"other", 1>> }

\* Requests are interchangeable where none is launched by agent.run.
Interchangeable == Permutations(Request)

OneCall == { <<"end_turn", 0>>, <<"tool_use", 1>> }
=============================================================================
