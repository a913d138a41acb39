-------------------------- MODULE MCToolInvocation --------------------------
(* Instances of ToolInvocation: bash calls of two sessions that share the   *)
(* daemon's PermissionManager, under the shipped default policy of bash.    *)
EXTENDS ToolInvocation, TLC

CONSTANTS c1, c2, c3, s1, s2, bash

\* c1 and c3 in one session, c2 in another.
SharedSessionOf == (c1 :> s1) @@ (c2 :> s2) @@ (c3 :> s1)
OneSession      == [c \in Call |-> s1]
AllBash         == [c \in Call |-> bash]
AskAll          == [t \in Tool |-> "ask"]

\* c3 leaves the working directory although it matches an allow pattern.
OneOutside == [c \in Call |-> IF c = c3 THEN {"outside_cwd", "allow_pattern"} ELSE {}]

\* c3 matches a deny pattern as well as an allow pattern.
OneDenied == [c \in Call |-> IF c = c3 THEN {"deny_pattern", "allow_pattern"} ELSE {}]
=============================================================================
