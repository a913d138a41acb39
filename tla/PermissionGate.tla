--------------------------- MODULE PermissionGate ---------------------------
(***************************************************************************)
(* What the permission layer promises about one tool call, whatever its    *)
(* caches, futures and timers do: the call runs only while it holds a      *)
(* permit, at most Limit times; a permit that was asked for is given only  *)
(* on an allowing answer to that very call; the first answer is the only   *)
(* one; and a permit once refused or given up never comes back.            *)
(***************************************************************************)
EXTENDS Naturals

CONSTANTS Call, Allowing, Refusing, Limit

VARIABLES
    permit,   \* "none", "asked", "held" or "gone"
    reply,    \* the answer of a client to the call, if any
    runs      \* times the call ran

vars == <<permit, reply, runs>>

Init ==
    /\ permit = [c \in Call |-> "none"]
    /\ reply = [c \in Call |-> "none"]
    /\ runs = [c \in Call |-> 0]

AskPermit(c) ==
    /\ permit[c] = "none"
    /\ permit' = [permit EXCEPT ![c] = "asked"]
    /\ UNCHANGED <<reply, runs>>

\* A client answers a call that was asked for, even if it was given up since.
Reply(c, d) ==
    /\ permit[c] # "none"
    /\ reply[c] = "none"
    /\ reply' = [reply EXCEPT ![c] = d]
    /\ UNCHANGED <<permit, runs>>

Grant(c) ==
    /\ permit[c] = "asked"
    /\ reply[c] \in Allowing
    /\ permit' = [permit EXCEPT ![c] = "held"]
    /\ UNCHANGED <<reply, runs>>

\* A standing rule or the tool's policy permits the call, and it runs at once.
RunByRule(c) ==
    /\ permit[c] = "none"
    /\ permit' = [permit EXCEPT ![c] = "held"]
    /\ runs' = [runs EXCEPT ![c] = @ + 1]
    /\ UNCHANGED reply

Run(c) ==
    /\ permit[c] = "held"
    /\ runs[c] < Limit
    /\ runs' = [runs EXCEPT ![c] = @ + 1]
    /\ UNCHANGED <<permit, reply>>

\* Calls end, are refused, or are lost with the daemon.
GiveUp(S) ==
    /\ permit' = [c \in Call |-> IF c \in S THEN "gone" ELSE permit[c]]
    /\ UNCHANGED <<reply, runs>>

Next ==
    \/ \E c \in Call :
         \/ AskPermit(c) \/ Grant(c) \/ RunByRule(c) \/ Run(c)
         \/ \E d \in Allowing \cup Refusing : Reply(c, d)
    \/ \E S \in SUBSET Call : GiveUp(S)

Spec == Init /\ [][Next]_vars
=============================================================================
