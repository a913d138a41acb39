------------------------------ MODULE Dialogue ------------------------------
(***************************************************************************)
(* What a session promises its clients: requests take it one at a time;    *)
(* only the request that has it changes the conversation; a message that   *)
(* was heard stays until a summary replaces the conversation; and a closed *)
(* session stays closed and hears nothing more.                            *)
(***************************************************************************)
CONSTANTS Request, Nobody

VARIABLES
    owner,  \* the request that has the session, or Nobody
    heard,  \* the messages in the conversation
    open    \* whether the session is open

vars == <<owner, heard, open>>

Init ==
    /\ owner = Nobody
    /\ heard = {}
    /\ open = TRUE

Takes(r) == owner \in {r, Nobody} /\ owner' = r

\* A request takes the session, to resume it or to summarise it.
Take(r) ==
    /\ owner = Nobody
    /\ owner' = r
    /\ UNCHANGED <<heard, open>>

Hear(r) ==
    /\ Takes(r)
    /\ open
    /\ heard' = heard \cup {r}
    /\ UNCHANGED open

Close(r) ==
    /\ Takes(r)
    /\ open' = FALSE
    /\ UNCHANGED heard

Leave(r) ==
    /\ owner = r
    /\ owner' = Nobody
    /\ UNCHANGED <<heard, open>>

Summarise(r) ==
    /\ owner = r
    /\ owner' = Nobody
    /\ heard' = {}
    /\ UNCHANGED open

Next == \E r \in Request : Take(r) \/ Hear(r) \/ Close(r) \/ Leave(r) \/ Summarise(r)

Spec == Init /\ [][Next]_vars
=============================================================================
