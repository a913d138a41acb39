--------------------------- MODULE MCEventStream ----------------------------
(* Two runs and two connections; each client subscribes once.               *)
EXTENDS EventStream

CONSTANTS r1, r2, c1, c2

\* One client replays a run before it watches all of them; the other waits for
\* the end of one run.
Asked ==
    (c1 :> { [topics |-> "*", scope |-> "global", replay |-> r1] })
    @@ (c2 :> { [topics |-> "run.finished", scope |-> r2, replay |-> NoRun] })
=============================================================================
