--------------------------- MODULE MCTaskManager ----------------------------
(* Three tasks and the first two in every list: as few as let one completed    *)
(* task have two dependents that wait for something else as well, and a task   *)
(* depend on itself.                                                            *)
EXTENDS TaskManager

Both == {{}, {1, 2}}
=============================================================================
