------------------------ MODULE MCBackgroundServices ------------------------
(* TLC instances of BackgroundServices. *)
EXTENDS BackgroundServices, TLC

Load(s, n, f) == [signups |-> s, nudges |-> n, faults |-> f]

\* One signup with a fault and a retry, and two that compete for the account.
Loads == { Load(1, 1, 1), Load(2, 0, 0) }

\* Two writes, and between them an action that may fail after the first.
Scripts == {<<"write", "read", "write">>}

FlowLoad(w, q, f) == [replicas |-> w, tests |-> q, faults |-> f]

\* Two workers, two faults and the run of an event; a worker with that run and a test run.
FlowWork == {FlowLoad(Runner, {}, 2), FlowLoad({CHOOSE w \in Runner : TRUE}, Request, 0)}
=============================================================================
