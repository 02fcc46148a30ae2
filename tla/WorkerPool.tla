----------------------------- MODULE WorkerPool -----------------------------
(***************************************************************************)
(* What the worker manager promises to the rest of the server              *)
(* (internal/worker/manager.go): a worker process enters together with its *)
(* client, ends at any time, and its client is forgotten only once it is   *)
(* no longer running.  Lifecycle uses workers in this way, and Worker, the *)
(* manager, the launcher and the process in detail, implements it.         *)
(***************************************************************************)
CONSTANT Ids      \* session ids

VARIABLES
    clients,      \* ids with a worker client
    alive         \* ids whose worker is running and has not been killed

poolVars == <<clients, alive>>

Init == clients = {} /\ alive = {}

(* The process may have ended before its client is filed.                  *)
Enter(id) ==
    /\ clients' = clients \cup {id}
    /\ alive' \in {alive, alive \cup {id}}

Exit(id) ==
    /\ id \in alive
    /\ alive' = alive \ {id}
    /\ UNCHANGED clients

Forget(id) ==
    /\ id \in clients \ alive
    /\ clients' = clients \ {id}
    /\ UNCHANGED alive

(* Stopping as a whole, for who does not look inside.                      *)
Stop(id) ==
    /\ id \in clients
    /\ clients' = clients \ {id}
    /\ alive'   = alive \ {id}

(* The end of the server takes the workers along.                          *)
Shutdown == clients' = {} /\ alive' = {}

Next ==
    \/ \E id \in Ids : Enter(id) \/ Exit(id) \/ Forget(id) \/ Stop(id)
    \/ Shutdown

Spec == Init /\ [][Next]_poolVars

(* Nothing runs that cannot be stopped: every running worker has a client,  *)
(* through which close_binary, the watchdog and the shutdown find it.       *)
Reachable == alive \subseteq clients
=============================================================================
