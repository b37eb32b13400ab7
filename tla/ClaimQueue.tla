----------------------------- MODULE ClaimQueue -----------------------------
(***************************************************************************)
(* What both task queues of the backend (execution tasks and agent runs)   *)
(* promise, whatever their workers, leases and databases do: a submitted   *)
(* task is handed to at most one worker, for ever, unless it is withdrawn  *)
(* first, and only that worker runs it, once.                              *)
(*                                                                         *)
(* "仓储 ... Worker 通过条件更新原子认领任务" (execution/repository.py).       *)
(***************************************************************************)
CONSTANTS Tasks,      \* the tasks that may ever be submitted
          Workers     \* the processes that may claim them

VARIABLES place,      \* place[t]: where task t is, or the worker it was given to
          ran         \* the tasks whose side effects have been started

vars == <<place, ran>>

Places == {"unknown", "waiting", "withdrawn"}

TypeOK == /\ place \in [Tasks -> Places \cup Workers]
          /\ ran \subseteq Tasks

\* The queue may hold tasks from an earlier run of the system.
Init == /\ place \in [Tasks -> Places]
        /\ ran = {}

Submit(t) == /\ place[t] = "unknown"
             /\ place' = [place EXCEPT ![t] = "waiting"]
             /\ UNCHANGED ran

Withdraw(t) == /\ place[t] = "waiting"
               /\ place' = [place EXCEPT ![t] = "withdrawn"]
               /\ UNCHANGED ran

Take(t, w) == /\ place[t] = "waiting"
              /\ place' = [place EXCEPT ![t] = w]
              /\ UNCHANGED ran

\* Only a task that was given to a worker runs, and it runs once.
Run(t) == /\ place[t] \in Workers
          /\ t \notin ran
          /\ ran' = ran \cup {t}
          /\ UNCHANGED place

Next == \E t \in Tasks : \/ Submit(t)
                         \/ Withdraw(t)
                         \/ \E w \in Workers : Take(t, w)
                         \/ Run(t)

Spec == Init /\ [][Next]_vars
=============================================================================
