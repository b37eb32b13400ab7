---------------------------- MODULE EventStream ----------------------------
(***************************************************************************)
(* The event streams of tasks and runs: persisted_events (api/sse.py) and  *)
(* the event table it polls.                                               *)
(*                                                                         *)
(* Events of all tasks share one table.  An event's sequence is the row's  *)
(* key, which SQLite chooses as the largest key in the table plus one, so  *)
(* the keys of a deleted project's last events are given out again.        *)
(* SQLite lets one transaction write at a time, so an event is one step;   *)
(* the status of its task is another transaction, and add_event never      *)
(* looks at the task's row: an event may be late, and come when its        *)
(* project and the earlier events are deleted.                             *)
(*                                                                         *)
(* A client is a caller of the events endpoint.  The front end opens one   *)
(* stream from the beginning and never comes back (sseClient.js); the      *)
(* endpoint also takes the sequence to go on after.                        *)
(***************************************************************************)
EXTENDS Naturals, FiniteSets, FiniteSetsExt

CONSTANTS Tasks,
          Clients,
          TaskOf,     \* the task each client follows
          MaxEvents   \* bound: events of one task but for those of its ends

ASSUME StreamAssumption == /\ TaskOf \in [Clients -> Tasks]
                           /\ MaxEvents \in Nat

VARIABLES
  status,   \* of each task: "active", "final", or "deleted" with its project
  due,      \* the ends of each task whose event is not written yet
  cancel,   \* the one request_cancel of each task: "none", "read" once it found
            \* the task running, "done"
  log,      \* the event table: for each key the task and, standing for the
            \* payload, the place of the event among all events of the task
  count,    \* history: how many events each task was given
  conn,     \* where the server's generator for the client is
  cursor,   \* its sequence
  batch,    \* the events it read and has not sent, by key
  found,    \* whether its last read found any
  last      \* history: the place of the last event it sent, or of the one the
            \* client named

tasks  == <<status, due, cancel>>
table  == <<log, count>>
server == <<conn, cursor, batch, found, last>>
vars   == <<tasks, table, server>>

Keys(t) == {k \in DOMAIN log : log[k].task = t}
Open(c) == conn[c] \in {"read", "send"}
Empty   == [k \in {} |-> 0]

TypeOK ==
  /\ status \in [Tasks -> {"active", "final", "deleted"}]
  /\ due \in [Tasks -> Nat]
  /\ cancel \in [Tasks -> {"none", "read", "done"}]
  /\ DOMAIN log \subseteq Nat \ {0}
  /\ \A k \in DOMAIN log : log[k].task \in Tasks /\ log[k].nth \in Nat
  /\ count \in [Tasks -> Nat]
  /\ conn \in [Clients -> {"none", "read", "send", "ended", "broken"}]
  /\ cursor \in [Clients -> Nat]
  /\ DOMAIN batch = Clients
  /\ \A c \in Clients : DOMAIN batch[c] \subseteq Nat
  /\ \A c \in Clients : \A k \in DOMAIN batch[c] : batch[c][k] \in Nat
  /\ found \in [Clients -> BOOLEAN]
  /\ last \in [Clients -> Nat]

Init ==
  /\ status = [t \in Tasks |-> "active"]
  /\ due = [t \in Tasks |-> 0]
  /\ cancel = [t \in Tasks |-> "none"]
  /\ log = Empty
  /\ count = [t \in Tasks |-> 0]
  /\ conn = [c \in Clients |-> "none"]
  /\ cursor = [c \in Clients |-> 0]
  /\ batch = [c \in Clients |-> Empty]
  /\ found = [c \in Clients |-> FALSE]
  /\ last = [c \in Clients |-> 0]

-----------------------------------------------------------------------------
(* The writers *)

\* The key of a new row, and the row.
NewKey == IF DOMAIN log = {} THEN 1 ELSE Max(DOMAIN log) + 1
LowestFreeKey == Min((1 .. Cardinality(DOMAIN log) + 1) \ DOMAIN log)

AddEventAt(t, k) ==
  /\ log' = [j \in DOMAIN log \cup {k} |->
               IF j = k THEN [task |-> t, nth |-> count[t] + 1] ELSE log[j]]
  /\ count' = [count EXCEPT ![t] = @ + 1]
  /\ UNCHANGED server

AddLowest(t) == AddEventAt(t, LowestFreeKey)     \* slip: gaps are filled
AddEvent(t) == AddEventAt(t, NewKey)

\* Output, audit and tool events, whatever the row says by then.
AppendEvent(t) ==
  /\ count[t] < MaxEvents
  /\ AddEvent(t)
  /\ UNCHANGED tasks

\* A final status is written; its event follows in a transaction of its own,
\* which may find the row changed or gone.
Finish(t) ==
  /\ status[t] = "active"
  /\ status' = [status EXCEPT ![t] = "final"]
  /\ due' = [due EXCEPT ![t] = @ + 1]
  /\ UNCHANGED <<cancel, table, server>>

AppendFinal(t) ==
  /\ due[t] > 0
  /\ due' = [due EXCEPT ![t] = @ - 1]
  /\ AddEvent(t)
  /\ UNCHANGED <<status, cancel>>

\* request_cancel of an execution task reads a running row ...
ReadCancel(t) ==
  /\ status[t] = "active" /\ cancel[t] = "none"
  /\ cancel' = [cancel EXCEPT ![t] = "read"]
  /\ UNCHANGED <<status, due, table, server>>

\* ... and writes cancel_requested over whatever it holds by then; the update
\* of a row that is gone fails.
WriteCancel(t) ==
  /\ cancel[t] = "read"
  /\ cancel' = [cancel EXCEPT ![t] = "done"]
  /\ status' = [status EXCEPT ![t] = IF @ = "final" THEN "active" ELSE @]
  /\ UNCHANGED <<due, table, server>>

\* The project goes with its tasks and their events.  That it has no active
\* task was tested before, in another transaction.
Delete(t) ==
  /\ status[t] # "deleted"
  /\ status' = [status EXCEPT ![t] = "deleted"]
  /\ log' = [k \in DOMAIN log \ Keys(t) |-> log[k]]
  /\ UNCHANGED <<due, cancel, count, server>>

-----------------------------------------------------------------------------
(* persisted_events *)

\* The handler finds the task (404 otherwise); the client names no event or
\* one of its task, and the generator starts at the place given.
ConnectAt(c, after, place) ==
  /\ ~Open(c)
  /\ status[TaskOf[c]] # "deleted"
  /\ conn' = [conn EXCEPT ![c] = "read"]
  /\ cursor' = [cursor EXCEPT ![c] = place]
  /\ last' = [last EXCEPT ![c] = IF after = 0 THEN 0 ELSE log[after].nth]
  /\ UNCHANGED <<tasks, table, batch, found>>

Named(c) == {0} \cup Keys(TaskOf[c])

ConnectAtTail(c) == \E after \in Named(c) : ConnectAt(c, after, NewKey - 1)  \* slip
Connect(c) == \E after \in Named(c) : ConnectAt(c, after, after)

Read(c) ==
  LET ks == {k \in Keys(TaskOf[c]) : k > cursor[c]}
  IN  /\ conn[c] = "read"
      /\ batch' = [batch EXCEPT ![c] = [k \in ks |-> log[k].nth]]
      /\ found' = [found EXCEPT ![c] = ks # {}]
      /\ conn' = [conn EXCEPT ![c] = "send"]
      /\ UNCHANGED <<tasks, table, cursor, last>>

Send(c) ==
  LET k == Min(DOMAIN batch[c])
  IN  /\ conn[c] = "send" /\ DOMAIN batch[c] # {}
      /\ cursor' = [cursor EXCEPT ![c] = k]
      /\ last' = [last EXCEPT ![c] = batch[c][k]]
      /\ batch' = [batch EXCEPT ![c] = [j \in DOMAIN @ \ {k} |-> @[j]]]
      /\ UNCHANGED <<tasks, table, conn, found>>

\* The view is read after the events were sent.
ViewWhen(c, ends) ==
  /\ conn[c] = "send" /\ DOMAIN batch[c] = {}
  /\ conn' = [conn EXCEPT ![c] = IF ends THEN "ended" ELSE "read"]
  /\ UNCHANGED <<tasks, table, cursor, batch, found, last>>

ViewNeverGone(c) == ViewWhen(c, status[TaskOf[c]] = "final" /\ ~found[c])  \* slip: no view, no end
View(c) == ViewWhen(c, \/ status[TaskOf[c]] = "deleted"
                       \/ status[TaskOf[c]] = "final" /\ ~found[c])

\* The connection breaks: the generator is closed where it is.
Drop(c) ==
  /\ Open(c)
  /\ conn' = [conn EXCEPT ![c] = "broken"]
  /\ batch' = [batch EXCEPT ![c] = Empty]
  /\ UNCHANGED <<tasks, table, cursor, found, last>>

Generate(c) == Read(c) \/ Send(c) \/ View(c)

Write(t) == \/ AppendEvent(t) \/ Finish(t) \/ AppendFinal(t)
            \/ ReadCancel(t) \/ WriteCancel(t) \/ Delete(t)

Next == \/ \E t \in Tasks : Write(t)
        \/ \E c \in Clients : Connect(c) \/ Generate(c) \/ Drop(c)

Spec == Init /\ [][Next]_vars

\* A generator whose connection stands runs on.  Nothing is assumed of the
\* writers, of the clients or of the network.
FairSpec == Spec /\ \A c \in Clients : WF_vars(Generate(c))

-----------------------------------------------------------------------------
(* Properties *)

(***************************************************************************)
(* Whatever deletions do to the keys, however late an event is written and *)
(* wherever a client resumes: it is sent the events of its task in their   *)
(* order and none twice, and as long as its project exists none is left    *)
(* out.                                                                    *)
(***************************************************************************)
Promise == INSTANCE OrderedLog WITH
             Logs <- Tasks, Followers <- Clients, LogOf <- TaskOf,
             kept <- [t \in Tasks |-> status[t] # "deleted"],
             follows <- [c \in Clients |-> Open(c)]
NoGap == Promise!LogSpec

(***************************************************************************)
(* Every event that is committed when a generator reads the table is sent  *)
(* on its connection, unless the connection breaks or the project is       *)
(* deleted: neither the end of the stream nor the keys that deletions of   *)
(* other projects give out again hide it.                                  *)
(***************************************************************************)
AllDelivered ==
  \A c \in Clients : \A n \in 1 .. MaxEvents + 2 :
    (conn[c] = "read" /\ count[TaskOf[c]] >= n)
      ~> (last[c] >= n \/ conn[c] = "broken" \/ status[TaskOf[c]] = "deleted")

(***************************************************************************)
(* No generator polls for ever for a task that stays final or is deleted.  *)
(* A cancellation that brings the task back to an active status may come   *)
(* first.                                                                  *)
(***************************************************************************)
StreamEnds ==
  \A c \in Clients : <>[](status[TaskOf[c]] # "active") => (Open(c) ~> ~Open(c))

-----------------------------------------------------------------------------
(* What the code says of itself, and does not do *)

(***************************************************************************)
(* "在终态事件全部发送后结束" (api/sse.py:29): a stream ends because of a     *)
(* final status only when the final event is not still to be written.      *)
(***************************************************************************)
EndsAfterFinal ==
  [][\A c \in Clients : View(c) /\ conn'[c] = "ended" /\ status[TaskOf[c]] = "final"
       => due[TaskOf[c]] = 0]_vars
=============================================================================
