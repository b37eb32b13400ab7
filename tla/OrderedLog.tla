----------------------------- MODULE OrderedLog -----------------------------
(***************************************************************************)
(* What the followers of a task's events are promised: from the place they *)
(* name, the events in the order in which they were written, none twice    *)
(* and, as long as the log is kept, none skipped.  An event is known by    *)
(* its place in the log.                                                   *)
(***************************************************************************)
EXTENDS Naturals

CONSTANTS Logs, Followers, LogOf

VARIABLES count,   \* how many events each log was given
          kept,    \* whether it is still kept
          follows, \* whether each follower has a stream
          last     \* the place of the last event it was sent

Write(l) == /\ count' = [count EXCEPT ![l] = @ + 1]
            /\ UNCHANGED <<kept, follows, last>>

Withdraw(l) == /\ kept[l]
               /\ kept' = [kept EXCEPT ![l] = FALSE]
               /\ UNCHANGED <<count, follows, last>>

\* A follower names the place it wants to go on from.
Open(f) == /\ ~follows[f]
           /\ follows' = [follows EXCEPT ![f] = TRUE]
           /\ \E n \in 0 .. count[LogOf[f]] : last' = [last EXCEPT ![f] = n]
           /\ UNCHANGED <<count, kept>>

Deliver(f) == /\ follows[f]
              /\ \E n \in last[f] + 1 .. count[LogOf[f]] :
                   /\ kept[LogOf[f]] => n = last[f] + 1
                   /\ last' = [last EXCEPT ![f] = n]
              /\ UNCHANGED <<count, kept, follows>>

Close(f) == /\ follows[f]
            /\ follows' = [follows EXCEPT ![f] = FALSE]
            /\ UNCHANGED <<count, kept, last>>

LogInit == /\ count = [l \in Logs |-> 0]
           /\ kept = [l \in Logs |-> TRUE]
           /\ follows = [f \in Followers |-> FALSE]
           /\ last = [f \in Followers |-> 0]
LogNext == \/ \E l \in Logs : Write(l) \/ Withdraw(l)
           \/ \E f \in Followers : Open(f) \/ Deliver(f) \/ Close(f)
LogSpec == LogInit /\ [][LogNext]_<<count, kept, follows, last>>
=============================================================================
