--------------------------- MODULE EventStreamProofs ---------------------------
(***************************************************************************)
(* Event streams: for any tasks, clients, numbers of events, late events,  *)
(* deletions and broken connections, the events a client is sent are those *)
(* of its task in their order, without a gap while its project exists.     *)
(* The keys of a task's events grow with their places; the keys above a    *)
(* generator's cursor are those of later events; and as long as nothing of *)
(* the task is deleted they are those of all later events.                 *)
(***************************************************************************)
EXTENDS EventStream, WellFoundedInduction, TLAPS

Kept(t) == status[t] # "deleted"

\* The keys of a task's events grow with their places, and unless it was
\* deleted every event is in the table.
TaskInv(t) ==
  /\ \A k \in Keys(t) : log[k].nth \in 1 .. count[t]
  /\ \A j, k \in Keys(t) : j < k => log[j].nth < log[k].nth
  /\ Kept(t) => \A n \in 1 .. count[t] : \E k \in Keys(t) : log[k].nth = n

\* The cursor is at the last event sent: what the table holds above it is later
\* and, while the task is kept, everything later is above it.
CursorInv(c) ==
  LET t == TaskOf[c]
  IN  /\ last[c] <= count[t]
      /\ Open(c) => \A k \in Keys(t) : k > cursor[c] => log[k].nth > last[c]
      /\ Open(c) /\ Kept(t) => /\ cursor[c] = 0 \/ cursor[c] \in Keys(t)
                              /\ \A k \in Keys(t) : log[k].nth > last[c] => k > cursor[c]

\* The batch holds later events in their order, no key above one of them has an
\* earlier event, and while the task is kept nothing is missing between them.
BatchInv(c) ==
  LET t == TaskOf[c]  b == batch[c]
  IN  /\ conn[c] # "send" => DOMAIN b = {}
      /\ \A j \in DOMAIN b : j > cursor[c] /\ b[j] \in last[c] + 1 .. count[t]
      /\ \A j, k \in DOMAIN b : j < k => b[j] < b[k]
      /\ \A j \in DOMAIN b : \A k \in Keys(t) : k > j => log[k].nth > b[j]
      /\ Kept(t) => \A j \in DOMAIN b :
           /\ j \in Keys(t) /\ log[j].nth = b[j]
           /\ \A n \in last[c] + 1 .. b[j] : \E i \in DOMAIN b : b[i] = n

\* The table has a largest key.
Bounded == \E b \in Nat : DOMAIN log \subseteq 1 .. b

StreamInv == /\ TypeOK /\ Bounded
             /\ \A t \in Tasks : TaskInv(t)
             /\ \A c \in Clients : CursorInv(c) /\ BatchInv(c)

-----------------------------------------------------------------------------
(* Largest and smallest keys *)

LEMMA Least ==
  ASSUME NEW S \in SUBSET Nat, S # {}
  PROVE  \E x \in S : \A y \in S : x <= y
<1> DEFINE R == OpToRel(<, Nat)
<1>1. \A x, y \in Nat : <<y, x>> \in R <=> y < x
  BY DEF OpToRel
<1>2. IsWellFoundedOn(R, Nat)
  BY NatLessThanWellFounded
<1> HIDE DEF R
<1>3. PICK x \in S : \A y \in S : ~(<<y, x>> \in R)
  BY <1>2, WFMin
<1>4. ASSUME NEW y \in S PROVE x <= y
  <2>1. x \in Nat /\ y \in Nat
    OBVIOUS
  <2>2. ~(y < x)
    BY <1>1, <1>3, <2>1, Zenon
  <2> QED BY <2>1, <2>2
<1> QED BY <1>4

LEMMA MinOf ==
  ASSUME NEW S \in SUBSET Nat, S # {}
  PROVE  Min(S) \in S /\ \A y \in S : Min(S) <= y
<1>1. \E x \in S : \A y \in S : x <= y
  BY Least
<1> QED BY <1>1 DEF Min

LEMMA MaxOf ==
  ASSUME NEW b \in Nat, NEW S \in SUBSET (1 .. b), S # {}
  PROVE  Max(S) \in S /\ \A y \in S : Max(S) >= y
<1> DEFINE T == {b - x : x \in S}
<1>1. T \in SUBSET Nat /\ T # {}
  <2>1. \A x \in S : b - x \in Nat
    OBVIOUS
  <2> QED BY <2>1
<1>2. PICK x \in T : \A y \in T : x <= y
  BY <1>1, Least
<1>3. PICK m \in S : x = b - m
  BY <1>2
<1>4. ASSUME NEW y \in S PROVE m >= y
  <2>1. b - m <= b - y
    BY <1>2, <1>3
  <2> QED BY <2>1
<1> QED BY <1>4 DEF Max

\* A new key lies above every key of the table.
LEMMA NewKeyAbove ==
  ASSUME Bounded
  PROVE  NewKey \in Nat \ {0} /\ \A k \in DOMAIN log : k < NewKey
<1>1. PICK b \in Nat : DOMAIN log \subseteq 1 .. b
  BY DEF Bounded
<1>2. CASE DOMAIN log = {}
  BY <1>2 DEF NewKey
<1>3. CASE DOMAIN log # {}
  <2>1. Max(DOMAIN log) \in DOMAIN log /\ \A k \in DOMAIN log : Max(DOMAIN log) >= k
    BY <1>1, <1>3, MaxOf
  <2> QED BY <1>1, <1>3, <2>1 DEF NewKey
<1> QED BY <1>2, <1>3

-----------------------------------------------------------------------------
LEMMA InitStream == Init => StreamInv
<1> SUFFICES ASSUME Init PROVE StreamInv
  OBVIOUS
<1> USE StreamAssumption
<1>1. TypeOK
  BY DEF Init, TypeOK, Empty
<1>2. DOMAIN log = {} /\ \A t \in Tasks : Keys(t) = {} /\ count[t] = 0
  BY DEF Init, Keys, Empty
<1>3. Bounded
  BY <1>2 DEF Bounded
<1>4. \A t \in Tasks : TaskInv(t)
  BY <1>2 DEF TaskInv
<1>5. ASSUME NEW c \in Clients PROVE CursorInv(c) /\ BatchInv(c)
  <2>1. TaskOf[c] \in Tasks /\ last[c] = 0 /\ ~Open(c) /\ DOMAIN batch[c] = {}
    BY DEF Init, Open, Empty
  <2> QED BY <1>2, <2>1 DEF CursorInv, BatchInv
<1> QED BY <1>1, <1>3, <1>4, <1>5 DEF StreamInv

-----------------------------------------------------------------------------
(* The writers *)

\* A client does not notice what leaves its task's events and its own stream
\* alone, nor a deletion.
LEMMA SameClient ==
  ASSUME NEW c \in Clients, CursorInv(c), BatchInv(c),
         count'[TaskOf[c]] = count[TaskOf[c]], Kept(TaskOf[c])' => Kept(TaskOf[c]),
         \/ Keys(TaskOf[c])' = {} /\ ~Kept(TaskOf[c])'
         \/ /\ Keys(TaskOf[c])' = Keys(TaskOf[c])
            /\ \A k \in Keys(TaskOf[c]) : log'[k] = log[k],
         conn'[c] = conn[c], cursor'[c] = cursor[c], batch'[c] = batch[c], last'[c] = last[c]
  PROVE  CursorInv(c)' /\ BatchInv(c)'
<1>1. CursorInv(c)'
  BY DEF CursorInv, Open
<1>2. BatchInv(c)'
  BY DEF BatchInv
<1> QED BY <1>1, <1>2

\* An event whose key is new is the last of its task in the order of the keys
\* and of the places.
LEMMA AddInv ==
  ASSUME StreamInv, NEW t \in Tasks, AddEvent(t), UNCHANGED status,
         due' \in [Tasks -> Nat], UNCHANGED cancel
  PROVE  StreamInv'
<1> DEFINE k == NewKey
           n == count[t] + 1
<1>1. k \in Nat \ {0} /\ \A j \in DOMAIN log : j < k
  BY NewKeyAbove DEF StreamInv
<1>2. /\ DOMAIN log' = DOMAIN log \cup {k} /\ log'[k] = [task |-> t, nth |-> n]
      /\ \A j \in DOMAIN log : j # k /\ log'[j] = log[j]
      /\ count' = [count EXCEPT ![t] = n]
      /\ UNCHANGED server
  BY <1>1 DEF AddEvent, AddEventAt
<1> HIDE DEF k
<1>3. count[t] \in Nat /\ n \in Nat /\ \A x \in Tasks \ {t} : count'[x] = count[x]
  BY <1>2 DEF StreamInv, TypeOK
<1>4. count'[t] = n
  BY <1>2 DEF StreamInv, TypeOK
<1>5. TypeOK'
  BY <1>1, <1>2, <1>3 DEF StreamInv, TypeOK, server
<1>6. Bounded'
  <2>1. DOMAIN log' \subseteq 1 .. k
    BY <1>1, <1>2 DEF StreamInv, TypeOK
  <2> QED BY <1>1, <2>1 DEF Bounded
<1>7. /\ Keys(t)' = Keys(t) \cup {k} /\ log'[k].nth = n
      /\ \A x \in Tasks \ {t} : Keys(x)' = Keys(x)
      /\ \A x \in Tasks : \A j \in Keys(x) : j \in Nat /\ j < k /\ log'[j] = log[j]
  BY <1>1, <1>2 DEF Keys, StreamInv, TypeOK
<1>8. ASSUME NEW x \in Tasks PROVE TaskInv(x)'
  <2>1. CASE x = t
    <3>1. TaskInv(t) /\ Kept(t)' = Kept(t)
      BY DEF StreamInv, Kept
    <3>2. \A j \in Keys(t) : log[j].nth \in 1 .. count[t] /\ log'[j].nth = log[j].nth
      BY <1>7, <3>1 DEF TaskInv
    <3>3. \A j \in Keys(t)' : log'[j].nth \in 1 .. n
      BY <1>3, <1>7, <3>2
    <3>4. \A i, j \in Keys(t)' : i < j => log'[i].nth < log'[j].nth
      BY <1>1, <1>3, <1>7, <3>1, <3>2 DEF TaskInv
    <3>5. Kept(t) => \A m \in 1 .. n : \E j \in Keys(t)' : log'[j].nth = m
      <4> SUFFICES ASSUME Kept(t), NEW m \in 1 .. n PROVE \E j \in Keys(t)' : log'[j].nth = m
        OBVIOUS
      <4>1. CASE m = n
        BY <1>7, <4>1
      <4>2. CASE m # n
        <5>1. m \in 1 .. count[t]
          BY <1>3, <4>2
        <5> QED BY <1>7, <3>1, <3>2, <5>1 DEF TaskInv
      <4> QED BY <4>1, <4>2
    <3> QED BY <1>4, <2>1, <3>1, <3>3, <3>4, <3>5 DEF TaskInv
  <2>2. CASE x # t
    BY <1>3, <1>7, <2>2 DEF StreamInv, TaskInv, Kept
  <2> QED BY <2>1, <2>2
<1>9. ASSUME NEW c \in Clients PROVE CursorInv(c)' /\ BatchInv(c)'
  <2>1. /\ TaskOf[c] \in Tasks /\ CursorInv(c) /\ BatchInv(c) /\ TaskInv(TaskOf[c])
        /\ Kept(TaskOf[c])' = Kept(TaskOf[c])
        /\ last[c] \in Nat /\ cursor[c] \in Nat
        /\ conn' = conn /\ cursor' = cursor /\ batch' = batch /\ last' = last
    BY <1>2, StreamAssumption DEF StreamInv, TypeOK, Kept, server
  <2>2. CASE TaskOf[c] # t
    BY <1>3, <1>7, <2>1, <2>2, SameClient
  <2>3. CASE TaskOf[c] = t
    <3>1. \A j \in DOMAIN batch[c] : j \in Nat /\ batch[c][j] \in Nat /\ batch[c][j] < n
      BY <1>3, <2>1, <2>3 DEF BatchInv, StreamInv, TypeOK
    <3>2. CursorInv(c)'
      <4>1. last[c] < n
        BY <1>3, <2>1, <2>3 DEF CursorInv
      <4>2. Open(c) /\ Kept(t) => cursor[c] < k
        BY <1>1, <1>7, <2>1, <2>3 DEF CursorInv
      <4>3. Open(c)' = Open(c)
        BY <2>1 DEF Open
      <4> QED BY <1>3, <1>4, <1>7, <2>1, <2>3, <4>1, <4>2, <4>3 DEF CursorInv
    <3>3. BatchInv(c)'
      <4>1. \A j \in DOMAIN batch[c] : batch[c][j] \in last[c] + 1 .. n
        BY <1>3, <2>1, <2>3 DEF BatchInv
      <4> QED BY <1>4, <1>7, <2>1, <2>3, <3>1, <4>1, SMTT(30) DEF BatchInv
    <3> QED BY <3>2, <3>3
  <2> QED BY <2>2, <2>3
<1> QED BY <1>5, <1>6, <1>8, <1>9 DEF StreamInv

\* Steps that write the task's row alone, or delete it with its events.
LEMMA RowInv ==
  ASSUME StreamInv, NEW t \in Tasks,
         Finish(t) \/ ReadCancel(t) \/ WriteCancel(t) \/ Delete(t)
  PROVE  StreamInv'
<1>1. UNCHANGED <<count, conn, cursor, batch, found, last>>
  BY DEF Finish, ReadCancel, WriteCancel, Delete, table, server
<1>2. TypeOK'
  BY <1>1 DEF StreamInv, TypeOK, Finish, ReadCancel, WriteCancel, Delete, table
<1>3. DOMAIN log' \subseteq DOMAIN log
  BY DEF Finish, ReadCancel, WriteCancel, Delete, table
<1>4. Bounded'
  BY <1>3 DEF StreamInv, Bounded
<1>5. ASSUME NEW x \in Tasks
      PROVE  /\ Kept(x)' => Kept(x)
             /\ \/ Keys(x)' = {} /\ ~Kept(x)'
                \/ /\ Keys(x)' = Keys(x) /\ \A k \in Keys(x) : log'[k] = log[k]
  BY DEF Finish, ReadCancel, WriteCancel, Delete, table, Kept, Keys, StreamInv, TypeOK
<1>6. ASSUME NEW x \in Tasks PROVE TaskInv(x)'
  BY <1>1, <1>5 DEF StreamInv, TaskInv
<1>7. ASSUME NEW c \in Clients PROVE CursorInv(c)' /\ BatchInv(c)'
  <2>1. TaskOf[c] \in Tasks
    BY StreamAssumption
  <2> QED BY <1>1, <1>5, <2>1, SameClient DEF StreamInv
<1> QED BY <1>2, <1>4, <1>6, <1>7 DEF StreamInv

LEMMA WriteInv == ASSUME StreamInv, NEW t \in Tasks, Write(t) PROVE StreamInv'
<1>1. CASE AppendEvent(t)
  BY <1>1, AddInv DEF AppendEvent, tasks, StreamInv, TypeOK
<1>2. CASE AppendFinal(t)
  <2>1. due' \in [Tasks -> Nat] /\ AddEvent(t) /\ UNCHANGED <<status, cancel>>
    BY <1>2 DEF AppendFinal, StreamInv, TypeOK
  <2> QED BY <2>1, AddInv
<1> QED BY <1>1, <1>2, RowInv DEF Write

-----------------------------------------------------------------------------
(* The steps of the streams *)

\* A step of one client's stream leaves the tables and the other streams alone.
LEMMA StreamStep ==
  ASSUME StreamInv, NEW c \in Clients, TypeOK', CursorInv(c)', BatchInv(c)',
         UNCHANGED <<tasks, table>>,
         \A d \in Clients \ {c} : /\ conn'[d] = conn[d] /\ cursor'[d] = cursor[d]
                                  /\ batch'[d] = batch[d] /\ last'[d] = last[d]
  PROVE  StreamInv'
<1>1. Bounded' /\ \A t \in Tasks : TaskInv(t)'
  BY DEF StreamInv, Bounded, TaskInv, Keys, Kept, tasks, table
<1>2. ASSUME NEW d \in Clients \ {c} PROVE CursorInv(d)' /\ BatchInv(d)'
  BY SameClient DEF StreamInv, tasks, table, Keys, Kept
<1> QED BY <1>1, <1>2 DEF StreamInv

LEMMA ClientFacts ==
  ASSUME StreamInv, NEW c \in Clients
  PROVE  /\ TaskOf[c] \in Tasks /\ TaskInv(TaskOf[c]) /\ CursorInv(c) /\ BatchInv(c)
         /\ count[TaskOf[c]] \in Nat /\ last[c] \in Nat /\ cursor[c] \in Nat
         /\ Keys(TaskOf[c]) \subseteq Nat \ {0}
         /\ \A k \in Keys(TaskOf[c]) : log[k].nth \in Nat
         /\ DOMAIN batch[c] \subseteq Nat /\ \A k \in DOMAIN batch[c] : batch[c][k] \in Nat
BY StreamAssumption DEF StreamInv, TypeOK, Keys

\* A client starts behind the event it names.
LEMMA ConnectInv == ASSUME StreamInv, NEW c \in Clients, Connect(c) PROVE StreamInv'
<1> DEFINE t == TaskOf[c]
<1>1. PICK after \in Named(c) : ConnectAt(c, after, after)
  BY DEF Connect
<1>2. /\ ~Open(c) /\ Kept(t) /\ UNCHANGED <<tasks, table, batch, found>>
      /\ conn' = [conn EXCEPT ![c] = "read"] /\ cursor' = [cursor EXCEPT ![c] = after]
      /\ last' = [last EXCEPT ![c] = IF after = 0 THEN 0 ELSE log[after].nth]
  BY <1>1 DEF ConnectAt, Kept
<1>3. after = 0 \/ after \in Keys(t)
  BY DEF Named
<1>4. after \in Nat /\ (after # 0 => log[after].nth \in 1 .. count[t])
  BY <1>3, ClientFacts DEF TaskInv
<1>5. TypeOK'
  BY <1>2, <1>4, ClientFacts DEF StreamInv, TypeOK, tasks, table
<1>6. /\ conn'[c] = "read" /\ cursor'[c] = after /\ batch' = batch
      /\ last'[c] = IF after = 0 THEN 0 ELSE log[after].nth
      /\ count' = count /\ log' = log /\ Keys(t)' = Keys(t) /\ Kept(t)'
  BY <1>2 DEF StreamInv, TypeOK, tasks, table, Keys, Kept
<1>7. CursorInv(c)'
  <2>1. \A k \in Keys(t) : k > after => log[k].nth > IF after = 0 THEN 0 ELSE log[after].nth
    BY <1>3, ClientFacts DEF TaskInv
  <2>2. \A k \in Keys(t) : log[k].nth > (IF after = 0 THEN 0 ELSE log[after].nth) => k > after
    <3> SUFFICES ASSUME NEW k \in Keys(t),
                        log[k].nth > IF after = 0 THEN 0 ELSE log[after].nth
                 PROVE  k > after
      OBVIOUS
    <3>1. k < after => log[k].nth < log[after].nth /\ after # 0
      BY <1>3, <1>4, ClientFacts DEF TaskInv
    <3> QED BY <1>3, <1>4, <3>1, ClientFacts
  <2>3. (IF after = 0 THEN 0 ELSE log[after].nth) <= count[t]
    BY <1>4, ClientFacts
  <2> QED BY <1>3, <1>6, <2>1, <2>2, <2>3 DEF CursorInv
<1>8. BatchInv(c)'
  <2>1. DOMAIN batch[c] = {}
    BY <1>2, ClientFacts DEF BatchInv, Open
  <2> QED BY <1>6, <2>1 DEF BatchInv
<1> QED BY <1>2, <1>5, <1>7, <1>8, StreamStep DEF StreamInv, TypeOK

\* What a read finds is what comes next.
LEMMA ReadInv == ASSUME StreamInv, NEW c \in Clients, Read(c) PROVE StreamInv'
<1> DEFINE t == TaskOf[c]
           ks == {k \in Keys(t) : k > cursor[c]}
           b == [k \in ks |-> log[k].nth]
<1>1. /\ conn[c] = "read" /\ UNCHANGED <<tasks, table, cursor, last>>
      /\ conn' = [conn EXCEPT ![c] = "send"] /\ batch' = [batch EXCEPT ![c] = b]
      /\ found' = [found EXCEPT ![c] = ks # {}]
  BY DEF Read
<1>2. DOMAIN b = ks /\ ks \subseteq Keys(t) /\ \A k \in ks : b[k] = log[k].nth /\ k > cursor[c]
  OBVIOUS
<1>3. \A k \in Keys(t) : k > cursor[c] => k \in ks
  OBVIOUS
<1>4. (ks # {}) \in BOOLEAN
  OBVIOUS
<1> HIDE DEF ks, b
<1>5. /\ conn'[c] = "send" /\ cursor' = cursor /\ last' = last /\ count' = count /\ log' = log
      /\ Keys(t)' = Keys(t) /\ Kept(t)' = Kept(t) /\ Open(c)
  BY <1>1 DEF StreamInv, TypeOK, tasks, table, Keys, Kept, Open
<1>6. TypeOK' /\ batch'[c] = b
  <2>1. DOMAIN batch = Clients /\ batch'[c] = b /\ \A d \in Clients \ {c} : batch'[d] = batch[d]
    BY <1>1 DEF StreamInv, TypeOK
  <2>2. DOMAIN b \subseteq Nat /\ \A k \in DOMAIN b : b[k] \in Nat
    BY <1>2, ClientFacts
  <2>3. /\ \A d \in Clients : DOMAIN batch'[d] \subseteq Nat
        /\ \A d \in Clients : \A k \in DOMAIN batch'[d] : batch'[d][k] \in Nat
    BY <2>1, <2>2 DEF StreamInv, TypeOK
  <2> QED BY <1>1, <1>4, <2>1, <2>3 DEF StreamInv, TypeOK, tasks, table
<1>7. CursorInv(c)'
  BY <1>5, ClientFacts DEF CursorInv, Open
<1>8. BatchInv(c)'
  <2>1. \A j \in ks : b[j] \in last[c] + 1 .. count[t]
    <3> SUFFICES ASSUME NEW j \in ks PROVE b[j] \in last[c] + 1 .. count[t]
      OBVIOUS
    <3>1. j \in Keys(t) /\ j > cursor[c] /\ b[j] = log[j].nth
      BY <1>2
    <3>2. log[j].nth > last[c] /\ log[j].nth \in 1 .. count[t]
      BY <1>5, <3>1, ClientFacts DEF CursorInv, TaskInv
    <3> QED BY <3>1, <3>2, ClientFacts
  <2>2. \A j, k \in ks : j < k => b[j] < b[k]
    BY <1>2, ClientFacts DEF TaskInv
  <2>3. \A j \in ks : \A k \in Keys(t) : k > j => log[k].nth > b[j]
    BY <1>2, ClientFacts DEF TaskInv
  <2>4. Kept(t) => \A j \in ks : \A n \in last[c] + 1 .. b[j] : \E i \in ks : b[i] = n
    <3> SUFFICES ASSUME Kept(t), NEW j \in ks, NEW n \in last[c] + 1 .. b[j]
                 PROVE  \E i \in ks : b[i] = n
      OBVIOUS
    <3>1. n \in 1 .. count[t] /\ n > last[c]
      BY <2>1, ClientFacts
    <3>2. PICK k \in Keys(t) : log[k].nth = n
      BY <3>1, ClientFacts DEF TaskInv
    <3>3. k > cursor[c]
      BY <1>5, <3>1, <3>2, ClientFacts DEF CursorInv
    <3> QED BY <1>2, <1>3, <3>2, <3>3
  <2> QED BY <1>2, <1>5, <1>6, <2>1, <2>2, <2>3, <2>4 DEF BatchInv
<1> QED BY <1>1, <1>6, <1>7, <1>8, StreamStep DEF StreamInv, TypeOK

\* The event sent is the next one, unless the task was deleted; in any case it
\* is a later one.
LEMMA SendNext ==
  ASSUME StreamInv, NEW c \in Clients, Send(c)
  PROVE  LET k == Min(DOMAIN batch[c])
         IN  /\ k \in DOMAIN batch[c] /\ \A j \in DOMAIN batch[c] : k <= j
             /\ batch[c][k] \in last[c] + 1 .. count[TaskOf[c]]
             /\ Kept(TaskOf[c]) => batch[c][k] = last[c] + 1
<1> DEFINE k == Min(DOMAIN batch[c])
<1>1. k \in DOMAIN batch[c] /\ \A j \in DOMAIN batch[c] : k <= j
  BY MinOf, ClientFacts DEF Send
<1> HIDE DEF k
<1>2. batch[c][k] \in last[c] + 1 .. count[TaskOf[c]]
  BY <1>1, ClientFacts DEF BatchInv
<1>3. ASSUME Kept(TaskOf[c]) PROVE batch[c][k] = last[c] + 1
  <2>1. last[c] + 1 \in last[c] + 1 .. batch[c][k]
    BY <1>2, ClientFacts
  <2>2. PICK i \in DOMAIN batch[c] : batch[c][i] = last[c] + 1
    BY <1>1, <1>3, <2>1, ClientFacts DEF BatchInv
  <2>3. k < i => batch[c][k] < batch[c][i]
    BY <1>1, ClientFacts DEF BatchInv
  <2> QED BY <1>1, <1>2, <2>2, <2>3, ClientFacts
<1> QED BY <1>1, <1>2, <1>3 DEF k

LEMMA SendInv == ASSUME StreamInv, NEW c \in Clients, Send(c) PROVE StreamInv'
<1> DEFINE t == TaskOf[c]
           k == Min(DOMAIN batch[c])
           b == [j \in DOMAIN batch[c] \ {k} |-> batch[c][j]]
<1>1. /\ conn[c] = "send" /\ UNCHANGED <<tasks, table, conn, found>>
      /\ cursor' = [cursor EXCEPT ![c] = k] /\ last' = [last EXCEPT ![c] = batch[c][k]]
      /\ batch' = [batch EXCEPT ![c] = b]
  BY DEF Send
<1>2. /\ k \in DOMAIN batch[c] /\ \A j \in DOMAIN batch[c] : k <= j
      /\ batch[c][k] \in last[c] + 1 .. count[t]
  BY SendNext
<1>3. DOMAIN b = DOMAIN batch[c] \ {k} /\ \A j \in DOMAIN b : b[j] = batch[c][j]
  OBVIOUS
<1> HIDE DEF k, b
<1>4. k \in Nat /\ batch[c][k] \in Nat
  BY <1>2, ClientFacts
<1>5. /\ conn' = conn /\ cursor'[c] = k /\ last'[c] = batch[c][k] /\ count' = count /\ log' = log
      /\ Keys(t)' = Keys(t) /\ Kept(t)' = Kept(t) /\ Open(c)' = Open(c) /\ Open(c)
  BY <1>1 DEF StreamInv, TypeOK, tasks, table, Keys, Kept, Open
<1>6. TypeOK' /\ batch'[c] = b
  <2>1. DOMAIN batch = Clients /\ batch'[c] = b /\ \A d \in Clients \ {c} : batch'[d] = batch[d]
    BY <1>1 DEF StreamInv, TypeOK
  <2>2. DOMAIN b \subseteq Nat /\ \A j \in DOMAIN b : b[j] \in Nat
    BY <1>3, ClientFacts
  <2>3. /\ \A d \in Clients : DOMAIN batch'[d] \subseteq Nat
        /\ \A d \in Clients : \A j \in DOMAIN batch'[d] : batch'[d][j] \in Nat
    BY <2>1, <2>2 DEF StreamInv, TypeOK
  <2> QED BY <1>1, <1>4, <2>1, <2>3 DEF StreamInv, TypeOK, tasks, table
<1>7. CursorInv(c)'
  <2>1. \A j \in Keys(t) : j > k => log[j].nth > batch[c][k]
    BY <1>2, ClientFacts DEF BatchInv
  <2>2. Kept(t) => /\ k \in Keys(t) /\ log[k].nth = batch[c][k]
                   /\ \A j \in Keys(t) : log[j].nth > batch[c][k] => j > k
    <3> SUFFICES ASSUME Kept(t)
                 PROVE  /\ k \in Keys(t) /\ log[k].nth = batch[c][k]
                        /\ \A j \in Keys(t) : log[j].nth > batch[c][k] => j > k
      OBVIOUS
    <3>1. k \in Keys(t) /\ log[k].nth = batch[c][k]
      BY <1>2, ClientFacts DEF BatchInv
    <3>2. \A j \in Keys(t) : j < k => log[j].nth < log[k].nth
      BY <3>1, ClientFacts DEF TaskInv
    <3> QED BY <1>4, <3>1, <3>2, ClientFacts
  <2>3. batch[c][k] <= count[t]
    BY <1>2, ClientFacts
  <2> QED BY <1>5, <2>1, <2>2, <2>3 DEF CursorInv
<1>8. BatchInv(c)'
  <2>1. \A j \in DOMAIN b : j > k /\ b[j] \in batch[c][k] + 1 .. count[t]
    <3> SUFFICES ASSUME NEW j \in DOMAIN b PROVE j > k /\ b[j] \in batch[c][k] + 1 .. count[t]
      OBVIOUS
    <3>1. j \in DOMAIN batch[c] /\ j # k /\ b[j] = batch[c][j]
      BY <1>3
    <3>2. j > k
      BY <1>2, <1>4, <3>1, ClientFacts
    <3>3. batch[c][j] > batch[c][k] /\ batch[c][j] \in last[c] + 1 .. count[t]
      BY <1>2, <3>1, <3>2, ClientFacts DEF BatchInv
    <3> QED BY <1>4, <3>1, <3>2, <3>3, ClientFacts
  <2>2. /\ \A i, j \in DOMAIN b : i < j => b[i] < b[j]
        /\ \A j \in DOMAIN b : \A i \in Keys(t) : i > j => log[i].nth > b[j]
    BY <1>3, ClientFacts DEF BatchInv
  <2>3. Kept(t) => \A j \in DOMAIN b :
          /\ j \in Keys(t) /\ log[j].nth = b[j]
          /\ \A n \in batch[c][k] + 1 .. b[j] : \E i \in DOMAIN b : b[i] = n
    <3> SUFFICES ASSUME Kept(t), NEW j \in DOMAIN b
                 PROVE  /\ j \in Keys(t) /\ log[j].nth = b[j]
                        /\ \A n \in batch[c][k] + 1 .. b[j] : \E i \in DOMAIN b : b[i] = n
      OBVIOUS
    <3>1. j \in DOMAIN batch[c] /\ b[j] = batch[c][j]
      BY <1>3
    <3>2. j \in Keys(t) /\ log[j].nth = b[j]
      BY <3>1, ClientFacts DEF BatchInv
    <3>3. ASSUME NEW n \in batch[c][k] + 1 .. b[j] PROVE \E i \in DOMAIN b : b[i] = n
      <4>1. n \in last[c] + 1 .. batch[c][j]
        BY <1>2, <1>4, <3>1, ClientFacts
      <4>2. PICK i \in DOMAIN batch[c] : batch[c][i] = n
        BY <3>1, <4>1, ClientFacts DEF BatchInv
      <4>3. i # k
        BY <1>4, <4>2, ClientFacts
      <4> QED BY <1>3, <4>2, <4>3
    <3> QED BY <3>2, <3>3
  <2> QED BY <1>1, <1>5, <1>6, <2>1, <2>2, <2>3 DEF BatchInv
<1> QED BY <1>1, <1>5, <1>6, <1>7, <1>8, StreamStep DEF StreamInv, TypeOK

\* A generator that looks at the view or is closed has no batch.
LEMMA QuietInv == ASSUME StreamInv, NEW c \in Clients, View(c) \/ Drop(c) PROVE StreamInv'
<1>1. PICK to \in {"ended", "read", "broken"} :
        /\ Open(c) /\ conn' = [conn EXCEPT ![c] = to]
        /\ UNCHANGED <<tasks, table, cursor, found, last>>
  BY DEF View, ViewWhen, Drop, Open
<1>2. /\ \A d \in Clients \ {c} : batch'[d] = batch[d]
      /\ DOMAIN batch'[c] = {} /\ DOMAIN batch' = Clients
  BY DEF View, ViewWhen, Drop, Empty, StreamInv, TypeOK
<1>3. TypeOK'
  <2>1. /\ \A d \in Clients : DOMAIN batch'[d] \subseteq Nat
        /\ \A d \in Clients : \A j \in DOMAIN batch'[d] : batch'[d][j] \in Nat
    BY <1>2 DEF StreamInv, TypeOK
  <2> QED BY <1>1, <1>2, <2>1 DEF StreamInv, TypeOK, tasks, table
<1>4. CursorInv(c)'
  BY <1>1, ClientFacts DEF CursorInv, Open, Kept, Keys, tasks, table
<1>5. BatchInv(c)'
  BY <1>2 DEF BatchInv
<1> QED BY <1>1, <1>2, <1>3, <1>4, <1>5, StreamStep DEF StreamInv, TypeOK

LEMMA StepStream == StreamInv /\ [Next]_vars => StreamInv'
<1> SUFFICES ASSUME StreamInv, [Next]_vars PROVE StreamInv'
  OBVIOUS
<1>1. CASE UNCHANGED vars
  <2>1. UNCHANGED <<tasks, table>> /\ UNCHANGED <<conn, cursor, batch, found, last>>
    BY <1>1 DEF vars, server
  <2>2. TypeOK' /\ Bounded' /\ \A t \in Tasks : TaskInv(t)'
    BY <2>1 DEF StreamInv, TypeOK, Bounded, TaskInv, Keys, Kept, tasks, table
  <2>3. ASSUME NEW c \in Clients PROVE CursorInv(c)' /\ BatchInv(c)'
    BY <2>1, SameClient DEF StreamInv, tasks, table, Keys, Kept
  <2> QED BY <2>2, <2>3 DEF StreamInv
<1> QED BY <1>1, WriteInv, ConnectInv, ReadInv, SendInv, QuietInv DEF Next, Generate

\* The order of the keys and the place of every client hold from the start, for
\* any tasks, clients, late events and deletions.
THEOREM StreamInvariance == Spec => []StreamInv
BY InitStream, StepStream, PTL DEF Spec

\* Every variable of the streams keeps its type.
THEOREM StreamTypes == Spec => []TypeOK
<1>1. StreamInv => TypeOK
  BY DEF StreamInv
<1> QED BY <1>1, StreamInvariance, PTL

-----------------------------------------------------------------------------
(* The promise *)

KeptLogs == [t \in Tasks |-> Kept(t)]
Follows  == [c \in Clients |-> Open(c)]

LEMMA StepPromise ==
  StreamInv /\ [Next]_vars => [Promise!LogNext]_<<count, KeptLogs, Follows, last>>
<1> SUFFICES ASSUME StreamInv, [Next]_vars
             PROVE  [Promise!LogNext]_<<count, KeptLogs, Follows, last>>
  OBVIOUS
<1>1. ASSUME NEW t \in Tasks, AppendEvent(t) \/ AppendFinal(t) PROVE Promise!Write(t)
  <2>1. AddEvent(t) /\ UNCHANGED status
    BY <1>1 DEF AppendEvent, AppendFinal, tasks
  <2>2. count' = [count EXCEPT ![t] = @ + 1] /\ UNCHANGED <<status, conn, last>>
    BY <2>1 DEF AddEvent, AddEventAt, server
  <2> QED BY <2>2 DEF Promise!Write, Open
<1>2. ASSUME NEW t \in Tasks, Delete(t) PROVE Promise!Withdraw(t)
  <2>1. status[t] # "deleted" /\ status' = [status EXCEPT ![t] = "deleted"]
        /\ UNCHANGED <<count, conn, last>>
    BY <1>2 DEF Delete, server
  <2> QED BY <2>1 DEF Promise!Withdraw, Open, StreamInv, TypeOK
<1>3. ASSUME NEW t \in Tasks, Finish(t) \/ ReadCancel(t) \/ WriteCancel(t)
      PROVE  UNCHANGED <<count, KeptLogs, Follows, last>>
  <2>1. UNCHANGED <<count, conn, last>> /\ \A x \in Tasks : Kept(x)' = Kept(x)
    BY <1>3 DEF Finish, ReadCancel, WriteCancel, table, server, Kept, StreamInv, TypeOK
  <2> QED BY <2>1 DEF KeptLogs, Follows, Open
<1>4. ASSUME NEW c \in Clients, Connect(c) PROVE Promise!Open(c)
  <2>1. PICK after \in Named(c) : ConnectAt(c, after, after)
    BY <1>4 DEF Connect
  <2> DEFINE n == IF after = 0 THEN 0 ELSE log[after].nth
  <2>2. n \in 0 .. count[TaskOf[c]]
    BY ClientFacts DEF Named, TaskInv
  <2>3. /\ ~Open(c) /\ conn' = [conn EXCEPT ![c] = "read"]
        /\ last' = [last EXCEPT ![c] = n] /\ UNCHANGED <<count, status>>
    BY <2>1 DEF ConnectAt, tasks, table
  <2> HIDE DEF n
  <2>4. Follows' = [Follows EXCEPT ![c] = TRUE] /\ ~Follows[c]
    BY <2>3 DEF Follows, Open, StreamInv, TypeOK
  <2> QED BY <2>2, <2>3, <2>4 DEF Promise!Open, Follows
<1>5. ASSUME NEW c \in Clients, Send(c) PROVE Promise!Deliver(c)
  <2> DEFINE n == batch[c][Min(DOMAIN batch[c])]
  <2>1. n \in last[c] + 1 .. count[TaskOf[c]] /\ (Kept(TaskOf[c]) => n = last[c] + 1)
    BY <1>5, SendNext
  <2>2. Open(c) /\ last' = [last EXCEPT ![c] = n] /\ UNCHANGED <<count, status, conn>>
    BY <1>5 DEF Send, Open, tasks, table
  <2> HIDE DEF n
  <2> QED BY <2>1, <2>2, StreamAssumption DEF Promise!Deliver, Kept, Open
<1>6. ASSUME NEW c \in Clients, Read(c) PROVE UNCHANGED <<count, KeptLogs, Follows, last>>
  <2>1. UNCHANGED <<count, status, last>> /\ \A d \in Clients : Open(d)' = Open(d)
    BY <1>6 DEF Read, tasks, table, Open, StreamInv, TypeOK
  <2> QED BY <2>1 DEF KeptLogs, Follows, Kept
<1>7. ASSUME NEW c \in Clients, View(c) \/ Drop(c)
      PROVE  Promise!Close(c) \/ UNCHANGED <<count, KeptLogs, Follows, last>>
  <2>1. PICK to \in {"ended", "read", "broken"} :
          /\ Open(c) /\ conn' = [conn EXCEPT ![c] = to] /\ UNCHANGED <<count, status, last>>
    BY <1>7 DEF View, ViewWhen, Drop, Open, tasks, table
  <2>2. CASE to = "read"
    <3>1. \A d \in Clients : Open(d)' = Open(d)
      BY <2>1, <2>2 DEF Open, StreamInv, TypeOK
    <3> QED BY <2>1, <3>1 DEF KeptLogs, Follows, Kept
  <2>3. CASE to # "read"
    <3>1. ~Open(c)' /\ \A d \in Clients \ {c} : Open(d)' = Open(d)
      BY <2>1, <2>3 DEF Open, StreamInv, TypeOK
    <3>2. Follows[c] /\ ~Follows'[c] /\ \A d \in Clients \ {c} : Follows'[d] = Follows[d]
      BY <2>1, <3>1 DEF Follows
    <3>3. Follows' = [d \in Clients |-> Follows'[d]] /\ \A d \in Clients : Follows'[d] \in BOOLEAN
      BY DEF Follows, Open
    <3>4. Follows' = [Follows EXCEPT ![c] = FALSE]
      BY <3>2, <3>3 DEF Follows
    <3> QED BY <2>1, <3>2, <3>4 DEF Promise!Close, Follows
  <2> QED BY <2>2, <2>3
<1>8. CASE UNCHANGED vars
  BY <1>8 DEF vars, tasks, table, server, KeptLogs, Follows, Kept, Open
<1> QED
  BY <1>1, <1>2, <1>3, <1>4, <1>5, <1>6, <1>7, <1>8
  DEF Next, Write, Generate, Promise!LogNext

\* For any tasks, clients and numbers of events: a client is sent the events of
\* its task in their order and none twice, and none is left out while its
\* project exists, also when events come after the end or the deletion.
THEOREM OrderedWithoutGap == Spec => NoGap
<1>1. ASSUME Init PROVE Promise!LogInit
  <2>1. /\ \A t \in Tasks : status[t] # "deleted"
        /\ \A c \in Clients : ~Open(c)
    BY <1>1 DEF Init, Open
  <2>2. count = [t \in Tasks |-> 0] /\ last = [c \in Clients |-> 0]
    BY <1>1 DEF Init
  <2>3. [t \in Tasks |-> status[t] # "deleted"] = [t \in Tasks |-> TRUE]
    BY <2>1, Zenon
  <2>4. [c \in Clients |-> Open(c)] = [c \in Clients |-> FALSE]
    <3>1. \A c \in Clients : Open(c) = FALSE
      BY <2>1 DEF Open
    <3> QED BY <3>1
  <2> QED BY <2>2, <2>3, <2>4 DEF Promise!LogInit
<1>2. StreamInv /\ [Next]_vars => [Promise!LogNext]_<<count, [t \in Tasks |-> status[t] # "deleted"], [c \in Clients |-> Open(c)], last>>
  BY StepPromise DEF KeptLogs, Follows, Kept
<1> QED BY <1>1, <1>2, StreamInvariance, PTL DEF Spec, NoGap, Promise!LogSpec
=============================================================================
