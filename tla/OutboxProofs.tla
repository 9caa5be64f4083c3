------------------------------ MODULE OutboxProofs ------------------------------
(***************************************************************************)
(* Proofs about Outbox: its type invariant, that every duplicate has a fault  *)
(* behind it, and that the outbox implements MessageDelivery.                *)
(*                                                                         *)
(* A process that lost the lock goes on with its batch, and one that failed to *)
(* record a delivery leaves the message to be read again. The invariant keeps *)
(* accounts of both: for each message, what was delivered and what may still   *)
(* be without another fault is paid for by the faults there were (Debt); the   *)
(* attempts counted and those still to be counted never exceed the failures    *)
(* seen, nor the ceiling (Accounts).                                        *)
(***************************************************************************)
EXTENDS Outbox, FiniteSetTheorems, TLAPS

\* No message stands in the queue twice.
QueuedOnce == \A i, j \in 1 .. Len(queue) : queue[i] = queue[j] => i = j

\* A run has a batch of enqueued messages from its reading on.
Batches ==
    \A p \in Processes :
        /\ batch[p] \subseteq Enqueued
        /\ (pc[p] \in {"idle", "locked"} => batch[p] = {})
        /\ (holder = p => pc[p] # "idle")

Holding(m) == {p \in Processes : m \in batch[p]}
Reporting(m) == {p \in Processes : pc[p] = "failed" /\ Current(p, m)}

\* What is still to be recorded of m is within the ceiling, and did happen.
Account(m) ==
    /\ attempts[m] + Cardinality(Holding(m)) <= MostAttempts
    /\ attempts[m] + Cardinality(Reporting(m)) <= failures[m]
    /\ (attempts[m] > 0 => m \in Enqueued)
    /\ \A p \in Processes : (pc[p] = "sent" /\ Current(p, m) => delivered[m] > 0)

Accounts == \A m \in Messages : Account(m)

MaySend(p, m) == m \in batch[p] /\ (pc[p] = "publish" \/ ~Current(p, m))

\* The runs without the lock that may deliver m.
Astray(m) == {p \in Processes : holder # p /\ (pc[p] = "locked" \/ MaySend(p, m))}

SentUnderLock(m) == \E p \in Processes : holder = p /\ pc[p] = "sent" /\ Current(p, m)

\* A run with the lock, this one or a later one, may deliver m.
Owed(m) ==
    \/ m \notin published /\ ~SentUnderLock(m)
    \/ \E p \in Processes : holder = p /\ MaySend(p, m)

OneIfOwed(m) == IF Owed(m) THEN 1 ELSE 0

Debt == \A m \in Messages : delivered[m] + Cardinality(Astray(m)) + OneIfOwed(m) <= 1 + faults

IInv == TypeOK /\ QueuedOnce /\ Batches /\ Accounts /\ Debt

-----------------------------------------------------------------------------
(* Counting processes *)

\* A set of processes is finite, and no larger than one that contains it.
LEMMA SubsetCount ==
  ASSUME NEW B \in SUBSET Processes, NEW A \in SUBSET B
  PROVE  /\ Cardinality(A) \in Nat /\ Cardinality(B) \in Nat
         /\ Cardinality(A) <= Cardinality(B) /\ Cardinality(B) <= Cardinality(Processes)
  <1>1. IsFiniteSet(Processes) /\ IsFiniteSet(B) /\ IsFiniteSet(A)
    BY OutboxConstants, FS_Subset
  <1> QED BY <1>1, FS_Subset, FS_CardinalityType

\* A process that leaves a set makes it smaller by one.
LEMMA OneLess ==
  ASSUME NEW B \in SUBSET Processes, NEW p \in B, NEW A \in SUBSET (B \ {p})
  PROVE  Cardinality(A) + 1 <= Cardinality(B)
  <1>1. IsFiniteSet(B)
    BY OutboxConstants, FS_Subset
  <1>2. Cardinality(B \ {p}) = Cardinality(B) - 1
    BY <1>1, FS_RemoveElement
  <1>3. B \ {p} \in SUBSET Processes
    OBVIOUS
  <1>4. Cardinality(A) <= Cardinality(B \ {p}) /\ Cardinality(A) \in Nat
    BY <1>3, SubsetCount
  <1>5. Cardinality(B) \in Nat
    BY SubsetCount
  <1> QED BY <1>2, <1>4, <1>5

\* One process that joins a set makes it larger by one at most.
LEMMA OneMore ==
  ASSUME NEW B \in SUBSET Processes, NEW p \in Processes, NEW A \in SUBSET (B \cup {p})
  PROVE  Cardinality(A) <= Cardinality(B) + 1
  <1>1. IsFiniteSet(B)
    BY OutboxConstants, FS_Subset
  <1>2. Cardinality(B \cup {p}) <= Cardinality(B) + 1
    BY <1>1, FS_AddElement, FS_CardinalityType
  <1>3. B \cup {p} \in SUBSET Processes
    OBVIOUS
  <1>4. Cardinality(A) <= Cardinality(B \cup {p}) /\ Cardinality(A) \in Nat /\ Cardinality(B \cup {p}) \in Nat
    BY <1>3, SubsetCount
  <1> QED BY <1>2, <1>4, SubsetCount

\* The ceiling of the attempts is a number.
LEMMA CeilingIsNat == MostAttempts \in Nat /\ MaxAttempts - 1 + Cardinality(Processes) = MostAttempts
  <1>1. Cardinality(Processes) \in Nat
    BY OutboxConstants, FS_CardinalityType
  <1> QED BY <1>1, OutboxConstants DEF MostAttempts

-----------------------------------------------------------------------------
(* The order of a batch *)

\* A dispatcher is at one message at a time.
LEMMA OneCurrent ==
  ASSUME TypeOK, QueuedOnce, NEW p, NEW m, NEW n, Current(p, m), Current(p, n)
  PROVE  m = n
  <1> SUFFICES ASSUME m # n PROVE FALSE
    OBVIOUS
  <1>1. Before(m, n) /\ Before(n, m)
    BY DEF Current
  <1>2. PICK i, j \in 1 .. Len(queue) : i < j /\ queue[i] = m /\ queue[j] = n
    BY <1>1 DEF Before
  <1>3. PICK k, l \in 1 .. Len(queue) : k < l /\ queue[k] = n /\ queue[l] = m
    BY <1>1 DEF Before
  <1>4. i = l /\ j = k
    BY <1>2, <1>3 DEF QueuedOnce
  <1>5. Len(queue) \in Nat
    BY DEF TypeOK
  <1> QED BY <1>2, <1>3, <1>4, <1>5

\* A message enqueued later changes nothing in the order of a batch.
LEMMA EnqueueKeepsOrder ==
  ASSUME TypeOK, Batches, NEW e \in Messages, Enqueue(e), NEW p \in Processes, NEW m
  PROVE  Current(p, m)' <=> Current(p, m)
  <1>1. /\ queue' = Append(queue, e) /\ e \notin Enqueued /\ batch' = batch
        /\ batch[p] \subseteq Enqueued /\ queue \in Seq(Messages)
    BY DEF Enqueue, Batches, TypeOK
  <1>2. /\ Len(queue) \in Nat /\ Len(queue') = Len(queue) + 1 /\ queue'[Len(queue) + 1] = e
        /\ \A i \in 1 .. Len(queue) : queue'[i] = queue[i]
    BY <1>1
  <1>3. ASSUME NEW a \in Enqueued, NEW b \in Enqueued PROVE Before(a, b)' <=> Before(a, b)
    <2>1. a # e /\ b # e
      BY <1>1
    <2>2. \A i \in 1 .. Len(queue') : queue'[i] # e => i \in 1 .. Len(queue)
      BY <1>2
    <2>3. \A i \in 1 .. Len(queue) : i \in 1 .. Len(queue')
      BY <1>2
    <2> QED BY <1>2, <2>1, <2>2, <2>3 DEF Before
  <1> QED BY <1>1, <1>3 DEF Current

\* Nor does a step that leaves the queue and the batch alone.
LEMMA SameOrder ==
  ASSUME queue' = queue, NEW p, batch'[p] = batch[p], NEW m
  PROVE  Current(p, m)' <=> Current(p, m)
  BY DEF Current, Before

-----------------------------------------------------------------------------
(* Types and batches *)

LEMMA InitIInv == Init => IInv
  <1> SUFFICES ASSUME Init PROVE IInv
    OBVIOUS
  <1>1. TypeOK
    <2>1. queue \in Seq(Messages) /\ published \subseteq Enqueued
      BY DEF Init
    <2>2. 0 \in 0 .. MostAttempts
      BY CeilingIsNat
    <2>3. attempts \in [Messages -> 0 .. MostAttempts] /\ failures \in [Messages -> 0 .. MostAttempts]
      BY <2>2 DEF Init
    <2>4. nights \in 0 .. MaxNights /\ replays \in 0 .. MaxReplays /\ faults \in 0 .. MaxFaults
      BY OutboxConstants DEF Init
    <2>5. /\ wait \in [Messages -> {"no", "backoff", "quiet"}] /\ delivered \in [Messages -> Nat]
          /\ quiet \in BOOLEAN /\ holder \in Processes \cup {NoProcess}
          /\ pc \in [Processes -> {"idle", "locked", "publish", "sent", "failed", "held"}]
          /\ batch \in [Processes -> SUBSET Messages]
      BY DEF Init
    <2> QED BY <2>1, <2>3, <2>4, <2>5 DEF TypeOK
  <1>2. QueuedOnce /\ Batches
    BY OutboxConstants DEF Init, QueuedOnce, Batches
  <1>3. ASSUME NEW m \in Messages
        PROVE  Account(m) /\ delivered[m] + Cardinality(Astray(m)) + OneIfOwed(m) <= 1 + faults
    <2>1. Holding(m) = {} /\ Reporting(m) = {} /\ Astray(m) = {}
      BY DEF Init, Holding, Reporting, Astray, MaySend
    <2>2. Cardinality({}) = 0
      BY FS_EmptySet
    <2>3. OneIfOwed(m) \in {0, 1}
      BY DEF OneIfOwed
    <2> QED BY <2>1, <2>2, <2>3, CeilingIsNat DEF Init, Account
  <1> QED BY <1>1, <1>2, <1>3 DEF IInv, Accounts, Debt

LEMMA EnqueuedMessages == TypeOK => Enqueued \subseteq Messages
  <1>1. TypeOK => \A i \in 1 .. Len(queue) : queue[i] \in Messages
    BY DEF TypeOK
  <1> QED BY <1>1 DEF Enqueued

\* The messages of a batch read are pending ones.
LEMMA PendingMessages ==
  /\ Pending \subseteq Enqueued \ published
  /\ \A m \in Pending : attempts[m] < MaxAttempts
  BY DEF Pending

\* A failure can still be counted.
LEMMA RoomToCount ==
  ASSUME IInv, NEW p \in Processes, NEW m \in Messages, m \in batch[p]
  PROVE  attempts[m] + 1 <= MostAttempts
  <1>1. Account(m) /\ attempts[m] \in Nat
    BY DEF IInv, Accounts, TypeOK
  <1>2. Cardinality({}) + 1 <= Cardinality(Holding(m)) /\ Cardinality(Holding(m)) \in Nat
    BY OneLess, SubsetCount DEF Holding
  <1>3. Cardinality({}) = 0
    BY FS_EmptySet
  <1> QED BY <1>1, <1>2, <1>3, CeilingIsNat DEF Account

LEMMA NextTypeOK == IInv /\ [Next]_vars => TypeOK'
  <1> SUFFICES ASSUME IInv, [Next]_vars PROVE TypeOK'
    OBVIOUS
  <1>0. TypeOK
    BY DEF IInv
  <1>q. queue' = queue => Enqueued' = Enqueued
    BY DEF Enqueued
  <1> DEFINE Labels == {"idle", "locked", "publish", "sent", "failed", "held"}
             Rows == /\ queue \in Seq(Messages) /\ published \subseteq Enqueued
                     /\ attempts \in [Messages -> 0 .. MostAttempts]
                     /\ wait \in [Messages -> {"no", "backoff", "quiet"}]
             World == delivered \in [Messages -> Nat] /\ failures \in [Messages -> 0 .. MostAttempts]
             Runs == /\ holder \in Processes \cup {NoProcess} /\ pc \in [Processes -> Labels]
                     /\ batch \in [Processes -> SUBSET Messages]
             Bounds == nights \in 0 .. MaxNights /\ replays \in 0 .. MaxReplays
             Faults == faults \in 0 .. MaxFaults
  <1>t. Rows /\ World /\ Runs /\ Bounds /\ Faults /\ quiet \in BOOLEAN
    BY <1>0 DEF TypeOK
  <1>u. Rows' /\ World' /\ Runs' /\ Bounds' /\ Faults' /\ quiet' \in BOOLEAN => TypeOK'
    BY DEF TypeOK
  <1>r. UNCHANGED rows => Rows'
    BY <1>t, <1>q DEF rows
  <1>w. UNCHANGED world => World'
    BY <1>t DEF world
  <1>p. UNCHANGED <<holder, pc, batch>> => Runs'
    BY <1>t
  <1>b. UNCHANGED bounds => Bounds'
    BY <1>t DEF bounds
  <1>f. UNCHANGED faults \/ Fault => Faults'
    BY <1>t, OutboxConstants DEF Fault
  <1>l. ASSUME NEW p \in Processes, NEW l \in Labels, Goto(p, l) PROVE pc' \in [Processes -> Labels]
    BY <1>l, <1>t DEF Goto
  <1>c. ASSUME NEW p \in Processes, NEW rest \in SUBSET Messages, Continue(p, rest) PROVE Runs'
    <2>1. batch' \in [Processes -> SUBSET Messages] /\ pc' \in [Processes -> Labels]
      BY <1>c, <1>t DEF Continue
    <2>2. holder' \in Processes \cup {NoProcess}
      BY <1>c, <1>t DEF Continue, Release
    <2> QED BY <2>1, <2>2
  <1> HIDE DEF Rows, World, Runs, Bounds, Faults, Labels
  <1>1. CASE UNCHANGED vars
    BY <1>1, <1>t, <1>u, <1>r, <1>w, <1>p, <1>b, <1>f DEF vars, rows, world, bounds
  <1>2. ASSUME NEW m \in Messages, Enqueue(m) PROVE TypeOK'
    <2>1. queue \in Seq(Messages) /\ queue' = Append(queue, m)
      BY <1>2, <1>t DEF Enqueue, Rows
    <2>2. Enqueued \subseteq Enqueued'
      BY <2>1 DEF Enqueued
    <2>3. Rows'
      BY <1>2, <1>t, <2>1, <2>2 DEF Enqueue, Rows
    <2> QED BY <1>2, <2>3, <1>t, <1>u, <1>w, <1>p, <1>b, <1>f DEF Enqueue
  <1>3. CASE ReplayDeadLetters
    <2>1. attempts' \in [Messages -> 0 .. MostAttempts]
      BY <1>3, <1>t, CeilingIsNat DEF ReplayDeadLetters, Rows
    <2>2. wait' \in [Messages -> {"no", "backoff", "quiet"}]
      BY <1>3, <1>t DEF ReplayDeadLetters, Rows
    <2>3. Bounds'
      BY <1>3, <1>t, OutboxConstants DEF ReplayDeadLetters, Bounds
    <2>4. Rows'
      BY <1>3, <2>1, <2>2, <1>t, <1>q DEF ReplayDeadLetters, Rows
    <2> QED BY <1>3, <2>3, <2>4, <1>t, <1>u, <1>w, <1>p, <1>f DEF ReplayDeadLetters
  <1>4. CASE NightFalls \/ MorningComes
    <2>1. Bounds'
      BY <1>4, <1>t, OutboxConstants DEF NightFalls, MorningComes, Bounds, bounds
    <2> QED BY <1>4, <2>1, <1>t, <1>u, <1>r, <1>w, <1>p, <1>f DEF NightFalls, MorningComes
  <1>9. ASSUME NEW m \in Messages, WaitEnds(m) PROVE TypeOK'
    <2>1. Rows'
      BY <1>9, <1>t, <1>q DEF WaitEnds, Rows
    <2> QED BY <1>9, <2>1, <1>t, <1>u, <1>w, <1>p, <1>b, <1>f DEF WaitEnds
  <1>5. ASSUME NEW p \in Processes, TakeLock(p) PROVE TypeOK'
    <2>1. Runs'
      BY <1>5, <1>t DEF TakeLock, Runs, Labels
    <2> QED BY <1>5, <2>1, <1>t, <1>u, <1>r, <1>w, <1>b, <1>f DEF TakeLock
  <1>10. ASSUME NEW p \in Processes, RunAborted(p) PROVE TypeOK'
    <2>1. Runs'
      BY <1>10, <1>c DEF RunAborted
    <2> QED BY <1>10, <2>1, <1>t, <1>u, <1>r, <1>w, <1>b, <1>f DEF RunAborted
  <1>11. ASSUME NEW p \in Processes, LockLost(p) PROVE TypeOK'
    <2>1. Runs'
      BY <1>11, <1>t DEF LockLost, Runs
    <2> QED BY <1>11, <2>1, <1>t, <1>u, <1>r, <1>w, <1>b, <1>f DEF LockLost
  <1>6. ASSUME NEW p \in Processes, ReadPending(p) PROVE TypeOK'
    <2>1. Pending \in SUBSET Messages
      BY <1>0, PendingMessages, EnqueuedMessages
    <2>2. Runs'
      BY <1>6, <2>1, <1>c DEF ReadPending
    <2> QED BY <1>6, <2>2, <1>t, <1>u, <1>r, <1>w, <1>b, <1>f DEF ReadPending
  <1>7. ASSUME NEW p \in Processes, NEW m \in Messages,
               Publish(p, m) \/ PublishFails(p, m) \/ Hold(p, m) \/ AnswerLost(p, m)
        PROVE  TypeOK'
    <2>1. /\ UNCHANGED <<rows, quiet, holder, batch, bounds>>
          /\ \E l \in Labels : Goto(p, l)
          /\ delivered' = delivered \/ Reaches(m)
          /\ failures' = failures \/ FailureSeen(m)
          /\ UNCHANGED faults \/ Fault
      BY <1>7 DEF Publish, PublishFails, Hold, AnswerLost, MayPublish, Labels, world
    <2>2. delivered' \in [Messages -> Nat]
      BY <2>1, <1>t DEF Reaches, World
    <2>3. failures' \in [Messages -> 0 .. MostAttempts]
      BY <2>1, <1>t, CeilingIsNat DEF FailureSeen, World
    <2>4. World' /\ Runs'
      BY <2>1, <2>2, <2>3, <1>l, <1>t DEF World, Runs
    <2> QED BY <2>1, <2>4, <1>t, <1>u, <1>r, <1>b, <1>f
  <1>8. ASSUME NEW p \in Processes, NEW m \in Messages,
               Published(p, m) \/ Failed(p, m) \/ Defer(p, m) \/ NotRecorded(p, m)
        PROVE  TypeOK'
    <2>1. /\ Current(p, m) /\ Continue(p, batch[p] \ {m}) /\ UNCHANGED <<queue, world, quiet, bounds>>
          /\ published' \in {published, published \cup {m}}
          /\ attempts' \in {attempts, [attempts EXCEPT ![m] = @ + 1]}
          /\ \/ wait' = wait
             \/ \E w \in {"no", "backoff", "quiet"} : wait' = [wait EXCEPT ![m] = w]
          /\ UNCHANGED faults \/ Fault
      BY <1>8 DEF Published, Failed, Defer, NotRecorded, rows
    <2>2. m \in batch[p] /\ m \in Enqueued /\ batch[p] \in SUBSET Messages
      BY <2>1, <1>0 DEF Current, IInv, Batches, TypeOK
    <2>3. published' \subseteq Enqueued
      BY <2>1, <2>2, <1>t DEF Rows
    <2>4. attempts' \in [Messages -> 0 .. MostAttempts]
      <3>1. attempts[m] + 1 \in 0 .. MostAttempts
        BY <2>2, <1>t, RoomToCount, CeilingIsNat DEF Rows
      <3> QED BY <2>1, <3>1, <1>t DEF Rows
    <2>5. wait' \in [Messages -> {"no", "backoff", "quiet"}]
      BY <2>1, <1>t DEF Rows
    <2>6. Rows'
      BY <2>1, <2>3, <2>4, <2>5, <1>t, <1>q DEF Rows
    <2>7. Runs'
      BY <2>1, <2>2, <1>c
    <2> QED BY <2>1, <2>6, <2>7, <1>t, <1>u, <1>w, <1>b, <1>f
  <1> QED
    BY <1>1, <1>2, <1>3, <1>4, <1>5, <1>6, <1>7, <1>8, <1>9, <1>10, <1>11
       DEF Next, Clock, Dispatch, DispatchOne, Interrupted

LEMMA NextQueuedOnce == IInv /\ [Next]_vars => QueuedOnce'
  <1> SUFFICES ASSUME IInv, [Next]_vars PROVE QueuedOnce'
    OBVIOUS
  <1>1. CASE queue' = queue
    BY <1>1 DEF IInv, QueuedOnce
  <1>2. ASSUME NEW m \in Messages, Enqueue(m) PROVE QueuedOnce'
    <2>1. queue \in Seq(Messages) /\ queue' = Append(queue, m) /\ m \notin Enqueued
      BY <1>2 DEF Enqueue, IInv, TypeOK
    <2>2. \A i \in 1 .. Len(queue) : queue[i] # m
      BY <2>1 DEF Enqueued
    <2>3. /\ Len(queue) \in Nat /\ Len(queue') = Len(queue) + 1 /\ queue'[Len(queue) + 1] = m
          /\ \A i \in 1 .. Len(queue) : queue'[i] = queue[i]
      BY <2>1
    <2> QED BY <2>2, <2>3 DEF IInv, QueuedOnce
  <1> QED
    BY <1>1, <1>2
       DEF Next, vars, rows, ReplayDeadLetters, NightFalls, Clock, MorningComes, WaitEnds, Dispatch, DispatchOne,
           Interrupted, TakeLock, ReadPending, Publish, PublishFails, Hold, Published, Failed, Defer,
           NotRecorded, RunAborted, LockLost, AnswerLost

\* What a dispatcher's step leaves of the others.
OneMoves(p) ==
    /\ queue' = queue
    /\ pc[p] # "idle" \/ holder = NoProcess
    /\ holder' \in {holder, p, NoProcess}
    /\ (holder' # holder => holder \in {p, NoProcess})
    /\ \A q \in Processes \ {p} : pc'[q] = pc[q] /\ batch'[q] = batch[q]

\* The steps of a dispatcher by what they do to its run.
Sends(p, m) == Publish(p, m) \/ PublishFails(p, m) \/ Hold(p, m) \/ AnswerLost(p, m)
Records(p, m) == Published(p, m) \/ Failed(p, m) \/ Defer(p, m) \/ NotRecorded(p, m)
Elsewhere == ReplayDeadLetters \/ NightFalls \/ Clock \/ UNCHANGED vars

\* Every step is one of these.
LEMMA StepKinds ==
  [Next]_vars =>
    \/ Elsewhere
    \/ \E m \in Messages : Enqueue(m)
    \/ \E p \in Processes : TakeLock(p) \/ ReadPending(p) \/ RunAborted(p) \/ LockLost(p)
    \/ \E p \in Processes, m \in Messages : Sends(p, m) \/ Records(p, m)
  BY DEF Next, Dispatch, DispatchOne, Interrupted, Sends, Records, Elsewhere

LEMMA ElsewhereStands ==
  Elsewhere => UNCHANGED <<queue, published, world, holder, pc, batch, faults>>
  BY DEF Elsewhere, ReplayDeadLetters, NightFalls, Clock, MorningComes, WaitEnds, vars, world, rows

\* The run after its dispatcher went on with the rest of its batch.
LEMMA Continues ==
  ASSUME TypeOK, NEW p \in Processes, NEW rest \in SUBSET Messages, Continue(p, rest), queue' = queue, pc[p] # "idle"
  PROVE  /\ OneMoves(p)
         /\ batch'[p] = rest
         /\ pc'[p] \in {"idle", "publish"} /\ (pc'[p] = "idle" <=> rest = {})
         /\ holder' = (IF rest = {} /\ holder = p THEN NoProcess ELSE holder)
  BY DEF Continue, Release, OneMoves, TypeOK

\* The step of publishing: the dispatcher stays at m.
LEMMA SendsMoves ==
  ASSUME TypeOK, NEW p \in Processes, NEW m \in Messages, Sends(p, m)
  PROVE  /\ OneMoves(p) /\ Current(p, m) /\ pc[p] = "publish"
         /\ pc'[p] \in {"sent", "failed", "held"}
         /\ UNCHANGED <<rows, holder, batch>>
  BY DEF Sends, Publish, PublishFails, Hold, AnswerLost, At, Goto, OneMoves, TypeOK, rows

\* The step of recording: the dispatcher goes on behind m.
LEMMA RecordsMoves ==
  ASSUME TypeOK, NEW p \in Processes, NEW m \in Messages, Records(p, m)
  PROVE  /\ OneMoves(p) /\ Current(p, m) /\ pc[p] \in {"sent", "failed", "held"}
         /\ UNCHANGED <<queue, world>>
         /\ batch'[p] = batch[p] \ {m}
         /\ pc'[p] \in {"idle", "publish"} /\ (pc'[p] = "idle" <=> batch[p] \ {m} = {})
         /\ holder' = (IF batch[p] \ {m} = {} /\ holder = p THEN NoProcess ELSE holder)
  <1>1. /\ Current(p, m) /\ pc[p] \in {"sent", "failed", "held"} /\ Continue(p, batch[p] \ {m})
        /\ UNCHANGED <<queue, world>>
    BY DEF Records, Published, Failed, Defer, NotRecorded, rows
  <1>2. batch[p] \ {m} \in SUBSET Messages
    BY DEF TypeOK
  <1> QED BY <1>1, <1>2, Continues

LEMMA NextBatches == IInv /\ [Next]_vars => Batches'
  <1> SUFFICES ASSUME IInv, [Next]_vars PROVE Batches'
    OBVIOUS
  <1>0. TypeOK /\ Batches
    BY DEF IInv
  <1>q. queue' = queue => Enqueued' = Enqueued
    BY DEF Enqueued
  \* The other runs are as they were.
  <1>o. ASSUME NEW p \in Processes, OneMoves(p),
               batch'[p] \subseteq Enqueued, pc'[p] \in {"idle", "locked"} => batch'[p] = {},
               holder' = p => pc'[p] # "idle"
        PROVE  Batches'
    <2>1. p # NoProcess
      BY OutboxConstants
    <2> QED BY <1>0, <1>q, <1>o, <2>1, OutboxConstants DEF OneMoves, Batches
  <1>1. CASE Elsewhere
    BY <1>0, <1>q, <1>1, ElsewhereStands DEF Batches
  <1>2. ASSUME NEW m \in Messages, Enqueue(m) PROVE Batches'
    <2>1. queue \in Seq(Messages) /\ queue' = Append(queue, m)
      BY <1>0, <1>2 DEF Enqueue, TypeOK
    <2>2. Enqueued \subseteq Enqueued'
      BY <2>1 DEF Enqueued
    <2> QED BY <1>0, <1>2, <2>2 DEF Enqueue, Batches
  <1>3. ASSUME NEW p \in Processes, TakeLock(p) PROVE Batches'
    <2>1. OneMoves(p) /\ batch'[p] = {} /\ pc'[p] = "locked"
      BY <1>0, <1>3 DEF TakeLock, OneMoves, TypeOK, Batches, rows
    <2> QED BY <2>1, <1>o
  <1>4. ASSUME NEW p \in Processes, ReadPending(p) PROVE Batches'
    <2>1. Continue(p, Pending) /\ pc[p] = "locked" /\ queue' = queue
      BY <1>4 DEF ReadPending, rows
    <2>2. Pending \subseteq Enqueued /\ Pending \in SUBSET Messages
      BY <1>0, PendingMessages, EnqueuedMessages
    <2>3. p # NoProcess
      BY OutboxConstants
    <2>4. OneMoves(p) /\ batch'[p] = Pending /\ (pc'[p] = "idle" <=> Pending = {}) /\ pc'[p] \in {"idle", "publish"}
          /\ holder' = (IF Pending = {} /\ holder = p THEN NoProcess ELSE holder)
      BY <1>0, <2>1, <2>2, Continues
    <2> QED BY <1>o, <2>2, <2>3, <2>4
  <1>5. ASSUME NEW p \in Processes, RunAborted(p) PROVE Batches'
    <2>1. Continue(p, {}) /\ pc[p] # "idle" /\ queue' = queue /\ {} \in SUBSET Messages
      BY <1>5 DEF RunAborted, rows
    <2>2. p # NoProcess
      BY OutboxConstants
    <2>3. OneMoves(p) /\ batch'[p] = {} /\ holder' = (IF {} = {} /\ holder = p THEN NoProcess ELSE holder)
      BY <1>0, <2>1, Continues
    <2> QED BY <1>o, <2>2, <2>3
  <1>6. ASSUME NEW p \in Processes, LockLost(p) PROVE Batches'
    BY <1>0, <1>6, <1>q, OutboxConstants DEF LockLost, Batches, rows
  <1>7. ASSUME NEW p \in Processes, NEW m \in Messages, Sends(p, m) PROVE Batches'
    BY <1>0, <1>7, <1>o, SendsMoves DEF Batches
  <1>8. ASSUME NEW p \in Processes, NEW m \in Messages, Records(p, m) PROVE Batches'
    <2>1. p # NoProcess
      BY OutboxConstants
    <2> QED BY <1>0, <1>8, <1>o, <2>1, RecordsMoves DEF Batches
  <1> QED BY <1>1, <1>2, <1>3, <1>4, <1>5, <1>6, <1>7, <1>8, StepKinds

-----------------------------------------------------------------------------
(* Accounts *)

\* Where the other dispatchers stand.
LEMMA OthersStand ==
  ASSUME NEW p \in Processes, OneMoves(p), NEW q \in Processes \ {p}, NEW m
  PROVE  /\ pc'[q] = pc[q] /\ batch'[q] = batch[q] /\ (holder' = q <=> holder = q)
         /\ (Current(q, m)' <=> Current(q, m))
         /\ (MaySend(q, m)' <=> MaySend(q, m))
  <1>1. pc'[q] = pc[q] /\ batch'[q] = batch[q] /\ (holder' = q <=> holder = q)
    BY OutboxConstants DEF OneMoves
  <1>2. Current(q, m)' <=> Current(q, m)
    BY <1>1, SameOrder DEF OneMoves
  <1> QED BY <1>1, <1>2 DEF MaySend

LEMMA NextAccounts == IInv /\ [Next]_vars => Accounts'
  <1> SUFFICES ASSUME IInv, [Next]_vars, NEW n \in Messages PROVE Account(n)'
    BY DEF Accounts
  <1>0. TypeOK /\ Batches /\ QueuedOnce /\ Account(n)
    BY DEF IInv, Accounts
  <1>q. queue' = queue => Enqueued' = Enqueued
    BY DEF Enqueued
  <1>t. attempts[n] \in Nat /\ failures[n] \in 0 .. MostAttempts /\ delivered[n] \in Nat
    BY <1>0, CeilingIsNat DEF TypeOK
  <1>n. /\ Holding(n) \in SUBSET Processes /\ Reporting(n) \in SUBSET Processes
        /\ Holding(n)' \in SUBSET Processes /\ Reporting(n)' \in SUBSET Processes
        /\ Cardinality(Holding(n)) \in Nat /\ Cardinality(Reporting(n)) \in Nat
        /\ Cardinality(Holding(n)') \in Nat /\ Cardinality(Reporting(n)') \in Nat
    <2>1. /\ Holding(n) \in SUBSET Processes /\ Reporting(n) \in SUBSET Processes
          /\ Holding(n)' \in SUBSET Processes /\ Reporting(n)' \in SUBSET Processes
      BY DEF Holding, Reporting
    <2> QED BY <2>1, SubsetCount
  \* Nothing is counted, and nothing new is to be.
  <1>s. ASSUME attempts'[n] \in Nat, attempts'[n] <= attempts[n], failures'[n] = failures[n],
               Holding(n)' \subseteq Holding(n), Reporting(n)' \subseteq Reporting(n),
               Enqueued \subseteq Enqueued',
               \A q \in Processes : (pc[q] = "sent" /\ Current(q, n))' => delivered'[n] > 0
        PROVE  Account(n)'
    <2>1. /\ Cardinality(Holding(n)') <= Cardinality(Holding(n))
          /\ Cardinality(Reporting(n)') <= Cardinality(Reporting(n))
      BY <1>n, <1>s, SubsetCount
    <2> QED BY <1>0, <1>t, <1>n, <1>s, <2>1, CeilingIsNat DEF Account
  \* A run that is over, or at the start, holds and reports nothing.
  <1>e. ASSUME NEW p \in Processes, OneMoves(p), UNCHANGED <<rows, world>>, batch'[p] \subseteq batch[p],
               pc'[p] \notin {"sent", "failed"}
        PROVE  Account(n)'
    <2>1. Holding(n)' \subseteq Holding(n)
      BY <1>e, OthersStand DEF Holding
    <2>2. Reporting(n)' \subseteq Reporting(n)
      BY <1>e, OthersStand DEF Reporting
    <2>3. \A q \in Processes : (pc[q] = "sent" /\ Current(q, n))' => delivered'[n] > 0
      BY <1>e, <1>0, OthersStand DEF Account, world
    <2> QED BY <1>e, <1>s, <1>t, <1>q, <2>1, <2>2, <2>3 DEF rows, world
  <1>1. CASE Elsewhere
    <2>1. UNCHANGED <<queue, published, world, holder, pc, batch, faults>>
      BY <1>1, ElsewhereStands
    <2>2. Holding(n)' = Holding(n) /\ Reporting(n)' = Reporting(n)
      BY <2>1, SameOrder DEF Holding, Reporting
    <2>3. \A q \in Processes : (pc[q] = "sent" /\ Current(q, n))' => delivered'[n] > 0
      BY <2>1, <1>0, SameOrder DEF Account, world
    <2>4. attempts'[n] \in {0, attempts[n]}
      BY <1>1, <1>0 DEF Elsewhere, ReplayDeadLetters, NightFalls, Clock, MorningComes, WaitEnds, vars, rows, TypeOK
    <2> QED BY <1>s, <1>t, <1>q, <2>1, <2>2, <2>3, <2>4 DEF world
  <1>2. ASSUME NEW m \in Messages, Enqueue(m) PROVE Account(n)'
    <2>1. queue \in Seq(Messages) /\ queue' = Append(queue, m) /\ UNCHANGED <<attempts, world, pc, batch>>
      BY <1>0, <1>2 DEF Enqueue, TypeOK
    <2>2. Enqueued \subseteq Enqueued'
      BY <2>1 DEF Enqueued
    <2>3. \A q \in Processes : Current(q, n)' <=> Current(q, n)
      BY <1>0, <1>2, EnqueueKeepsOrder
    <2>4. Holding(n)' = Holding(n) /\ Reporting(n)' = Reporting(n)
      BY <2>1, <2>3 DEF Holding, Reporting
    <2>5. \A q \in Processes : (pc[q] = "sent" /\ Current(q, n))' => delivered'[n] > 0
      BY <2>1, <2>3, <1>0 DEF Account, world
    <2> QED BY <1>s, <1>t, <2>1, <2>2, <2>4, <2>5 DEF world
  <1>3. ASSUME NEW p \in Processes, TakeLock(p) PROVE Account(n)'
    BY <1>0, <1>3, <1>e DEF TakeLock, OneMoves, TypeOK, rows
  <1>4. ASSUME NEW p \in Processes, ReadPending(p) PROVE Account(n)'
    <2>1. Continue(p, Pending) /\ pc[p] = "locked" /\ UNCHANGED <<rows, world>> /\ batch[p] = {}
      BY <1>0, <1>4 DEF ReadPending, Batches
    <2>2. Pending \in SUBSET Messages
      BY <1>0, PendingMessages, EnqueuedMessages
    <2>3. OneMoves(p) /\ batch'[p] = Pending /\ pc'[p] \in {"idle", "publish"}
      BY <1>0, <2>1, <2>2, Continues DEF rows
    <2>4. Reporting(n)' \subseteq Reporting(n)
      BY <2>3, OthersStand DEF Reporting
    <2>5. \A q \in Processes : (pc[q] = "sent" /\ Current(q, n))' => delivered'[n] > 0
      BY <1>0, <2>1, <2>3, OthersStand DEF Account, world
    <2>6. CASE n \in Pending
      <3>1. attempts[n] <= MaxAttempts - 1
        BY <1>t, <2>6, PendingMessages, OutboxConstants
      <3>2. Cardinality(Holding(n)') <= Cardinality(Processes) /\ Cardinality(Processes) \in Nat
        BY <1>n, SubsetCount
      <3>3. Cardinality(Reporting(n)') <= Cardinality(Reporting(n))
        BY <1>n, <2>4, SubsetCount
      <3>4. attempts'[n] = attempts[n] /\ failures'[n] = failures[n] /\ Enqueued' = Enqueued
        BY <2>1, <1>q DEF rows, world
      <3> QED BY <1>0, <1>t, <1>n, <2>5, <3>1, <3>2, <3>3, <3>4, CeilingIsNat, OutboxConstants DEF Account
    <2>7. CASE n \notin Pending
      <3>1. Holding(n)' \subseteq Holding(n)
        BY <2>3, <2>7, OthersStand DEF Holding
      <3> QED BY <1>s, <1>t, <1>q, <2>1, <2>4, <2>5, <3>1 DEF rows, world
    <2> QED BY <2>6, <2>7
  <1>5. ASSUME NEW p \in Processes, RunAborted(p) PROVE Account(n)'
    <2>1. Continue(p, {}) /\ pc[p] # "idle" /\ UNCHANGED <<rows, world>> /\ {} \in SUBSET Messages
      BY <1>5 DEF RunAborted
    <2>2. OneMoves(p) /\ batch'[p] = {} /\ pc'[p] \in {"idle", "publish"}
      BY <1>0, <2>1, Continues DEF rows
    <2> QED BY <1>e, <2>1, <2>2
  <1>6. ASSUME NEW p \in Processes, LockLost(p) PROVE Account(n)'
    <2>1. UNCHANGED <<rows, world, pc, batch>>
      BY <1>6 DEF LockLost
    <2>2. Holding(n)' = Holding(n) /\ Reporting(n)' = Reporting(n)
      BY <2>1, SameOrder DEF Holding, Reporting, rows
    <2>3. \A q \in Processes : (pc[q] = "sent" /\ Current(q, n))' => delivered'[n] > 0
      BY <2>1, <1>0, SameOrder DEF Account, world, rows
    <2> QED BY <1>s, <1>t, <1>q, <2>1, <2>2, <2>3 DEF rows, world
  <1>7. ASSUME NEW p \in Processes, NEW m \in Messages, Sends(p, m) PROVE Account(n)'
    <2>1. /\ OneMoves(p) /\ Current(p, m) /\ pc[p] = "publish" /\ pc'[p] \in {"sent", "failed", "held"}
          /\ UNCHANGED <<rows, holder, batch>>
      BY <1>0, <1>7, SendsMoves
    <2>2. Holding(n)' = Holding(n)
      BY <2>1 DEF Holding
    <2>3. Current(p, n)' => n = m
      <3>1. Current(p, n)' <=> Current(p, n)
        BY <2>1, SameOrder DEF rows
      <3> QED BY <1>0, <2>1, <3>1, OneCurrent
    <2>4. delivered'[n] \in Nat /\ delivered'[n] >= delivered[n] /\ (n = m /\ pc'[p] = "sent" => delivered'[n] > 0)
      <3>1. delivered' = delivered \/ Reaches(m)
        BY <1>7 DEF Sends, Publish, PublishFails, Hold, AnswerLost, world
      <3>2. pc'[p] = "sent" => Reaches(m)
        BY <1>0, <1>7 DEF Sends, Publish, PublishFails, Hold, AnswerLost, Goto, TypeOK
      <3>3. delivered \in [Messages -> Nat]
        BY <1>0 DEF TypeOK
      <3> QED BY <1>t, <3>1, <3>2, <3>3 DEF Reaches
    <2>5. \A q \in Processes : (pc[q] = "sent" /\ Current(q, n))' => delivered'[n] > 0
      BY <1>0, <1>t, <2>1, <2>3, <2>4, OthersStand DEF Account
    <2>6. CASE n = m /\ pc'[p] = "failed"
      <3>1. FailureSeen(m)
        BY <1>0, <1>7, <2>6 DEF Sends, Publish, PublishFails, Hold, AnswerLost, Goto, TypeOK
      <3>2. failures'[n] = (IF failures[n] < MostAttempts THEN failures[n] + 1 ELSE failures[n])
        BY <1>0, <2>6, <3>1 DEF FailureSeen, TypeOK
      <3>3. Reporting(n)' \subseteq Reporting(n) \cup {p} /\ Reporting(n)' \subseteq Holding(n)
        <4>1. \A q \in Processes : Current(q, n)' => n \in batch'[q]
          BY DEF Current
        <4> QED BY <2>1, <4>1, OthersStand DEF Reporting, Holding
      <3>4. /\ Cardinality(Reporting(n)') <= Cardinality(Reporting(n)) + 1
            /\ Cardinality(Reporting(n)') <= Cardinality(Holding(n))
        BY <1>n, <3>3, OneMore, SubsetCount
      <3>5. attempts'[n] = attempts[n] /\ Enqueued' = Enqueued
        BY <2>1, <1>q DEF rows
      <3>6. attempts[n] + Cardinality(Reporting(n)') <= failures'[n]
        BY <1>0, <1>t, <1>n, <3>2, <3>4, CeilingIsNat DEF Account
      <3> QED BY <1>0, <2>2, <2>5, <3>5, <3>6 DEF Account
    <2>7. CASE ~(n = m /\ pc'[p] = "failed")
      <3>1. Reporting(n)' \subseteq Reporting(n)
        BY <2>1, <2>3, <2>7, OthersStand DEF Reporting
      <3>2. failures'[n] = failures[n]
        <4>1. failures' = failures \/ (FailureSeen(m) /\ pc'[p] = "failed")
          BY <1>0, <1>7 DEF Sends, Publish, PublishFails, Hold, AnswerLost, Goto, TypeOK, world
        <4> QED BY <1>0, <2>7, <4>1 DEF FailureSeen, TypeOK
      <3> QED BY <1>s, <1>t, <1>q, <2>1, <2>2, <2>5, <3>1, <3>2 DEF rows
    <2> QED BY <2>6, <2>7
  <1>8. ASSUME NEW p \in Processes, NEW m \in Messages, Records(p, m) PROVE Account(n)'
    <2>1. /\ OneMoves(p) /\ Current(p, m) /\ UNCHANGED <<queue, world>>
          /\ batch'[p] = batch[p] \ {m} /\ pc'[p] \in {"idle", "publish"}
      BY <1>0, <1>8, RecordsMoves
    <2>2. Holding(n)' \subseteq Holding(n) /\ (n = m => p \notin Holding(n)')
      BY <2>1, OthersStand DEF Holding
    <2>3. Reporting(n)' \subseteq Reporting(n) /\ p \notin Reporting(n)'
      BY <2>1, OthersStand DEF Reporting
    <2>4. \A q \in Processes : (pc[q] = "sent" /\ Current(q, n))' => delivered'[n] > 0
      BY <1>0, <2>1, OthersStand DEF Account, world
    <2>5. attempts' = attempts \/ (attempts' = [attempts EXCEPT ![m] = @ + 1] /\ pc[p] = "failed")
      BY <1>8 DEF Records, Published, Failed, Defer, NotRecorded, rows
    <2>6. CASE attempts'[n] = attempts[n]
      BY <1>s, <1>t, <1>q, <2>1, <2>2, <2>3, <2>4, <2>6 DEF world
    <2>7. CASE attempts'[n] # attempts[n]
      <3>1. n = m /\ attempts'[n] = attempts[n] + 1 /\ pc[p] = "failed"
        BY <1>0, <2>5, <2>7 DEF TypeOK
      <3>2. p \in Holding(n) /\ p \in Reporting(n) /\ n \in Enqueued
        BY <1>0, <2>1, <3>1 DEF Holding, Reporting, Current, Batches
      <3>3. /\ Cardinality(Holding(n)') + 1 <= Cardinality(Holding(n))
            /\ Cardinality(Reporting(n)') + 1 <= Cardinality(Reporting(n))
        BY <1>n, <2>2, <2>3, <3>1, <3>2, OneLess
      <3>4. failures'[n] = failures[n] /\ n \in Enqueued'
        BY <1>q, <2>1, <3>2 DEF world
      <3> QED BY <1>0, <1>t, <1>n, <2>4, <3>1, <3>3, <3>4, CeilingIsNat DEF Account
    <2> QED BY <2>6, <2>7
  <1> QED BY <1>1, <1>2, <1>3, <1>4, <1>5, <1>6, <1>7, <1>8, StepKinds

-----------------------------------------------------------------------------
(* Debt *)

Balance(m) == delivered[m] + Cardinality(Astray(m)) + OneIfOwed(m)

LEMMA NextDebt == IInv /\ [Next]_vars => Debt'
  <1> SUFFICES ASSUME IInv, [Next]_vars, NEW n \in Messages
               PROVE  Balance(n)' <= 1 + faults'
    BY DEF Debt, Balance
  <1>0. TypeOK /\ Batches /\ QueuedOnce /\ Balance(n) <= 1 + faults
    BY DEF IInv, Debt, Balance
  <1>t. delivered[n] \in Nat /\ faults \in Nat /\ OneIfOwed(n) \in {0, 1} /\ OneIfOwed(n)' \in {0, 1}
    BY <1>0, OutboxConstants DEF TypeOK, OneIfOwed
  <1>n. /\ Astray(n) \in SUBSET Processes /\ Astray(n)' \in SUBSET Processes
        /\ Cardinality(Astray(n)) \in Nat /\ Cardinality(Astray(n)') \in Nat
    <2>1. Astray(n) \in SUBSET Processes /\ Astray(n)' \in SUBSET Processes
      BY DEF Astray
    <2> QED BY <2>1, SubsetCount
  <1>f. faults' = faults \/ Fault => faults' \in Nat /\ faults' >= faults
    BY <1>t DEF Fault
  <1>p. \A p \in Processes : p # NoProcess
    BY OutboxConstants
  \* Nothing is delivered, and nobody new may deliver.
  <1>s. ASSUME delivered'[n] = delivered[n], Astray(n)' \subseteq Astray(n), Owed(n)' => Owed(n),
               faults' = faults \/ Fault
        PROVE  Balance(n)' <= 1 + faults'
    <2>1. Cardinality(Astray(n)') <= Cardinality(Astray(n))
      BY <1>n, <1>s, SubsetCount
    <2>2. OneIfOwed(n)' <= OneIfOwed(n)
      BY <1>s DEF OneIfOwed
    <2> QED BY <1>0, <1>t, <1>n, <1>s, <1>f, <2>1, <2>2 DEF Balance
  \* A fault pays for the message being owed again.
  <1>g. ASSUME delivered'[n] = delivered[n], Astray(n)' \subseteq Astray(n), Fault
        PROVE  Balance(n)' <= 1 + faults'
    <2>1. Cardinality(Astray(n)') <= Cardinality(Astray(n))
      BY <1>n, <1>g, SubsetCount
    <2>2. faults' = faults + 1
      BY <1>g DEF Fault
    <2> QED BY <1>0, <1>t, <1>n, <1>g, <2>1, <2>2 DEF Balance
  <1>1. CASE Elsewhere
    <2>1. UNCHANGED <<queue, published, world, holder, pc, batch, faults>>
      BY <1>1, ElsewhereStands
    <2>2. \A q \in Processes : Current(q, n)' <=> Current(q, n)
      BY <2>1, SameOrder
    <2>3. Astray(n)' = Astray(n) /\ (Owed(n)' <=> Owed(n))
      BY <2>1, <2>2 DEF Astray, Owed, MaySend, SentUnderLock
    <2> QED BY <1>s, <2>1, <2>3 DEF world
  <1>2. ASSUME NEW m \in Messages, Enqueue(m) PROVE Balance(n)' <= 1 + faults'
    <2>1. UNCHANGED <<published, world, holder, pc, batch, faults>>
      BY <1>2 DEF Enqueue
    <2>2. \A q \in Processes : Current(q, n)' <=> Current(q, n)
      BY <1>0, <1>2, EnqueueKeepsOrder
    <2>3. Astray(n)' = Astray(n) /\ (Owed(n)' <=> Owed(n))
      BY <2>1, <2>2 DEF Astray, Owed, MaySend, SentUnderLock
    <2> QED BY <1>s, <2>1, <2>3 DEF world
  <1>3. ASSUME NEW p \in Processes, TakeLock(p) PROVE Balance(n)' <= 1 + faults'
    <2>1. /\ OneMoves(p) /\ UNCHANGED <<rows, world, batch, faults>>
          /\ holder = NoProcess /\ holder' = p /\ pc'[p] = "locked" /\ batch[p] = {}
      BY <1>0, <1>3 DEF TakeLock, OneMoves, TypeOK, Batches, rows
    <2>2. ~MaySend(p, n)'
      BY <2>1 DEF MaySend
    <2>3. Astray(n)' \subseteq Astray(n)
      BY <2>1, OthersStand DEF Astray
    <2>4. Owed(n)' => Owed(n)
      BY <2>1, <2>2, <1>p DEF Owed, SentUnderLock, rows
    <2> QED BY <1>s, <2>1, <2>3, <2>4 DEF world
  <1>4. ASSUME NEW p \in Processes, ReadPending(p) PROVE Balance(n)' <= 1 + faults'
    <2>1. Continue(p, Pending) /\ pc[p] = "locked" /\ UNCHANGED <<rows, world, faults>> /\ batch[p] = {}
      BY <1>0, <1>4 DEF ReadPending, Batches
    <2>2. Pending \in SUBSET Messages
      BY <1>0, PendingMessages, EnqueuedMessages
    <2>3. /\ OneMoves(p) /\ batch'[p] = Pending /\ pc'[p] \in {"idle", "publish"}
          /\ holder' = (IF Pending = {} /\ holder = p THEN NoProcess ELSE holder)
      BY <1>0, <2>1, <2>2, Continues DEF rows
    <2>4. Astray(n)' \subseteq Astray(n)
      <3>1. p \in Astray(n)' => p \in Astray(n)
        BY <2>1, <2>3 DEF Astray, MaySend
      <3> QED BY <2>3, <3>1, OthersStand DEF Astray
    <2>5. Owed(n)' => Owed(n)
      <3>1. MaySend(p, n)' => n \notin published
        BY <2>3, PendingMessages DEF MaySend
      <3>2. CASE holder = p
        <4>1. ~SentUnderLock(n)
          BY <2>1, <3>2 DEF SentUnderLock
        <4>2. \A q \in Processes : holder' = q => q = p
          BY <2>3, <3>2, <1>p
        <4> QED BY <2>1, <3>1, <4>1, <4>2 DEF Owed, rows
      <3>3. CASE holder # p
        <4>1. holder' = holder
          BY <2>3, <3>3
        <4> QED BY <2>1, <2>3, <3>3, <4>1, OthersStand DEF Owed, SentUnderLock, rows
      <3> QED BY <3>2, <3>3
    <2> QED BY <1>s, <2>1, <2>4, <2>5 DEF world
  <1>5. ASSUME NEW p \in Processes, RunAborted(p) PROVE Balance(n)' <= 1 + faults'
    <2>1. Continue(p, {}) /\ pc[p] # "idle" /\ UNCHANGED <<rows, world>> /\ {} \in SUBSET Messages /\ Fault
      BY <1>5 DEF RunAborted
    <2>2. OneMoves(p) /\ batch'[p] = {} /\ pc'[p] \in {"idle", "publish"}
      BY <1>0, <2>1, Continues DEF rows
    <2>3. Astray(n)' \subseteq Astray(n)
      BY <2>2, OthersStand DEF Astray, MaySend
    <2> QED BY <1>g, <2>1, <2>3 DEF world
  <1>6. ASSUME NEW p \in Processes, LockLost(p) PROVE Balance(n)' <= 1 + faults'
    <2>1. UNCHANGED <<rows, world, pc, batch>> /\ holder = p /\ holder' = NoProcess /\ Fault
      BY <1>6 DEF LockLost
    <2>2. \A q \in Processes : (Current(q, n)' <=> Current(q, n)) /\ (MaySend(q, n)' <=> MaySend(q, n))
      BY <2>1, SameOrder DEF MaySend, rows
    <2>3. faults' = faults + 1
      BY <2>1 DEF Fault
    <2>4. CASE p \in Astray(n)'
      <3>1. pc[p] = "locked" \/ MaySend(p, n)
        BY <2>1, <2>2, <2>4 DEF Astray
      <3>2. Astray(n)' \subseteq Astray(n) \cup {p}
        BY <2>1, <2>2 DEF Astray
      <3>3. Cardinality(Astray(n)') <= Cardinality(Astray(n)) + 1
        BY <1>n, <3>2, OneMore
      <3>4. Owed(n)' => Owed(n)
        BY <2>1, <2>2, <3>1, <1>p DEF Owed, SentUnderLock, MaySend, rows
      <3>5. OneIfOwed(n)' <= OneIfOwed(n) /\ delivered'[n] = delivered[n]
        BY <2>1, <3>4 DEF OneIfOwed, world
      <3> QED BY <1>0, <1>t, <1>n, <2>3, <3>3, <3>5 DEF Balance
    <2>5. CASE p \notin Astray(n)'
      <3>1. Astray(n)' \subseteq Astray(n)
        BY <2>1, <2>2, <2>5 DEF Astray
      <3> QED BY <1>g, <2>1, <3>1 DEF world
    <2> QED BY <2>4, <2>5
  <1>7. ASSUME NEW p \in Processes, NEW m \in Messages, Sends(p, m) PROVE Balance(n)' <= 1 + faults'
    <2>1. /\ OneMoves(p) /\ Current(p, m) /\ pc[p] = "publish" /\ pc'[p] \in {"sent", "failed", "held"}
          /\ UNCHANGED <<rows, holder, batch>>
      BY <1>0, <1>7, SendsMoves
    <2>2. m \in batch[p] /\ MaySend(p, m) /\ (Current(p, n) => n = m)
      BY <1>0, <2>1, OneCurrent DEF MaySend, Current
    <2>3. Current(p, n)' <=> Current(p, n)
      BY <2>1, SameOrder DEF rows
    <2>4. (MaySend(p, n)' => MaySend(p, n)) /\ (n = m => ~MaySend(p, n)')
      BY <2>1, <2>2, <2>3 DEF MaySend
    <2>5. Astray(n)' \subseteq Astray(n) /\ (n = m => p \notin Astray(n)')
      BY <2>1, <2>4, OthersStand DEF Astray
    <2>6. faults' = faults \/ Fault
      BY <1>7 DEF Sends, Publish, PublishFails, Hold, AnswerLost, MayPublish
    <2>7. Owed(n)' => Owed(n)
      <3>1. SentUnderLock(n) => SentUnderLock(n)'
        BY <2>1, OthersStand DEF SentUnderLock
      <3> QED BY <2>1, <2>4, <3>1, OthersStand DEF Owed, rows
    <2>8. CASE delivered'[n] = delivered[n]
      BY <1>s, <2>5, <2>6, <2>7, <2>8
    <2>9. CASE delivered'[n] # delivered[n]
      <3>1. /\ delivered' = delivered \/ (Reaches(m) /\ (pc'[p] = "sent" \/ Fault))
        BY <1>0, <1>7 DEF Sends, Publish, PublishFails, Hold, AnswerLost, Goto, TypeOK, world
      <3>2. n = m /\ delivered'[n] = delivered[n] + 1 /\ (pc'[p] = "sent" \/ Fault)
        BY <1>0, <2>9, <3>1 DEF Reaches, TypeOK
      <3>3. CASE Fault
        <4>1. Cardinality(Astray(n)') <= Cardinality(Astray(n)) /\ faults' = faults + 1
          BY <1>n, <2>5, <3>3, SubsetCount DEF Fault
        <4>2. OneIfOwed(n)' <= OneIfOwed(n)
          BY <2>7 DEF OneIfOwed
        <4> QED BY <1>0, <1>t, <1>n, <3>2, <4>1, <4>2 DEF Balance
      <3>4. CASE holder # p
        <4>1. p \in Astray(n)
          BY <2>2, <3>2, <3>4 DEF Astray
        <4>2. Cardinality(Astray(n)') + 1 <= Cardinality(Astray(n))
          BY <1>n, <2>5, <3>2, <4>1, OneLess
        <4>3. OneIfOwed(n)' <= OneIfOwed(n)
          BY <2>7 DEF OneIfOwed
        <4> QED BY <1>0, <1>t, <1>n, <1>f, <2>6, <3>2, <4>2, <4>3 DEF Balance
      <3>5. CASE holder = p /\ pc'[p] = "sent"
        <4>1. Owed(n)
          BY <2>2, <3>2, <3>5 DEF Owed
        <4>2. SentUnderLock(n)' /\ \A q \in Processes : holder' = q => q = p
          BY <2>1, <2>3, <3>2, <3>5 DEF SentUnderLock
        <4>3. ~Owed(n)'
          BY <2>4, <3>2, <4>2 DEF Owed
        <4>4. OneIfOwed(n) = 1 /\ OneIfOwed(n)' = 0
          BY <4>1, <4>3 DEF OneIfOwed
        <4>5. Cardinality(Astray(n)') <= Cardinality(Astray(n))
          BY <1>n, <2>5, SubsetCount
        <4> QED BY <1>0, <1>t, <1>n, <1>f, <2>6, <3>2, <4>4, <4>5 DEF Balance
      <3> QED BY <3>2, <3>3, <3>4, <3>5
    <2> QED BY <2>8, <2>9
  <1>8. ASSUME NEW p \in Processes, NEW m \in Messages, Records(p, m) PROVE Balance(n)' <= 1 + faults'
    <2>1. /\ OneMoves(p) /\ Current(p, m) /\ pc[p] \in {"sent", "failed", "held"}
          /\ UNCHANGED <<queue, world>>
          /\ batch'[p] = batch[p] \ {m} /\ pc'[p] \in {"idle", "publish"}
          /\ (pc'[p] = "idle" <=> batch[p] \ {m} = {})
          /\ holder' = (IF batch[p] \ {m} = {} /\ holder = p THEN NoProcess ELSE holder)
      BY <1>0, <1>8, RecordsMoves
    <2>2. Current(p, n) => n = m
      BY <1>0, <2>1, OneCurrent
    <2>3. MaySend(p, n)' => MaySend(p, n) /\ holder' = holder
      BY <2>1, <2>2 DEF MaySend
    <2>4. Astray(n)' \subseteq Astray(n)
      <3>1. p \in Astray(n)' => p \in Astray(n)
        BY <2>1, <2>3 DEF Astray
      <3> QED BY <2>1, <3>1, OthersStand DEF Astray
    <2>5. CASE NotRecorded(p, m)
      BY <1>g, <2>1, <2>4, <2>5 DEF NotRecorded, world
    <2>6. CASE ~NotRecorded(p, m)
      <3>1. faults' = faults /\ published \subseteq published' /\ (pc[p] = "sent" => m \in published')
        BY <1>8, <2>6 DEF Records, Published, Failed, Defer
      <3>2. n \notin published' /\ ~SentUnderLock(n)' => n \notin published /\ ~SentUnderLock(n)
        BY <2>1, <2>2, <3>1, OthersStand DEF SentUnderLock
      <3>3. ASSUME NEW q \in Processes, holder' = q, MaySend(q, n)' PROVE holder = q /\ MaySend(q, n)
        BY <2>1, <2>3, <3>3, OthersStand
      <3>4. Owed(n)' => Owed(n)
        BY <3>2, <3>3 DEF Owed
      <3> QED BY <1>s, <2>1, <2>4, <3>1, <3>4 DEF world
    <2> QED BY <2>5, <2>6
  <1> QED BY <1>1, <1>2, <1>3, <1>4, <1>5, <1>6, <1>7, <1>8, StepKinds

-----------------------------------------------------------------------------
(* The theorems *)

LEMMA NextIInv == IInv /\ [Next]_vars => IInv'
  BY NextTypeOK, NextQueuedOnce, NextBatches, NextAccounts, NextDebt DEF IInv

\* The outbox's variables keep their types: no message is counted beyond
\* MostAttempts, whatever two dispatchers do at once (RecordFailure).
THEOREM TypeCorrect == Spec => []TypeOK
  <1>1. IInv => TypeOK
    BY DEF IInv
  <1> QED BY <1>1, InitIInv, NextIInv, PTL DEF Spec

\* However many processes dispatch, a message reaches Telegram once more than
\* there were faults at most (OutboxDispatcher.Dispatch).
THEOREM EveryDuplicateHasItsFault == Spec => []DuplicatesNeedFaults
  <1>1. IInv => DuplicatesNeedFaults
    <2> SUFFICES ASSUME IInv, NEW m \in Messages PROVE delivered[m] <= 1 + faults
      BY DEF DuplicatesNeedFaults
    <2>1. Astray(m) \in SUBSET Processes
      BY DEF Astray
    <2>2. Cardinality(Astray(m)) \in Nat
      BY <2>1, SubsetCount
    <2>3. delivered[m] \in Nat /\ faults \in Nat /\ OneIfOwed(m) \in {0, 1}
      BY OutboxConstants DEF IInv, TypeOK, OneIfOwed
    <2> QED BY <2>2, <2>3 DEF IInv, Debt
  <1> QED BY <1>1, InitIInv, NextIInv, PTL DEF Spec

-----------------------------------------------------------------------------
(* The outbox implements MessageDelivery *)

Statuses == [m \in Messages |-> Status(m)]

\* What a message's status says of its row.
LEMMA StatusOfRow ==
  ASSUME NEW m \in Messages
  PROVE  /\ (Statuses[m] = "absent" <=> m \notin Enqueued)
         /\ (Statuses[m] = "published" <=> m \in Enqueued /\ m \in published)
         /\ (Statuses[m] = "dead" <=> m \in Enqueued \ published /\ attempts[m] >= MaxAttempts)
         /\ (Statuses[m] = "pending" <=> m \in Enqueued \ published /\ ~(attempts[m] >= MaxAttempts))
  BY DEF Statuses, Status, Dead

LEMMA InitImplements == Init => Promise!Init
  <1> SUFFICES ASSUME Init PROVE Promise!Init
    OBVIOUS
  <1>1. Enqueued = {}
    BY DEF Init, Enqueued
  <1>2. \A m \in Messages : Status(m) = "absent"
    BY <1>1 DEF Status, Dead
  <1> QED BY <1>2 DEF Init, Promise!Init

\* A step that changes no row's place among the published and the dead.
LEMMA SameStatus ==
  ASSUME Enqueued' = Enqueued, published' = published,
         \A m \in Messages : (attempts'[m] >= MaxAttempts <=> attempts[m] >= MaxAttempts)
  PROVE  Statuses' = Statuses
  BY DEF Statuses, Status, Dead

\* One message's status changes.
LEMMA OneStatus ==
  ASSUME NEW m \in Messages, NEW s, Status(m)' = s,
         \A n \in Messages \ {m} : /\ (n \in Enqueued)' = (n \in Enqueued)
                                  /\ (n \in published)' = (n \in published)
                                  /\ attempts'[n] = attempts[n]
  PROVE  Statuses' = [Statuses EXCEPT ![m] = s]
  <1>1. \A n \in Messages \ {m} : Status(n)' = Status(n)
    BY DEF Status, Dead
  <1> QED BY <1>1 DEF Statuses

LEMMA NextImplements == IInv /\ [Next]_vars => [Promise!Next]_(Promise!vars)
  <1> SUFFICES ASSUME IInv, [Next]_vars PROVE Promise!Next \/ UNCHANGED Promise!vars
    OBVIOUS
  <1>0. TypeOK /\ Batches /\ QueuedOnce /\ Accounts
    BY DEF IInv
  <1>q. queue' = queue => Enqueued' = Enqueued
    BY DEF Enqueued
  <1>v. Statuses' = Statuses /\ UNCHANGED <<delivered, failures>> => UNCHANGED Promise!vars
    BY DEF Promise!vars, Statuses
  <1>r. UNCHANGED rows => Statuses' = Statuses
    BY <1>q, SameStatus DEF rows
  <1>1. CASE Elsewhere
    <2>1. UNCHANGED <<queue, published, delivered, failures>>
      BY <1>1, ElsewhereStands DEF world
    <2>2. CASE ReplayDeadLetters
      <3>1. ASSUME NEW m \in Messages
            PROVE  Status(m)' = IF Status(m) = "dead" THEN "pending" ELSE Status(m)
        <4>1. attempts'[m] = (IF Dead(m) THEN 0 ELSE attempts[m])
          BY <2>2 DEF ReplayDeadLetters
        <4>2. Status(m) = "dead" <=> Dead(m)
          BY DEF Status, Dead
        <4> QED BY <1>q, <2>1, <4>1, <4>2, OutboxConstants DEF Status, Dead
      <3>2. Promise!Replay
        BY <2>1, <3>1 DEF Promise!Replay
      <3> QED BY <3>2 DEF Promise!Next
    <2>3. CASE attempts' = attempts
      BY <1>q, <1>v, <2>1, <2>3, SameStatus
    <2> QED BY <1>1, <2>2, <2>3 DEF Elsewhere, NightFalls, Clock, MorningComes, WaitEnds, vars, rows
  <1>2. ASSUME NEW m \in Messages, Enqueue(m) PROVE Promise!Next
    <2>1. /\ queue \in Seq(Messages) /\ queue' = Append(queue, m) /\ m \notin Enqueued
          /\ UNCHANGED <<published, attempts, delivered, failures>>
      BY <1>0, <1>2 DEF Enqueue, TypeOK, world
    <2>2. Enqueued' = Enqueued \cup {m}
      <3>1. /\ Len(queue) \in Nat /\ Len(queue') = Len(queue) + 1 /\ queue'[Len(queue) + 1] = m
            /\ \A i \in 1 .. Len(queue) : queue'[i] = queue[i]
        BY <2>1
      <3>2. \A i \in 1 .. Len(queue') : i \in 1 .. Len(queue) \/ i = Len(queue) + 1
        BY <3>1
      <3>3. Len(queue) + 1 \in 1 .. Len(queue') /\ \A i \in 1 .. Len(queue) : i \in 1 .. Len(queue')
        BY <3>1
      <3> QED BY <3>1, <3>2, <3>3 DEF Enqueued
    <2>3. m \notin published /\ attempts[m] = 0
      BY <1>0, <2>1 DEF TypeOK, Accounts, Account
    <2>4. Status(m)' = "pending" /\ Status(m) = "absent"
      BY <2>1, <2>2, <2>3, OutboxConstants DEF Status, Dead
    <2>5. Statuses' = [Statuses EXCEPT ![m] = "pending"]
      BY <2>1, <2>2, <2>4, OneStatus
    <2>6. Promise!Enqueue(m)
      BY <2>1, <2>4, <2>5 DEF Promise!Enqueue, Promise!Become, Statuses
    <2> QED BY <2>6 DEF Promise!Next
  <1>3. ASSUME NEW p \in Processes, TakeLock(p) \/ ReadPending(p) \/ RunAborted(p) \/ LockLost(p)
        PROVE  UNCHANGED Promise!vars
    BY <1>3, <1>r, <1>v DEF TakeLock, ReadPending, RunAborted, LockLost, world
  <1>4. ASSUME NEW p \in Processes, NEW m \in Messages, Sends(p, m)
        PROVE  Promise!Next \/ UNCHANGED Promise!vars
    <2>1. Current(p, m) /\ UNCHANGED rows
      BY <1>0, <1>4, SendsMoves
    <2>2. Statuses' = Statuses /\ Statuses[m] # "absent"
      <3>1. m \in Enqueued
        BY <1>0, <2>1 DEF Current, Batches
      <3> QED BY <2>1, <1>r, <3>1, StatusOfRow
    <2>3. \/ UNCHANGED <<delivered, failures>>
          \/ Reaches(m) /\ UNCHANGED failures
          \/ FailureSeen(m) /\ (UNCHANGED delivered \/ Reaches(m))
      BY <1>4 DEF Sends, Publish, PublishFails, Hold, AnswerLost, world
    <2>4. FailureSeen(m) => failures' = failures \/ failures' = [failures EXCEPT ![m] = @ + 1]
      BY <1>0 DEF FailureSeen, TypeOK
    <2>5. CASE UNCHANGED <<delivered, failures>>
      BY <1>v, <2>2, <2>5
    <2>6. CASE ~UNCHANGED <<delivered, failures>>
      <3>1. Promise!Deliver(m)
        BY <2>2, <2>3, <2>4, <2>6 DEF Promise!Deliver, Reaches, Statuses
      <3> QED BY <3>1 DEF Promise!Next
    <2> QED BY <2>5, <2>6
  <1>5. ASSUME NEW p \in Processes, NEW m \in Messages, Records(p, m)
        PROVE  Promise!Next \/ UNCHANGED Promise!vars
    <2>1. Current(p, m) /\ UNCHANGED <<queue, delivered, failures>>
      BY <1>0, <1>5, RecordsMoves DEF world
    <2>2. m \in Enqueued /\ Enqueued' = Enqueued /\ Account(m)
      BY <1>0, <1>q, <2>1 DEF Current, Batches, Accounts
    <2>3. CASE Published(p, m)
      <3>1. pc[p] = "sent" /\ published' = published \cup {m} /\ attempts' = attempts
        BY <2>3 DEF Published
      <3>2. CASE m \in published
        BY <1>v, <2>1, <2>2, <3>1, <3>2, SameStatus
      <3>3. CASE m \notin published
        <4>1. Status(m)' = "published" /\ Statuses[m] \in {"pending", "dead"}
          BY <2>2, <3>1, <3>3 DEF Status, Statuses, Dead
        <4>2. delivered[m] > 0
          BY <2>1, <2>2, <3>1 DEF Account
        <4>3. Statuses' = [Statuses EXCEPT ![m] = "published"]
          BY <2>2, <3>1, <4>1, OneStatus
        <4>4. Promise!Acknowledge(m)
          BY <2>1, <4>1, <4>2, <4>3 DEF Promise!Acknowledge, Promise!Become, Statuses
        <4> QED BY <4>4 DEF Promise!Next
      <3> QED BY <3>2, <3>3
    <2>4. CASE Failed(p, m)
      <3>1. pc[p] = "failed" /\ published' = published /\ attempts' = [attempts EXCEPT ![m] = @ + 1]
        BY <2>4 DEF Failed
      <3>2. attempts \in [Messages -> Nat] /\ failures[m] \in Nat
        BY <1>0, CeilingIsNat DEF TypeOK
      <3>3. attempts'[m] = attempts[m] + 1 /\ \A n \in Messages \ {m} : attempts'[n] = attempts[n]
        BY <3>1, <3>2
      <3>4. CASE m \notin published /\ attempts[m] < MaxAttempts /\ attempts[m] + 1 >= MaxAttempts
        <4>1. p \in Reporting(m) /\ Reporting(m) \in SUBSET Processes
          BY <2>1, <3>1 DEF Reporting
        <4>2. Cardinality({}) + 1 <= Cardinality(Reporting(m)) /\ Cardinality(Reporting(m)) \in Nat
          BY <4>1, OneLess, SubsetCount
        <4>3. Cardinality({}) = 0
          BY FS_EmptySet
        <4>4. failures[m] >= MaxAttempts
          BY <2>2, <3>2, <3>4, <4>2, <4>3, OutboxConstants DEF Account
        <4>5. Statuses[m] = "pending" /\ Status(m)' = "dead"
          BY <2>2, <3>1, <3>2, <3>3, <3>4, OutboxConstants DEF Status, Statuses, Dead
        <4>6. Statuses' = [Statuses EXCEPT ![m] = "dead"]
          BY <2>2, <3>1, <3>3, <4>5, OneStatus
        <4>7. Promise!GiveUp(m)
          BY <2>1, <4>4, <4>5, <4>6 DEF Promise!GiveUp, Promise!Become, Statuses
        <4> QED BY <4>7 DEF Promise!Next
      <3>5. CASE m \in published
        <4>1. Statuses' = Statuses
          <5>1. Status(m)' = Status(m)
            BY <2>2, <3>1, <3>5 DEF Status, Dead
          <5>2. \A n \in Messages \ {m} : Status(n)' = Status(n)
            BY <2>2, <3>1, <3>3 DEF Status, Dead
          <5> QED BY <5>1, <5>2 DEF Statuses
        <4> QED BY <1>v, <2>1, <4>1
      <3>6. CASE ~(attempts[m] < MaxAttempts /\ attempts[m] + 1 >= MaxAttempts)
        <4>1. \A n \in Messages : (attempts'[n] >= MaxAttempts <=> attempts[n] >= MaxAttempts)
          BY <3>2, <3>3, <3>6, OutboxConstants
        <4> QED BY <1>v, <2>1, <2>2, <3>1, <4>1, SameStatus
      <3> QED BY <3>4, <3>5, <3>6
    <2>5. CASE Defer(p, m) \/ NotRecorded(p, m)
      <3>1. published' = published /\ attempts' = attempts
        BY <2>5 DEF Defer, NotRecorded, rows
      <3> QED BY <1>v, <2>1, <2>2, <3>1, SameStatus
    <2> QED BY <1>5, <2>3, <2>4, <2>5 DEF Records
  <1> QED BY <1>1, <1>2, <1>3, <1>4, <1>5, StepKinds

\* The outbox implements MessageDelivery: whatever the dispatchers do, a message
\* is marked published only after Telegram got it, and given up on only after
\* MaxAttempts failures (OutboxDispatcher.Dispatch, outbox.go).
THEOREM ImplementsMessageDelivery == Spec => Delivery
  BY InitIInv, NextIInv, InitImplements, NextImplements, PTL DEF Spec, Delivery, Promise!Spec
=============================================================================
