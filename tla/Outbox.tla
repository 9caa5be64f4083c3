--------------------------------- MODULE Outbox ---------------------------------
(***************************************************************************)
(* The transactional outbox and its dispatcher.                             *)
(*                                                                         *)
(* A message is a row of outbox_event, inserted with the domain write it     *)
(* announces. Each process runs a dispatcher; they take turns by a session   *)
(* lock of the database, read a batch of due rows, and for each row publish,  *)
(* then record how it went: two steps, because Telegram takes no part in the *)
(* transaction. A failed message backs off and is given up on after           *)
(* MaxAttempts; one addressed to a chat in its quiet hours is put off.        *)
(*                                                                         *)
(* Left out: payloads, which publisher serves which type, the exact backoff    *)
(* (a wait ends some time), and retention, which deletes published rows only.  *)
(***************************************************************************)
EXTENDS Naturals, Sequences, FiniteSets

CONSTANTS Messages,
          Quietable,    \* those published through WithQuietHours
          Unsupported,  \* those no publisher supports
          Processes,    \* the bot's processes (two while a deployment rolls over)
          NoProcess,
          MaxAttempts,  \* common.OutboxMaxAttempts
          BatchSize,
          MaxNights,    \* how often the chat's quiet hours begin
          MaxReplays,   \* how often the operator replays the dead letters
          MaxFaults     \* how many statements fail, locks vanish or processes die

ASSUME OutboxConstants ==
    /\ IsFiniteSet(Messages) /\ IsFiniteSet(Processes)
    /\ NoProcess \notin Processes
    /\ MaxAttempts \in Nat \ {0} /\ BatchSize \in Nat \ {0}
    /\ MaxNights \in Nat /\ MaxReplays \in Nat /\ MaxFaults \in Nat

VARIABLES
    queue,      \* the messages enqueued, in the order of occurred_at
    published,  \* published_at IS NOT NULL
    attempts,   \* the attempts column
    wait,       \* why next_attempt_at lies ahead
    delivered,  \* how often Telegram got the message
    failures,   \* how often publishing it failed (capped at MostAttempts)
    quiet,      \* the chat is in its quiet hours
    holder,     \* who holds the lock cs2predictor:outbox
    pc,         \* where each dispatcher stands
    batch,      \* what its run has yet to handle
    nights, replays, faults

rows == <<queue, published, attempts, wait>>
world == <<delivered, failures>>
bounds == <<nights, replays>>
vars == <<queue, published, attempts, wait, delivered, failures, quiet, holder, pc, batch, nights, replays, faults>>

Enqueued == {queue[i] : i \in 1 .. Len(queue)}

\* Two dispatchers at once may each count a failure of the last attempt.
MostAttempts == MaxAttempts + Cardinality(Processes) - 1

TypeOK ==
    /\ queue \in Seq(Messages)
    /\ published \subseteq Enqueued
    /\ attempts \in [Messages -> 0 .. MostAttempts]
    /\ wait \in [Messages -> {"no", "backoff", "quiet"}]
    /\ delivered \in [Messages -> Nat]
    /\ failures \in [Messages -> 0 .. MostAttempts]
    /\ quiet \in BOOLEAN
    /\ holder \in Processes \cup {NoProcess}
    /\ pc \in [Processes -> {"idle", "locked", "publish", "sent", "failed", "held"}]
    /\ batch \in [Processes -> SUBSET Messages]
    /\ nights \in 0 .. MaxNights /\ replays \in 0 .. MaxReplays /\ faults \in 0 .. MaxFaults

Init ==
    /\ queue = <<>>
    /\ published = {}
    /\ attempts = [m \in Messages |-> 0]
    /\ wait = [m \in Messages |-> "no"]
    /\ delivered = [m \in Messages |-> 0]
    /\ failures = [m \in Messages |-> 0]
    /\ quiet = FALSE
    /\ holder = NoProcess
    /\ pc = [p \in Processes |-> "idle"]
    /\ batch = [p \in Processes |-> {}]
    /\ nights = 0 /\ replays = 0 /\ faults = 0

Fault == faults < MaxFaults /\ faults' = faults + 1

-----------------------------------------------------------------------------
(* The callers, the operator and the clock *)

Enqueue(m) ==
    /\ m \notin Enqueued
    /\ queue' = Append(queue, m)
    /\ UNCHANGED <<published, attempts, wait, world, quiet, holder, pc, batch, bounds, faults>>

Dead(m) == m \in Enqueued \ published /\ attempts[m] >= MaxAttempts

ReplayDeadLetters ==
    /\ replays < MaxReplays
    /\ \E m \in Messages : Dead(m)
    /\ replays' = replays + 1
    /\ attempts' = [m \in Messages |-> IF Dead(m) THEN 0 ELSE attempts[m]]
    /\ wait' = [m \in Messages |-> IF Dead(m) THEN "no" ELSE wait[m]]
    /\ UNCHANGED <<queue, published, world, quiet, holder, pc, batch, nights, faults>>

NightFalls ==
    /\ ~quiet
    /\ nights < MaxNights
    /\ quiet' = TRUE
    /\ nights' = nights + 1
    /\ UNCHANGED <<rows, world, holder, pc, batch, replays, faults>>

MorningComes ==
    /\ quiet
    /\ quiet' = FALSE
    /\ UNCHANGED <<rows, world, holder, pc, batch, bounds, faults>>

\* next_attempt_at is reached; a message put off waits for the window's end.
WaitEnds(m) ==
    /\ wait[m] = "backoff" \/ (wait[m] = "quiet" /\ ~quiet)
    /\ wait' = [wait EXCEPT ![m] = "no"]
    /\ UNCHANGED <<queue, published, attempts, world, quiet, holder, pc, batch, bounds, faults>>

-----------------------------------------------------------------------------
(* OutboxDispatcher.Dispatch, under ClusterLock.Execute *)

\* Mutant of TakeLock: the answer of pg_try_advisory_lock is not looked at.
TakeLock_always(p) ==
    /\ pc[p] = "idle"
    /\ holder' = p
    /\ pc' = [pc EXCEPT ![p] = "locked"]
    /\ UNCHANGED <<rows, world, quiet, batch, bounds, faults>>

\* pg_try_advisory_lock: whoever does not get it skips this run.
TakeLock(p) ==
    /\ pc[p] = "idle"
    /\ holder = NoProcess
    /\ holder' = p
    /\ pc' = [pc EXCEPT ![p] = "locked"]
    /\ UNCHANGED <<rows, world, quiet, batch, bounds, faults>>

Before(m, n) == \E i, j \in 1 .. Len(queue) : i < j /\ queue[i] = m /\ queue[j] = n

\* The oldest messages that may be tried now.
Pending ==
    LET ready == {m \in Enqueued \ published : attempts[m] < MaxAttempts /\ wait[m] = "no"}
    IN  {m \in ready : Cardinality({n \in ready : Before(n, m)}) < BatchSize}

\* The message a dispatcher is at: its batch is handled oldest first.
Current(p, m) == m \in batch[p] /\ \A n \in batch[p] \ {m} : Before(m, n)

Release(p) == holder' = IF holder = p THEN NoProcess ELSE holder

\* The run goes on with the rest of its batch, or is over.
Continue(p, rest) ==
    /\ batch' = [batch EXCEPT ![p] = rest]
    /\ pc' = [pc EXCEPT ![p] = IF rest = {} THEN "idle" ELSE "publish"]
    /\ IF rest = {} THEN Release(p) ELSE UNCHANGED holder

ReadPending(p) ==
    /\ pc[p] = "locked"
    /\ Continue(p, Pending)
    /\ UNCHANGED <<rows, world, quiet, bounds, faults>>

At(p, m) == pc[p] = "publish" /\ Current(p, m)
Goto(p, label) == pc' = [pc EXCEPT ![p] = label]

FailureSeen(m) == failures' = [failures EXCEPT ![m] = IF @ < MostAttempts THEN @ + 1 ELSE @]
Reaches(m) == delivered' = [delivered EXCEPT ![m] = @ + 1]

\* The quiet hours of a chat that cannot be looked up are not kept.
MayPublish(m) ==
    /\ m \notin Unsupported
    /\ IF quiet /\ m \in Quietable THEN Fault ELSE UNCHANGED faults

Publish(p, m) ==
    /\ At(p, m)
    /\ MayPublish(m)
    /\ Reaches(m)
    /\ Goto(p, "sent")
    /\ UNCHANGED <<rows, failures, quiet, holder, batch, bounds>>

\* Telegram rejects the message, or no publisher takes it.
PublishFails(p, m) ==
    /\ At(p, m)
    /\ m \in Unsupported \/ ~(quiet /\ m \in Quietable)
    /\ FailureSeen(m)
    /\ Goto(p, "failed")
    /\ UNCHANGED <<rows, delivered, quiet, holder, batch, bounds, faults>>

\* Telegram takes the message, and the answer is lost.
AnswerLost(p, m) ==
    /\ At(p, m)
    /\ m \notin Unsupported
    /\ ~(quiet /\ m \in Quietable)
    /\ Fault
    /\ Reaches(m)
    /\ FailureSeen(m)
    /\ Goto(p, "failed")
    /\ UNCHANGED <<rows, quiet, holder, batch, bounds>>

\* Mutant of Hold: "not now" is counted as a failure.
Hold_counted(p, m) ==
    /\ At(p, m)
    /\ quiet /\ m \in Quietable \ Unsupported
    /\ Goto(p, "failed")
    /\ UNCHANGED <<rows, world, quiet, holder, batch, bounds, faults>>

\* quietHoursPublisher.Publish returns a DeferredError.
Hold(p, m) ==
    /\ At(p, m)
    /\ quiet /\ m \in Quietable \ Unsupported
    /\ Goto(p, "held")
    /\ UNCHANGED <<rows, world, quiet, holder, batch, bounds, faults>>

Published(p, m) ==
    /\ pc[p] = "sent" /\ Current(p, m)
    /\ published' = published \cup {m}
    /\ Continue(p, batch[p] \ {m})
    /\ UNCHANGED <<queue, attempts, wait, world, quiet, bounds, faults>>

\* Mutant of Failed: the message is tried again without being counted.
Failed_uncounted(p, m) ==
    /\ pc[p] = "failed" /\ Current(p, m)
    /\ wait' = [wait EXCEPT ![m] = "backoff"]
    /\ Continue(p, batch[p] \ {m})
    /\ UNCHANGED <<queue, published, attempts, world, quiet, bounds, faults>>

Failed(p, m) ==
    /\ pc[p] = "failed" /\ Current(p, m)
    /\ attempts' = [attempts EXCEPT ![m] = @ + 1]
    /\ wait' = [wait EXCEPT ![m] = "backoff"]
    /\ Continue(p, batch[p] \ {m})
    /\ UNCHANGED <<queue, published, world, quiet, bounds, faults>>

Defer(p, m) ==
    /\ pc[p] = "held" /\ Current(p, m)
    /\ wait' = [wait EXCEPT ![m] = IF quiet THEN "quiet" ELSE "no"]
    /\ Continue(p, batch[p] \ {m})
    /\ UNCHANGED <<queue, published, attempts, world, quiet, bounds, faults>>

\* Whichever of the three statements it was, its error is logged or dropped.
NotRecorded(p, m) ==
    /\ pc[p] \in {"sent", "failed", "held"} /\ Current(p, m)
    /\ Fault
    /\ Continue(p, batch[p] \ {m})
    /\ UNCHANGED <<rows, world, quiet, bounds>>

\* The process dies, its deadline expires, or reading the batch fails.
RunAborted(p) ==
    /\ pc[p] # "idle"
    /\ Fault
    /\ Continue(p, {})
    /\ UNCHANGED <<rows, world, quiet, bounds>>

\* The lock's session ends under a running dispatcher, which does not notice.
LockLost(p) ==
    /\ holder = p
    /\ Fault
    /\ holder' = NoProcess
    /\ UNCHANGED <<rows, world, quiet, pc, batch, bounds>>

-----------------------------------------------------------------------------

DispatchOne(p, m) ==
    \/ Publish(p, m) \/ PublishFails(p, m) \/ Hold(p, m)
    \/ Published(p, m) \/ Failed(p, m) \/ Defer(p, m)

Dispatch(p) == TakeLock(p) \/ ReadPending(p) \/ \E m \in Messages : DispatchOne(p, m)

Interrupted(p) ==
    \/ RunAborted(p) \/ LockLost(p)
    \/ \E m \in Messages : NotRecorded(p, m) \/ AnswerLost(p, m)

Clock == MorningComes \/ \E m \in Messages : WaitEnds(m)

Next ==
    \/ \E m \in Messages : Enqueue(m)
    \/ ReplayDeadLetters \/ NightFalls \/ Clock
    \/ \E p \in Processes : Dispatch(p) \/ Interrupted(p)

\* Each process keeps dispatching, and time passes; which of them gets the
\* lock does not matter.
Fairness ==
    /\ \A p \in Processes : WF_vars(Dispatch(p))
    /\ WF_vars(MorningComes)
    /\ \A m \in Messages : WF_vars(WaitEnds(m))

Spec == Init /\ [][Next]_vars
FairSpec == Spec /\ Fairness

-----------------------------------------------------------------------------
(* Properties *)

Status(m) ==
    CASE m \notin Enqueued             -> "absent"
      [] m \in Enqueued \cap published -> "published"
      [] Dead(m)                       -> "dead"
      [] OTHER                         -> "pending"

Promise == INSTANCE MessageDelivery WITH status <- [m \in Messages |-> Status(m)], Enough <- MaxAttempts

\* The outbox implements MessageDelivery: no message is lost, resurrected once
\* published, or marked published without having reached Telegram, whoever
\* dispatches and whatever fails; and only failed publishing spends the retry
\* budget: no night, however long ("not now" is not a failure,
\* app/outbox_dispatcher.go).
Delivery == Promise!Spec

\* Every duplicate has a fault of its own behind it: a lost answer, a statement
\* that failed, a run cut short or a lock that vanished. Without faults delivery
\* is exactly once, with two processes as with one.
DuplicatesNeedFaults == \A m \in Messages : delivered[m] <= 1 + faults

\* Every message is published or given up on: none is put off for ever, or
\* starved behind others that keep failing at the head of the queue.
EveryMessageEnds == \A m \in Messages : m \in Enqueued ~> m \in published \/ Dead(m)
=============================================================================
