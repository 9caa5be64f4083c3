---------------------------- MODULE MessageDelivery ----------------------------
(***************************************************************************)
(* What the outbox promises its callers: a message enqueued with a domain    *)
(* write is delivered at least once, and is never marked published before    *)
(* that; or, after enough failures and for no other reason, it is given up   *)
(* on and waits for an operator to ask for it again.                        *)
(***************************************************************************)
EXTENDS Naturals

CONSTANTS Messages,
          Enough      \* how many failures it takes to be given up on

VARIABLES status,     \* where each message stands
          delivered,  \* how often it reached Telegram
          failures    \* how often delivering it failed

vars == <<status, delivered, failures>>

TypeOK ==
    /\ status \in [Messages -> {"absent", "pending", "published", "dead"}]
    /\ delivered \in [Messages -> Nat]
    /\ failures \in [Messages -> Nat]

Init ==
    /\ status = [m \in Messages |-> "absent"]
    /\ delivered = [m \in Messages |-> 0]
    /\ failures = [m \in Messages |-> 0]

Become(m, s) == status' = [status EXCEPT ![m] = s]

Enqueue(m) == status[m] = "absent" /\ Become(m, "pending") /\ UNCHANGED <<delivered, failures>>

\* A delivery already under way is not called back by the message's being
\* published, or given up on, in the meantime. One that failed may have arrived.
Deliver(m) ==
    /\ status[m] # "absent"
    /\ \/ delivered' = [delivered EXCEPT ![m] = @ + 1] /\ UNCHANGED failures
       \/ /\ failures' = [failures EXCEPT ![m] = @ + 1]
          /\ delivered' \in {delivered, [delivered EXCEPT ![m] = @ + 1]}
    /\ UNCHANGED status

Acknowledge(m) ==
    /\ status[m] \in {"pending", "dead"}
    /\ delivered[m] > 0
    /\ Become(m, "published")
    /\ UNCHANGED <<delivered, failures>>

GiveUp(m) ==
    /\ status[m] = "pending"
    /\ failures[m] >= Enough
    /\ Become(m, "dead")
    /\ UNCHANGED <<delivered, failures>>

\* All dead letters at once.
Replay ==
    /\ status' = [m \in Messages |-> IF status[m] = "dead" THEN "pending" ELSE status[m]]
    /\ UNCHANGED <<delivered, failures>>

Next == Replay \/ \E m \in Messages : Enqueue(m) \/ Deliver(m) \/ Acknowledge(m) \/ GiveUp(m)

Spec == Init /\ [][Next]_vars
=============================================================================
