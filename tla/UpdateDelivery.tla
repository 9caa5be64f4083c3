---------------------------- MODULE UpdateDelivery ----------------------------
(***************************************************************************)
(* Telegram's webhook and the ledger of processed updates.                  *)
(*                                                                         *)
(* Telegram delivers an update until it is answered with a 2xx status. Each  *)
(* delivery is a goroutine of its own (WebhookHandler.ServeHTTP): it claims   *)
(* the update in processed_telegram_update, dispatches it, and un-claims it  *)
(* when the dispatch failed. The request's context dies with the connection, *)
(* and every statement of the delivery runs under that context.              *)
(*                                                                         *)
(* Left out: the secret check, what an update says and what its dispatch      *)
(* does; the ledger's retention, which starts long after Telegram's retries. *)
(***************************************************************************)
EXTENDS Naturals

CONSTANTS Updates,        \* the updates Telegram has for the bot
          MaxDeliveries,  \* how often Telegram delivers one update
          MaxFaults       \* how many statements fail, connections drop or processes die

ASSUME DeliveryConstants == MaxDeliveries \in Nat /\ MaxFaults \in Nat

VARIABLES
    deliveries,  \* how often Telegram has delivered each update
    waiting,     \* the updates whose last delivery Telegram still waits on
    acked,       \* the updates Telegram will not deliver again
    claims,      \* processed_telegram_update
    at,          \* where each delivery stands, and how it ended
    cut,         \* the updates a fault other than their dispatch's has touched
    faults

vars == <<deliveries, waiting, acked, claims, at, cut, faults>>

Tries == 1 .. MaxDeliveries
Working == {"received", "claimed", "failed"}
Ended == {"done", "throttled", "skipped", "refused", "rejected", "died"}

TypeOK ==
    /\ deliveries \in [Updates -> 0 .. MaxDeliveries]
    /\ waiting \subseteq Updates
    /\ acked \subseteq Updates \ waiting
    /\ claims \subseteq Updates
    /\ at \in [Updates -> [Tries -> {"none"} \cup Working \cup Ended]]
    /\ cut \subseteq Updates
    /\ faults \in 0 .. MaxFaults

Init ==
    /\ deliveries = [u \in Updates |-> 0]
    /\ waiting = {}
    /\ acked = {}
    /\ claims = {}
    /\ at = [u \in Updates |-> [n \in Tries |-> "none"]]
    /\ cut = {}
    /\ faults = 0

Fault == faults < MaxFaults /\ faults' = faults + 1

-----------------------------------------------------------------------------
(* Telegram *)

Deliver(u) ==
    /\ u \notin acked \cup waiting
    /\ deliveries[u] < MaxDeliveries
    /\ deliveries' = [deliveries EXCEPT ![u] = @ + 1]
    /\ waiting' = waiting \cup {u}
    /\ at' = [at EXCEPT ![u][deliveries[u] + 1] = "received"]
    /\ UNCHANGED <<acked, claims, cut, faults>>

\* Telegram stops waiting; the goroutine runs on under a dying context.
Disconnect(u) ==
    /\ u \in waiting
    /\ Fault
    /\ waiting' = waiting \ {u}
    /\ cut' = cut \cup {u}
    /\ UNCHANGED <<deliveries, acked, claims, at>>

\* Telegram is still waiting on the n-th delivery of u.
Connected(u, n) == u \in waiting /\ n = deliveries[u]

\* The delivery ends; Telegram hears of it if it still listens, and a 2xx
\* answer is the last one it needs.
Respond(u, n, ending, ok) ==
    /\ at' = [at EXCEPT ![u][n] = ending]
    /\ waiting' = IF Connected(u, n) THEN waiting \ {u} ELSE waiting
    /\ acked' = IF Connected(u, n) /\ ok THEN acked \cup {u} ELSE acked
    /\ UNCHANGED deliveries

\* A statement fails because the database does, or because the context the
\* connection took with it is cancelled.
StatementFails(u, n) ==
    IF Connected(u, n) THEN Fault /\ cut' = cut \cup {u}
                       ELSE UNCHANGED <<cut, faults>>

-----------------------------------------------------------------------------
(* UpdateHandler.Handle *)

\* Mutant of Claim: the conflict is not taken for a duplicate.
Claim_always(u, n) ==
    /\ at[u][n] = "received"
    /\ claims' = claims \cup {u}
    /\ at' = [at EXCEPT ![u][n] = "claimed"]
    /\ UNCHANGED <<deliveries, waiting, acked, cut, faults>>

\* INSERT ... ON CONFLICT DO NOTHING inserted the row.
Claim(u, n) ==
    /\ at[u][n] = "received"
    /\ u \notin claims
    /\ claims' = claims \cup {u}
    /\ at' = [at EXCEPT ![u][n] = "claimed"]
    /\ UNCHANGED <<deliveries, waiting, acked, cut, faults>>

SkipDuplicate(u, n) ==
    /\ at[u][n] = "received"
    /\ u \in claims
    /\ Respond(u, n, "skipped", TRUE)
    /\ UNCHANGED <<claims, cut, faults>>

\* The insert is reported as failed; it may have been committed.
ClaimFails(u, n) ==
    /\ at[u][n] = "received"
    /\ StatementFails(u, n)
    /\ claims' \in {claims, claims \cup {u}}
    /\ Respond(u, n, "refused", FALSE)

\* InboundLimiter.Allow refuses: the update is dropped, its claim stays.
Throttle(u, n) ==
    /\ at[u][n] = "claimed"
    /\ Respond(u, n, "throttled", TRUE)
    /\ UNCHANGED <<claims, cut, faults>>

\* Mutant of Dispatch: the claim is given up on success too.
Dispatch_released(u, n) ==
    /\ at[u][n] = "claimed"
    /\ claims' = claims \ {u}
    /\ Respond(u, n, "done", TRUE)
    /\ UNCHANGED <<cut, faults>>

Dispatch(u, n) ==
    /\ at[u][n] = "claimed"
    /\ Respond(u, n, "done", TRUE)
    /\ UNCHANGED <<claims, cut, faults>>

\* An unexpected failure, or the cancelled context's.
DispatchFails(u, n) ==
    /\ at[u][n] = "claimed"
    /\ IF Connected(u, n) THEN Fault ELSE UNCHANGED faults
    /\ at' = [at EXCEPT ![u][n] = "failed"]
    /\ UNCHANGED <<deliveries, waiting, acked, claims, cut>>

\* Mutant of Release: the claim is kept.
Release_keeps(u, n) ==
    /\ at[u][n] = "failed"
    /\ Respond(u, n, "rejected", FALSE)
    /\ UNCHANGED <<claims, cut, faults>>

\* Mutant of Release: it waits for the request's context to end.
Release_late(u, n) ==
    /\ at[u][n] = "failed"
    /\ ~Connected(u, n)
    /\ claims' = claims \ {u}
    /\ Respond(u, n, "rejected", FALSE)
    /\ UNCHANGED <<cut, faults>>

Release(u, n) ==
    /\ at[u][n] = "failed"
    /\ claims' = claims \ {u}
    /\ Respond(u, n, "rejected", FALSE)
    /\ UNCHANGED <<cut, faults>>

\* The un-claim runs under the same context; its error is dropped.
ReleaseFails(u, n) ==
    /\ at[u][n] = "failed"
    /\ StatementFails(u, n)
    /\ Respond(u, n, "rejected", FALSE)
    /\ UNCHANGED claims

\* The process dies with every delivery in it, and restarts.
Crash ==
    /\ Fault
    /\ at' = [u \in Updates |-> [n \in Tries |-> IF at[u][n] \in Working THEN "died" ELSE at[u][n]]]
    /\ cut' = cut \cup {u \in Updates : \E n \in Tries : at[u][n] \in Working}
    /\ waiting' = {}
    /\ UNCHANGED <<deliveries, acked, claims>>

-----------------------------------------------------------------------------

Telegram(u) == Deliver(u) \/ Disconnect(u)

Handle(u, n) ==
    \/ Claim(u, n) \/ SkipDuplicate(u, n)
    \/ Throttle(u, n) \/ Dispatch(u, n)
    \/ Release(u, n)

Fails(u, n) == ClaimFails(u, n) \/ DispatchFails(u, n) \/ ReleaseFails(u, n)

Next ==
    \/ \E u \in Updates : Telegram(u) \/ \E n \in Tries : Handle(u, n) \/ Fails(u, n)
    \/ Crash

\* Telegram keeps delivering what is not acknowledged; a goroutine runs on.
Fairness == \A u \in Updates : WF_vars(Deliver(u)) /\ \A n \in Tries : WF_vars(Handle(u, n))

Spec == Init /\ [][Next]_vars
FairSpec == Spec /\ Fairness

-----------------------------------------------------------------------------
(* Properties *)

Holds(u, n) == at[u][n] \in {"claimed", "failed"}

\* Redelivered while an earlier delivery still runs, an update is never
\* dispatched by two goroutines at once (Claim, postgres/idempotency.go).
OneHandlerAtATime ==
    \A u \in Updates : \A m, n \in Tries : Holds(u, m) /\ Holds(u, n) => m = n

\* An update is carried through at most once, and not again after it was
\* throttled, whatever was redelivered, un-claimed or cut short meanwhile.
HandledAtMostOnce ==
    \A u \in Updates : \A m, n \in Tries :
        at[u][m] \in {"done", "throttled"} /\ at[u][n] \in {"done", "throttled"} => m = n

Idle(u) == \A n \in Tries : at[u][n] \notin Working
Settled(u) == \E n \in Tries : at[u][n] \in {"done", "throttled"}

\* When Telegram stops delivering an update, or the ledger blocks it, the update
\* was settled or a connection, statement or process failed around it: a failed
\* dispatch alone loses nothing (UpdateHandler.Handle).
OnlyCutUpdatesAreLost ==
    \A u \in Updates : Idle(u) /\ u \in acked \cup claims => Settled(u) \/ u \in cut

\* As long as only dispatches fail, every update is carried through or throttled
\* in the end: the un-claim lets the redelivery in.
UpdatesAreSettled == \A u \in Updates : <>(Settled(u) \/ u \in cut)
=============================================================================
