----------------------------- MODULE ProviderHealth -----------------------------
(***************************************************************************)
(* Who is down: the circuit breakers of the match data providers, the failure *)
(* counters of the enrichment feeds, and the alerts both send.                *)
(*                                                                         *)
(* CompetitionProviderGateway is called by two jobs at once. A call tries the *)
(* preferred provider, then the others in order, and skips those whose        *)
(* circuit is open. What a call found out is recorded under a mutex, in       *)
(* memory; the alert it may owe is enqueued after the mutex is released.      *)
(* ObservedSyncState wraps a row per feed: it reads the failure counter,      *)
(* writes it, and owes an alert if what it read says the line was crossed.    *)
(*                                                                         *)
(* Left out: metrics, what was fetched, the text of an error, Health's grace  *)
(* period, and administrators who muted an alert.                             *)
(***************************************************************************)
EXTENDS Integers, Sequences, FiniteSets

CONSTANTS Providers, Feeds,
          Order,       \* the configured order of the providers
          Callers,     \* the jobs that call the gateway
          Syncs,       \* the enrichment jobs
          FeedOf,      \* the feed each of them fetches
          Threshold,   \* consecutive failures that count as down
          MaxStreak,   \* failures are counted up to here: the delay has reached its cap
          BaseDelay, MaxDelay,
          MaxChanges,  \* how often a provider or feed breaks or comes back
          MaxFaults    \* how many statements fail or processes restart

Sources == Providers \cup Feeds

ASSUME HealthConstants ==
    /\ Providers \cap Feeds = {}
    /\ Order \in Seq(Providers)
    /\ \A i, k \in 1 .. Len(Order) : Order[i] = Order[k] => i = k    \* each is named once
    /\ IsFiniteSet(Callers) /\ IsFiniteSet(Syncs) /\ Callers \cap Syncs = {}
    /\ FeedOf \in [Syncs -> Feeds]
    /\ Threshold \in Nat \ {0} /\ MaxStreak \in Nat /\ MaxStreak >= Threshold
    /\ BaseDelay \in Nat \ {0} /\ MaxDelay \in Nat \ {0}
    /\ MaxChanges \in Nat /\ MaxFaults \in Nat

VARIABLES
    works,    \* whether each source answers
    changes,
    streak,   \* failureStreak, and provider_sync_state.consecutive_failures
    opened,   \* the providers with an entry in circuitOpenUntil
    wait,     \* how long each circuit stays open
    at,       \* where each job stands
    queue,    \* the providers each caller has yet to try, the one in hand first
    before,   \* the failure counter each sync read
    told,     \* per source: alerts that it is down, less those that it is back
    cut,      \* the sources a fault has touched
    faults

circuits == <<opened, wait>>
world == <<works, changes>>
vars == <<works, changes, streak, opened, wait, at, queue, before, told, cut, faults>>

Jobs == Callers \cup Syncs
Unknown == MaxStreak + 1    \* the counter could not be read

TypeOK ==
    /\ works \in [Sources -> BOOLEAN]
    /\ changes \in 0 .. MaxChanges
    /\ streak \in [Sources -> 0 .. MaxStreak]
    /\ opened \subseteq Providers
    /\ wait \in [Providers -> 0 .. MaxDelay]
    /\ at \in [Jobs -> {"idle", "try", "call", "good", "bad", "up", "down"}]
    /\ queue \in [Callers -> Seq(Providers)]
    /\ before \in [Syncs -> 0 .. Unknown]
    /\ told \in [Sources -> Int]
    /\ cut \subseteq Sources
    /\ faults \in 0 .. MaxFaults

Init ==
    /\ works = [s \in Sources |-> TRUE]
    /\ changes = 0
    /\ streak = [s \in Sources |-> 0]
    /\ opened = {}
    /\ wait = [p \in Providers |-> 0]
    /\ at = [j \in Jobs |-> "idle"]
    /\ queue = [j \in Callers |-> <<>>]
    /\ before = [f \in Syncs |-> Unknown]
    /\ told = [s \in Sources |-> 0]
    /\ cut = {}
    /\ faults = 0

Fault == faults < MaxFaults /\ faults' = faults + 1

Go(j, stage) == at' = [at EXCEPT ![j] = stage]

\* One more consecutive failure.
Count(n) == IF n < MaxStreak THEN n + 1 ELSE n

-----------------------------------------------------------------------------
(* The world outside *)

\* A source breaks or comes back.
Change(s) ==
    /\ changes < MaxChanges
    /\ changes' = changes + 1
    /\ works' = [works EXCEPT ![s] = ~@]
    /\ UNCHANGED <<streak, circuits, at, queue, before, told, cut, faults>>

Tick ==
    /\ \E p \in Providers : wait[p] > 0
    /\ wait' = [p \in Providers |-> IF wait[p] > 0 THEN wait[p] - 1 ELSE 0]
    /\ UNCHANGED <<world, streak, opened, at, queue, before, told, cut, faults>>

-----------------------------------------------------------------------------
(* CompetitionProviderGateway *)

\* The order to try the providers in: the preferred one first, then the others
\* as configured; UpcomingEvents prefers none of them.
OrderedProviders(preferred) ==
    IF \E i \in 1 .. Len(Order) : Order[i] \in preferred
    THEN LET i == CHOOSE k \in 1 .. Len(Order) : Order[k] \in preferred
         IN  <<Order[i]>> \o SubSeq(Order, 1, i - 1) \o SubSeq(Order, i + 1, Len(Order))
    ELSE IF preferred = {} THEN Order ELSE <<CHOOSE p \in preferred : TRUE>> \o Order

Execute(j, preferred) ==
    /\ at[j] = "idle"
    /\ queue' = [queue EXCEPT ![j] = OrderedProviders(preferred)]
    /\ Go(j, "try")
    /\ UNCHANGED <<world, streak, circuits, before, told, cut, faults>>

InHand(j) == Head(queue[j])

\* Mutant of CircuitOpen: the delay is never over.
CircuitOpen_forever(p) == p \in opened

CircuitOpen(p) == p \in opened /\ wait[p] > 0

Skip(j) ==
    /\ at[j] = "try"
    /\ queue[j] # <<>>
    /\ CircuitOpen(InHand(j))
    /\ queue' = [queue EXCEPT ![j] = Tail(@)]
    /\ UNCHANGED <<world, streak, circuits, at, before, told, cut, faults>>

Call(j) ==
    /\ at[j] = "try"
    /\ queue[j] # <<>>
    /\ ~CircuitOpen(InHand(j))
    /\ Go(j, "call")
    /\ UNCHANGED <<world, streak, circuits, queue, before, told, cut, faults>>

\* The provider answers, or not; what it did is recorded later.
Answer(j) ==
    /\ at[j] = "call"
    /\ Go(j, IF works[InHand(j)] THEN "good" ELSE "bad")
    /\ UNCHANGED <<world, streak, circuits, queue, before, told, cut, faults>>

\* No provider is left: ErrProvidersUnavailable.
AllFailed(j) ==
    /\ at[j] = "try"
    /\ queue[j] = <<>>
    /\ Go(j, "idle")
    /\ UNCHANGED <<world, streak, circuits, queue, before, told, cut, faults>>

RecordSuccess(j) ==
    LET p == InHand(j)
    IN  /\ at[j] = "good"
        /\ streak' = [streak EXCEPT ![p] = 0]
        /\ opened' = opened \ {p}
        /\ wait' = [wait EXCEPT ![p] = 0]
        /\ Go(j, IF p \in opened THEN "up" ELSE "idle")
        /\ UNCHANGED <<world, queue, before, told, cut, faults>>

\* How long the circuit opens after that many failures.
Delay(failures) ==
    LET doubled == BaseDelay * 2 ^ (failures - Threshold)
    IN  IF doubled \in 1 .. MaxDelay THEN doubled ELSE MaxDelay

\* The next provider is tried.
TryNext(j) == queue' = [queue EXCEPT ![j] = Tail(@)] /\ Go(j, "try")

\* Mutant of Opens: a circuit that opens again is a new outage.
Opens_again(p) == Count(streak[p]) >= Threshold

\* This failure opens a circuit that was closed.
Opens(p) == Count(streak[p]) >= Threshold /\ p \notin opened

RecordFailure(j) ==
    LET p == InHand(j)
        failures == Count(streak[p])
    IN  /\ at[j] = "bad"
        /\ streak' = [streak EXCEPT ![p] = failures]
        /\ IF failures >= Threshold
           THEN /\ opened' = opened \cup {p}
                /\ wait' = [wait EXCEPT ![p] = Delay(failures)]
           ELSE UNCHANGED circuits
        /\ IF Opens(p) THEN Go(j, "down") /\ UNCHANGED queue ELSE TryNext(j)
        /\ UNCHANGED <<world, before, told, cut, faults>>

ProviderRecovered(j) ==
    /\ at[j] = "up"
    /\ told' = [told EXCEPT ![InHand(j)] = @ - 1]
    /\ Go(j, "idle")
    /\ UNCHANGED <<world, streak, circuits, queue, before, cut, faults>>

ProviderDown(j) ==
    /\ at[j] = "down"
    /\ told' = [told EXCEPT ![InHand(j)] = @ + 1]
    /\ TryNext(j)
    /\ UNCHANGED <<world, streak, circuits, before, cut, faults>>

Gateway(j) ==
    \/ Skip(j) \/ Call(j) \/ Answer(j) \/ AllFailed(j)
    \/ RecordSuccess(j) \/ RecordFailure(j)
    \/ ProviderRecovered(j) \/ ProviderDown(j)

-----------------------------------------------------------------------------
(* ObservedSyncState, under an enrichment job *)

\* The feed is fetched.
Fetch(f) ==
    /\ at[f] = "idle"
    /\ before[f] = Unknown
    /\ Go(f, IF works[FeedOf[f]] THEN "good" ELSE "bad")
    /\ UNCHANGED <<world, streak, circuits, queue, before, told, cut, faults>>

\* State, before the counter is written.
ReadState(f) ==
    /\ at[f] \in {"good", "bad"}
    /\ before[f] = Unknown
    /\ before' = [before EXCEPT ![f] = streak[FeedOf[f]]]
    /\ UNCHANGED <<world, streak, circuits, at, queue, told, cut, faults>>

Forget(f) == before' = [before EXCEPT ![f] = Unknown]

\* A success after a counter of n is worth an alert.
Recovers(n) == n >= Threshold

\* A failure after a counter of n is worth an alert.
Breaks(n) == n + 1 = Threshold

WriteSuccess(f) ==
    /\ at[f] = "good"
    /\ before[f] # Unknown
    /\ streak' = [streak EXCEPT ![FeedOf[f]] = 0]
    /\ Go(f, IF Recovers(before[f]) THEN "up" ELSE "idle")
    /\ Forget(f)
    /\ UNCHANGED <<world, circuits, queue, told, cut, faults>>

WriteFailure(f) ==
    /\ at[f] = "bad"
    /\ before[f] # Unknown
    /\ streak' = [streak EXCEPT ![FeedOf[f]] = Count(@)]
    /\ Go(f, IF Breaks(before[f]) THEN "down" ELSE "idle")
    /\ Forget(f)
    /\ UNCHANGED <<world, circuits, queue, told, cut, faults>>

FeedAlert(f) ==
    /\ at[f] \in {"up", "down"}
    /\ told' = [told EXCEPT ![FeedOf[f]] = IF at[f] = "up" THEN @ - 1 ELSE @ + 1]
    /\ Go(f, "idle")
    /\ UNCHANGED <<world, streak, circuits, queue, before, cut, faults>>

Sync(f) == Fetch(f) \/ ReadState(f) \/ WriteSuccess(f) \/ WriteFailure(f) \/ FeedAlert(f)

-----------------------------------------------------------------------------
(* What goes wrong *)

\* What the job is about.
Subject(j) == IF j \in Syncs THEN FeedOf[j] ELSE InHand(j)

\* An alert cannot be enqueued: it is logged and dropped.
AlertLost(j) ==
    /\ at[j] \in {"up", "down"}
    /\ Fault
    /\ cut' = cut \cup {Subject(j)}
    /\ IF j \in Callers /\ at[j] = "down" THEN TryNext(j) ELSE Go(j, "idle") /\ UNCHANGED queue
    /\ UNCHANGED <<world, streak, circuits, before, told>>

\* The counter cannot be read, and is written all the same; or not written.
SyncFails(f) ==
    /\ at[f] \in {"good", "bad"}
    /\ Fault
    /\ cut' = cut \cup {FeedOf[f]}
    /\ \/ streak' = [streak EXCEPT ![FeedOf[f]] = IF at[f] = "good" THEN 0 ELSE Count(@)]
       \/ UNCHANGED streak
    /\ Go(f, "idle")
    /\ Forget(f)
    /\ UNCHANGED <<world, circuits, queue, told>>

\* The process restarts: the breakers are in its memory, the counters are not.
Restart ==
    /\ Fault
    /\ streak' = [s \in Sources |-> IF s \in Providers THEN 0 ELSE streak[s]]
    /\ opened' = {}
    /\ wait' = [p \in Providers |-> 0]
    /\ cut' = cut \cup opened \cup {Subject(j) : j \in {i \in Jobs : at[i] \in {"up", "down"}}}
    /\ at' = [j \in Jobs |-> "idle"]
    /\ queue' = [j \in Callers |-> <<>>]
    /\ before' = [f \in Syncs |-> Unknown]
    /\ UNCHANGED <<world, told>>

-----------------------------------------------------------------------------

Next ==
    \/ \E s \in Sources : Change(s)
    \/ Tick
    \/ \E j \in Callers : Gateway(j) \/ \E pref \in {{}} \cup {{p} : p \in Providers} : Execute(j, pref)
    \/ \E f \in Syncs : Sync(f) \/ SyncFails(f)
    \/ \E j \in Jobs : AlertLost(j)
    \/ Restart

\* The jobs run again and again, and every provider's events are synchronized
\* by some caller; nothing is assumed of what breaks or comes back.
Fairness ==
    /\ WF_vars(Tick)
    /\ \A j \in Callers : WF_vars(Gateway(j))
    /\ \A p \in Providers : SF_vars(\E j \in Callers : Execute(j, {p}))
    /\ \A f \in Syncs : WF_vars(Sync(f))

Spec == Init /\ [][Next]_vars
FairSpec == Spec /\ Fairness

-----------------------------------------------------------------------------
(* Properties *)

\* The jobs that owe an alert about s.
Owing(s, stage) == {j \in Jobs : at[j] = stage /\ Subject(j) = s}

Down(s) == IF s \in Providers THEN s \in opened ELSE streak[s] >= Threshold

\* The feeds only one job writes.
Single(s) == \A f, g \in Syncs : FeedOf[f] = s /\ FeedOf[g] = s => f = g

\* No alert is sent twice, forgotten or made up: whatever the callers find out
\* at the same time, what was told and what is still owed add up to the state
\* of the circuit or the counter (TestGateway_ReportsEachHealthTransitionOnce).
AlertsAddUp ==
    \A s \in Sources \ cut :
        s \in Providers \/ Single(s) =>
            told[s] + Cardinality(Owing(s, "down")) - Cardinality(Owing(s, "up")) = IF Down(s) THEN 1 ELSE 0

\* The administrators end up knowing: a source that stays down is told to be,
\* one that came back is told to be back, its circuit closed and used again
\* (recordFailure, recordSuccess, ObservedSyncState).
OutagesAreToldAndEnd ==
    \A s \in Sources :
        <>[](s \in cut \/ ~(s \in Providers \/ Single(s))
             \/ /\ told[s] = IF works[s] THEN 0 ELSE 1
                /\ works[s] => ~Down(s))

-----------------------------------------------------------------------------
(* What the source says, and the code does not do: no run checks it (README, 5). *)

\* "ProviderDown fires once per transition into a broken state" and
\* "ProviderRecovered fires on the first success after ProviderDown"
\* (ProviderHealthObserver, platform/common/ports.go), also of a feed that two
\* jobs fetch: with no job at work on it, what was told is how it is.
EveryFeedIsTold ==
    \A s \in Feeds \ cut :
        (\A f \in Syncs : FeedOf[f] = s => at[f] = "idle") => told[s] = IF Down(s) THEN 1 ELSE 0
=============================================================================
