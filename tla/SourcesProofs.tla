----------------------------- MODULE SourcesProofs -----------------------------
(***************************************************************************)
(* Proofs about what comes from outside: who is down (ProviderHealth) and      *)
(* which team a feed's name stands for (TeamMatching).                         *)
(*                                                                         *)
(* ProviderHealth: its types, and that no alert is lost or doubled.            *)
(* AlertsAddUp is not inductive by itself: an alert is owed about the provider *)
(* at the head of a caller's queue, which must not be empty then, and a sync   *)
(* that is alone on its feed must write on what it read.                       *)
(*                                                                         *)
(* TeamMatching: its four invariants, each with the part of MatchingIInv that  *)
(* makes it inductive.                                                         *)
(***************************************************************************)
EXTENDS ProviderHealth, TeamMatching, FiniteSetTheorems, FunctionTheorems, SequenceTheorems, TLAPS

-----------------------------------------------------------------------------
(* ProviderHealth.                                                             *)

\* A caller that is past choosing a provider has one in hand.
HasInHand ==
    \A j \in Callers : at[j] \in {"call", "good", "bad", "up", "down"} => queue[j] # <<>>

\* Syncs go through stages of their own.
SyncStages == \A f \in Syncs : at[f] \in {"idle", "good", "bad", "up", "down"}

\* What a sync has read of a counter that nobody else writes still holds, and
\* it has read nothing while it does not write.
ReadIsFresh ==
    \A f \in Syncs :
        before[f] # Unknown =>
            /\ at[f] \in {"good", "bad"}
            /\ Single(FeedOf[f]) => before[f] = streak[FeedOf[f]]

-----------------------------------------------------------------------------

\* How the size of a finite set changes with the membership of one element.
LEMMA OneElement ==
  ASSUME NEW S, NEW T, NEW j, IsFiniteSet(S), S \ {j} = T \ {j}
  PROVE  /\ IsFiniteSet(T)
         /\ Cardinality(S) \in Nat /\ Cardinality(T) \in Nat
         /\ j \in S /\ j \in T => Cardinality(T) = Cardinality(S)
         /\ j \notin S /\ j \notin T => Cardinality(T) = Cardinality(S)
         /\ j \in S /\ j \notin T => Cardinality(T) = Cardinality(S) - 1
         /\ j \notin S /\ j \in T => Cardinality(T) = Cardinality(S) + 1
<1>1. CASE j \in S /\ j \in T
  <2>1. S = T
    BY <1>1
  <2> QED
    BY <1>1, <2>1, FS_CardinalityType
<1>2. CASE j \notin S /\ j \notin T
  <2>1. S = T
    BY <1>2
  <2> QED
    BY <1>2, <2>1, FS_CardinalityType
<1>3. CASE j \in S /\ j \notin T
  <2>1. T = S \ {j}
    BY <1>3
  <2>2. IsFiniteSet(T) /\ Cardinality(T) = Cardinality(S) - 1
    BY <1>3, <2>1, FS_RemoveElement
  <2> QED
    BY <1>3, <2>2, FS_CardinalityType
<1>4. CASE j \notin S /\ j \in T
  <2>1. T = S \cup {j}
    BY <1>4
  <2>2. IsFiniteSet(T) /\ Cardinality(T) = Cardinality(S) + 1
    BY <1>4, <2>1, FS_AddElement
  <2> QED
    BY <1>4, <2>2, FS_CardinalityType
<1> QED
  BY <1>1, <1>2, <1>3, <1>4

LEMMA FiniteJobs == IsFiniteSet(Jobs)
  BY FS_Union, HealthConstants DEF Jobs

LEMMA OwingFinite ==
  ASSUME NEW s, NEW stage
  PROVE  IsFiniteSet(Owing(s, stage)) /\ Cardinality(Owing(s, stage)) \in Nat
<1>1. Owing(s, stage) \subseteq Jobs
  BY DEF Owing
<1> QED
  BY <1>1, FiniteJobs, FS_Subset, FS_CardinalityType

\* Only j has moved: the others owe what they owed.
OnlyMoves(j) ==
    \A i \in Jobs \ {j} : at'[i] = at[i] /\ (i \in Callers => queue'[i] = queue[i])

LEMMA OthersOweTheSame ==
  ASSUME NEW j \in Jobs, OnlyMoves(j), NEW s, NEW stage
  PROVE  Owing(s, stage) \ {j} = Owing(s, stage)' \ {j}
<1>1. ASSUME NEW i \in Jobs \ {j} PROVE i \in Owing(s, stage) <=> i \in Owing(s, stage)'
  <2>1. at'[i] = at[i] /\ (i \in Callers => queue'[i] = queue[i])
    BY <1>1 DEF OnlyMoves
  <2>2. Subject(i)' = Subject(i)
    BY <2>1, <1>1, HealthConstants DEF Subject, InHand, Jobs
  <2> QED
    BY <2>1, <2>2 DEF Owing
<1>2. Owing(s, stage) \subseteq Jobs /\ Owing(s, stage)' \subseteq Jobs
  BY DEF Owing
<1> QED
  BY <1>1, <1>2

\* What adds up for s still does after a step of j that tells nothing, if j's
\* debt changes by as much as the state of s.
Debt(i, s) == IF at[i] = "down" /\ Subject(i) = s THEN 1
              ELSE IF at[i] = "up" /\ Subject(i) = s THEN -1 ELSE 0

Sum(s) == told[s] + Cardinality(Owing(s, "down")) - Cardinality(Owing(s, "up"))

\* The sum changes by what the step tells and by what the job that takes it owes.
LEMMA SumMoves ==
  ASSUME TypeOK, TypeOK', NEW j \in Jobs, OnlyMoves(j), NEW s \in Sources
  PROVE  Sum(s)' = Sum(s) + (told'[s] - told[s]) + (Debt(j, s)' - Debt(j, s))
<1> DEFINE D == Owing(s, "down")
           U == Owing(s, "up")
<1>1. /\ IsFiniteSet(D) /\ D \ {j} = D' \ {j}
      /\ IsFiniteSet(U) /\ U \ {j} = U' \ {j}
  BY OwingFinite, OthersOweTheSame
<1>2. /\ j \in D <=> at[j] = "down" /\ Subject(j) = s
      /\ j \in D' <=> at'[j] = "down" /\ Subject(j)' = s
      /\ j \in U <=> at[j] = "up" /\ Subject(j) = s
      /\ j \in U' <=> at'[j] = "up" /\ Subject(j)' = s
  BY DEF Owing
<1>3. told[s] \in Int /\ told'[s] \in Int
  BY DEF TypeOK
<1> DEFINE d == Cardinality(D)
           dd == Cardinality(D)'
           u == Cardinality(U)
           uu == Cardinality(U)'
<1>4. /\ d \in Nat /\ dd \in Nat
      /\ j \in D /\ j \in D' => dd = d
      /\ j \notin D /\ j \notin D' => dd = d
      /\ j \in D /\ j \notin D' => dd = d - 1
      /\ j \notin D /\ j \in D' => dd = d + 1
  BY <1>1, OneElement
<1>5. /\ u \in Nat /\ uu \in Nat
      /\ j \in U /\ j \in U' => uu = u
      /\ j \notin U /\ j \notin U' => uu = u
      /\ j \in U /\ j \notin U' => uu = u - 1
      /\ j \notin U /\ j \in U' => uu = u + 1
  BY <1>1, OneElement
<1>6. Sum(s) = told[s] + d - u /\ Sum(s)' = told'[s] + dd - uu
  BY DEF Sum
<1> HIDE DEF D, U, d, dd, u, uu
<1>7. /\ Debt(j, s) = (IF j \in D THEN 1 ELSE IF j \in U THEN -1 ELSE 0)
      /\ Debt(j, s)' = (IF j \in D' THEN 1 ELSE IF j \in U' THEN -1 ELSE 0)
  BY <1>2 DEF Debt
<1>8. ~(j \in D /\ j \in U) /\ ~(j \in D' /\ j \in U')
  BY <1>2
<1>9. dd - uu = (d - u) + (Debt(j, s)' - Debt(j, s))
  BY <1>4, <1>5, <1>7, <1>8
<1>10. Debt(j, s) \in Int /\ Debt(j, s)' \in Int
  BY <1>7
<1> QED
  BY <1>3, <1>4, <1>5, <1>6, <1>9, <1>10

-----------------------------------------------------------------------------

\* The queue of a call is made of providers.
LEMMA OrderedProvidersType ==
  ASSUME NEW pref \in {{}} \cup {{p} : p \in Providers}
  PROVE  OrderedProviders(pref) \in Seq(Providers)
<1>1. Order \in Seq(Providers)
  BY HealthConstants
<1>2. CASE \E i \in 1 .. Len(Order) : Order[i] \in pref
  <2> DEFINE i == CHOOSE k \in 1 .. Len(Order) : Order[k] \in pref
  <2>1. i \in 1 .. Len(Order)
    BY <1>2
  <2>2. Order[i] \in Providers
    BY <1>1, <2>1
  <2>3. SubSeq(Order, 1, i - 1) \in Seq(Providers) /\ SubSeq(Order, i + 1, Len(Order)) \in Seq(Providers)
    <3> HIDE DEF i
    <3>1. i - 1 \in 0 .. Len(Order) /\ i + 1 \in 1 .. Len(Order) + 1 /\ Len(Order) \in (i + 1) - 1 .. Len(Order)
      BY <1>1, <2>1
    <3> QED
      BY <1>1, <3>1, SubSeqProperties
  <2>4. OrderedProviders(pref) = <<Order[i]>> \o SubSeq(Order, 1, i - 1) \o SubSeq(Order, i + 1, Len(Order))
    BY <1>2 DEF OrderedProviders
  <2> DEFINE a == SubSeq(Order, 1, i - 1)
             b == SubSeq(Order, i + 1, Len(Order))
             first == <<Order[i]>>
  <2>5. first \in Seq(Providers) /\ a \in Seq(Providers) /\ b \in Seq(Providers)
    BY <2>2, <2>3
  <2>6. first \o a \o b \in Seq(Providers)
    <3> HIDE DEF a, b, first
    <3>1. first \o a \in Seq(Providers)
      BY <2>5
    <3> QED
      BY <2>5, <3>1
  <2> QED
    BY <2>4, <2>6
<1>3. CASE ~ \E i \in 1 .. Len(Order) : Order[i] \in pref
  <2>1. CASE pref = {}
    BY <1>1, <1>3, <2>1 DEF OrderedProviders
  <2>2. CASE \E p \in Providers : pref = {p}
    <3>1. (CHOOSE p \in pref : TRUE) \in Providers
      BY <2>2
    <3> QED
      BY <1>1, <1>3, <2>2, <3>1 DEF OrderedProviders
  <2> QED
    BY <2>1, <2>2
<1> QED
  BY <1>2, <1>3

-----------------------------------------------------------------------------

\* What the types and the stages say of each other, apart from the alerts.
Shape == TypeOK /\ HasInHand /\ SyncStages /\ ReadIsFresh

LEMMA InitShape == Init => Shape
<1> SUFFICES ASSUME Init PROVE Shape
  OBVIOUS
<1>1. TypeOK
  BY HealthConstants DEF Init, TypeOK, Jobs, Unknown
<1>2. HasInHand /\ SyncStages /\ ReadIsFresh
  BY HealthConstants DEF Init, HasInHand, SyncStages, ReadIsFresh, Jobs
<1> QED
  BY <1>1, <1>2 DEF Shape

\* The circuit delay stays within its cap, the counter within its bound.
LEMMA Bounds ==
  /\ \A n \in Nat : Delay(n) \in 1 .. MaxDelay
  /\ \A n \in 0 .. MaxStreak : Count(n) \in 0 .. MaxStreak
  BY HealthConstants DEF Delay, Count

\* A step of the gateway keeps the shape.
LEMMA GatewayShape ==
  ASSUME Shape, NEW j \in Callers, Gateway(j)
  PROVE  Shape' /\ OnlyMoves(j)
<1> USE HealthConstants
<1>1. j \in Jobs /\ j \notin Syncs
  BY DEF Jobs
<1>2. at[j] \in {"try", "call", "good", "bad", "up", "down"}
  BY DEF Gateway, Skip, Call, Answer, AllFailed, RecordSuccess, RecordFailure, ProviderRecovered, ProviderDown
<1>3. at[j] \in {"call", "good", "bad", "up", "down"} => queue[j] # <<>>
  BY DEF Shape, HasInHand
<1>4. queue[j] # <<>> => Tail(queue[j]) \in Seq(Providers) /\ InHand(j) \in Providers
  BY DEF Shape, TypeOK, InHand
<1>5. /\ at' \in [Jobs -> {"idle", "try", "call", "good", "bad", "up", "down"}]
      /\ queue' \in [Callers -> Seq(Providers)]
      /\ \A i \in Jobs \ {j} : at'[i] = at[i]
      /\ \A i \in Callers \ {j} : queue'[i] = queue[i]
      /\ at'[j] \in {"call", "good", "bad", "up", "down"} => queue'[j] # <<>>
  <2>1. CASE Skip(j)
    BY <2>1, <1>1, <1>4 DEF Shape, TypeOK, Skip
  <2>2. CASE Call(j) \/ Answer(j) \/ AllFailed(j)
    BY <2>2, <1>1, <1>3 DEF Shape, TypeOK, Call, Answer, AllFailed, Go
  <2>3. CASE RecordSuccess(j) \/ ProviderRecovered(j)
    BY <2>3, <1>1, <1>3 DEF Shape, TypeOK, RecordSuccess, ProviderRecovered, Go
  <2>4. CASE RecordFailure(j) /\ Opens(InHand(j))
    BY <2>4, <1>1, <1>3 DEF Shape, TypeOK, RecordFailure, Go
  <2>5. CASE RecordFailure(j) /\ ~Opens(InHand(j))
    <3>1. TryNext(j) /\ Tail(queue[j]) \in Seq(Providers)
      BY <2>5, <1>3, <1>4 DEF RecordFailure
    <3> QED
      BY <3>1, <1>1 DEF Shape, TypeOK, Go, TryNext
  <2>6. CASE ProviderDown(j)
    BY <2>6, <1>1, <1>3, <1>4 DEF Shape, TypeOK, ProviderDown, Go, TryNext
  <2> QED
    BY <2>1, <2>2, <2>3, <2>4, <2>5, <2>6 DEF Gateway
<1>6. /\ streak' \in [Sources -> 0 .. MaxStreak]
      /\ \A s \in Feeds : streak'[s] = streak[s]
      /\ opened' \subseteq Providers
      /\ wait' \in [Providers -> 0 .. MaxDelay]
  <2>1. CASE RecordSuccess(j)
    BY <2>1, <1>3, <1>4 DEF Shape, TypeOK, RecordSuccess, Sources
  <2>2. CASE RecordFailure(j)
    <3>1. InHand(j) \in Providers /\ streak[InHand(j)] \in 0 .. MaxStreak
      BY <2>2, <1>3, <1>4 DEF Shape, TypeOK, RecordFailure, Sources
    <3>2. Count(streak[InHand(j)]) \in 0 .. MaxStreak
      BY <3>1, Bounds
    <3>3. Delay(Count(streak[InHand(j)])) \in 0 .. MaxDelay
      BY <3>2, Bounds
    <3>4. streak' = [streak EXCEPT ![InHand(j)] = Count(streak[InHand(j)])]
      BY <2>2 DEF RecordFailure
    <3>5. streak' \in [Sources -> 0 .. MaxStreak] /\ \A s \in Feeds : streak'[s] = streak[s]
      BY <3>1, <3>2, <3>4 DEF Shape, TypeOK, Sources
    <3>6. opened' \subseteq Providers /\ wait' \in [Providers -> 0 .. MaxDelay]
      <4> DEFINE p == InHand(j)
                 fails == Count(streak[p])
      <4>1. CASE fails >= Threshold
        <5>1. opened' = opened \cup {p} /\ wait' = [wait EXCEPT ![p] = Delay(fails)]
          BY <2>2, <4>1 DEF RecordFailure
        <5> HIDE DEF p, fails
        <5>2. p \in Providers /\ Delay(fails) \in 0 .. MaxDelay
          BY <3>1, <3>3 DEF p, fails
        <5> QED
          BY <5>1, <5>2 DEF Shape, TypeOK
      <4>2. CASE ~(fails >= Threshold)
        <5>1. opened' = opened /\ wait' = wait
          BY <2>2, <4>2 DEF RecordFailure, circuits
        <5> QED
          BY <5>1 DEF Shape, TypeOK
      <4> QED
        BY <4>1, <4>2
    <3> QED
      BY <3>5, <3>6
  <2>3. CASE UNCHANGED <<streak, opened, wait>>
    BY <2>3 DEF Shape, TypeOK
  <2> QED
    BY <2>1, <2>2, <2>3 DEF Gateway, Skip, Call, Answer, AllFailed, ProviderRecovered, ProviderDown, circuits
<1>7. told' \in [Sources -> Int]
  <2>1. told \in [Sources -> Int]
    BY DEF Shape, TypeOK
  <2>2. CASE ProviderRecovered(j)
    BY <2>1, <2>2, <1>3, <1>4 DEF ProviderRecovered, Sources
  <2>3. CASE ProviderDown(j)
    BY <2>1, <2>3, <1>3, <1>4 DEF ProviderDown, Sources
  <2>4. CASE told' = told
    BY <2>1, <2>4
  <2> QED
    BY <2>2, <2>3, <2>4 DEF Gateway, Skip, Call, Answer, AllFailed, RecordSuccess, RecordFailure
<1>8. UNCHANGED <<works, changes, before, cut, faults>>
  BY DEF Gateway, Skip, Call, Answer, AllFailed, RecordSuccess, RecordFailure, ProviderRecovered, ProviderDown, world
<1>9. TypeOK'
  BY <1>5, <1>6, <1>7, <1>8 DEF Shape, TypeOK
<1>10. HasInHand'
  BY <1>5 DEF Shape, HasInHand, Jobs
<1>11. SyncStages' /\ ReadIsFresh'
  BY <1>1, <1>5, <1>6, <1>8 DEF Shape, SyncStages, ReadIsFresh, Jobs, Single, Unknown
<1> QED
  BY <1>5, <1>9, <1>10, <1>11 DEF Shape, OnlyMoves

\* So does a step of an enrichment job.
LEMMA SyncShape ==
  ASSUME Shape, NEW f \in Syncs, Sync(f) \/ SyncFails(f)
  PROVE  Shape' /\ OnlyMoves(f)
<1> USE HealthConstants
<1>1. /\ f \in Jobs /\ f \notin Callers
      /\ FeedOf[f] \in Sources /\ streak[FeedOf[f]] \in 0 .. MaxStreak
  BY DEF Jobs, Sources, Shape, TypeOK
<1>2. Count(streak[FeedOf[f]]) \in 0 .. MaxStreak
  BY <1>1, Bounds
<1>3. /\ queue' = queue /\ opened' = opened /\ wait' = wait /\ works' = works /\ changes' = changes
      /\ \A i \in Jobs \ {f} : at'[i] = at[i]
      /\ at' \in [Jobs -> {"idle", "try", "call", "good", "bad", "up", "down"}]
      /\ at'[f] \in {"idle", "good", "bad", "up", "down"}
  BY <1>1 DEF Shape, TypeOK, SyncStages, Sync, Fetch, ReadState, WriteSuccess, WriteFailure, FeedAlert, SyncFails, Go, world, circuits
<1>4. /\ streak' \in [Sources -> 0 .. MaxStreak]
      /\ \A s \in Sources : s # FeedOf[f] => streak'[s] = streak[s]
  <2>1. \/ streak' = streak
        \/ streak' = [streak EXCEPT ![FeedOf[f]] = 0]
        \/ streak' = [streak EXCEPT ![FeedOf[f]] = Count(streak[FeedOf[f]])]
    BY DEF Shape, TypeOK, Sync, Fetch, ReadState, WriteSuccess, WriteFailure, FeedAlert, SyncFails
  <2>2. 0 \in 0 .. MaxStreak
    OBVIOUS
  <2>3. streak \in [Sources -> 0 .. MaxStreak]
    BY DEF Shape, TypeOK
  <2> DEFINE s0 == FeedOf[f]
             n0 == Count(streak[s0])
  <2>4. s0 \in Sources /\ n0 \in 0 .. MaxStreak
    BY <1>1, <1>2
  <2> HIDE DEF s0, n0
  <2>5. \/ streak' = streak
        \/ streak' = [streak EXCEPT ![s0] = 0]
        \/ streak' = [streak EXCEPT ![s0] = n0]
    BY <2>1 DEF s0, n0
  <2>6. streak' \in [Sources -> 0 .. MaxStreak] /\ \A s \in Sources : s # s0 => streak'[s] = streak[s]
    BY <2>2, <2>3, <2>4, <2>5
  <2> QED
    BY <2>6 DEF s0
<1>5. /\ before' \in [Syncs -> 0 .. Unknown]
      /\ \A g \in Syncs \ {f} : before'[g] = before[g]
      /\ before'[f] # Unknown => /\ at'[f] \in {"good", "bad"}
                                 /\ Single(FeedOf[f]) => before'[f] = streak'[FeedOf[f]]
  <2>1. CASE Fetch(f)
    BY <2>1, <1>1 DEF Shape, TypeOK, Fetch
  <2>2. CASE ReadState(f)
    <3>1. streak[FeedOf[f]] \in 0 .. Unknown
      BY <1>1 DEF Unknown
    <3> QED
      BY <2>2, <3>1 DEF Shape, TypeOK, ReadState
  <2>3. CASE WriteSuccess(f) \/ WriteFailure(f) \/ SyncFails(f)
    <3>1. Forget(f) /\ Unknown \in 0 .. Unknown
      BY <2>3 DEF WriteSuccess, WriteFailure, SyncFails, Unknown
    <3> QED
      BY <3>1 DEF Shape, TypeOK, Forget
  <2>4. CASE FeedAlert(f)
    BY <2>4 DEF Shape, TypeOK, ReadIsFresh, FeedAlert
  <2> QED
    BY <2>1, <2>2, <2>3, <2>4 DEF Sync
<1>6. told' \in [Sources -> Int] /\ cut' \subseteq Sources /\ faults' \in 0 .. MaxFaults
  BY <1>1 DEF Shape, TypeOK, Sync, Fetch, ReadState, WriteSuccess, WriteFailure, FeedAlert, SyncFails, Fault
<1>7. TypeOK'
  BY <1>3, <1>4, <1>5, <1>6 DEF Shape, TypeOK
<1>8. HasInHand' /\ SyncStages'
  BY <1>1, <1>3 DEF Shape, HasInHand, SyncStages, Jobs
<1>9. ReadIsFresh'
  <2> SUFFICES ASSUME NEW g \in Syncs, before'[g] # Unknown
               PROVE  /\ at'[g] \in {"good", "bad"}
                      /\ Single(FeedOf[g]) => before'[g] = streak'[FeedOf[g]]
    BY DEF ReadIsFresh, Single, Unknown
  <2>1. CASE g = f
    BY <2>1, <1>5
  <2>2. CASE g # f
    <3>1. g \in Jobs \ {f} /\ FeedOf[g] \in Sources
      BY <2>2 DEF Jobs, Sources
    <3>2. Single(FeedOf[g]) => FeedOf[g] # FeedOf[f]
      BY <2>2 DEF Single
    <3> QED
      BY <2>2, <3>1, <3>2, <1>3, <1>4, <1>5 DEF Shape, ReadIsFresh
  <2> QED
    BY <2>1, <2>2
<1> QED
  BY <1>3, <1>7, <1>8, <1>9 DEF Shape, OnlyMoves

\* And an alert that is lost: its source is cut from then on.
LEMMA LostShape ==
  ASSUME Shape, NEW j \in Jobs, AlertLost(j)
  PROVE  Shape' /\ OnlyMoves(j) /\ Subject(j) \in cut'
<1> USE HealthConstants
<1>1. Subject(j) \in Sources
  BY DEF Shape, TypeOK, HasInHand, Jobs, Subject, InHand, Sources, AlertLost
<1>2. /\ \A i \in Jobs \ {j} : at'[i] = at[i]
      /\ at' \in [Jobs -> {"idle", "try", "call", "good", "bad", "up", "down"}]
      /\ at'[j] \in {"idle", "try"}
      /\ j \in Syncs => at'[j] = "idle"
      /\ queue' \in [Callers -> Seq(Providers)]
      /\ \A i \in Callers \ {j} : queue'[i] = queue[i]
  <2>1. CASE j \in Callers /\ at[j] = "down"
    <3>1. TryNext(j) /\ j \notin Syncs /\ Tail(queue[j]) \in Seq(Providers)
      BY <2>1 DEF AlertLost, Shape, TypeOK, HasInHand
    <3> QED
      BY <3>1 DEF Shape, TypeOK, Go, TryNext
  <2>2. CASE ~(j \in Callers /\ at[j] = "down")
    <3>1. Go(j, "idle") /\ queue' = queue
      BY <2>2 DEF AlertLost
    <3> QED
      BY <3>1 DEF Shape, TypeOK, Go
  <2> QED
    BY <2>1, <2>2
<1>3. /\ UNCHANGED <<works, changes, streak, opened, wait, before, told>>
      /\ cut' = cut \cup {Subject(j)} /\ faults' \in 0 .. MaxFaults
  BY DEF AlertLost, world, circuits, Fault, Shape, TypeOK
<1>4. TypeOK'
  BY <1>1, <1>2, <1>3 DEF Shape, TypeOK
<1>5. HasInHand'
  BY <1>2 DEF Shape, HasInHand, Jobs
<1>6. SyncStages'
  BY <1>2 DEF Shape, SyncStages, Jobs
<1>7. ReadIsFresh'
  <2>1. j \in Syncs => before[j] = Unknown
    BY DEF AlertLost, Shape, ReadIsFresh
  <2> QED
    BY <1>2, <1>3, <2>1 DEF Shape, ReadIsFresh, Jobs, Single, Unknown
<1> QED
  BY <1>2, <1>3, <1>4, <1>5, <1>6, <1>7 DEF Shape, OnlyMoves

\* The call of a job that was idle.
LEMMA ExecuteShape ==
  ASSUME Shape, NEW j \in Callers, NEW pref \in {{}} \cup {{p} : p \in Providers}, Execute(j, pref)
  PROVE  Shape' /\ OnlyMoves(j)
<1> USE HealthConstants
<1>1. queue' \in [Callers -> Seq(Providers)] /\ \A i \in Callers \ {j} : queue'[i] = queue[i]
  BY OrderedProvidersType DEF Shape, TypeOK, Execute
<1>2. /\ at' \in [Jobs -> {"idle", "try", "call", "good", "bad", "up", "down"}]
      /\ \A i \in Jobs \ {j} : at'[i] = at[i]
      /\ at'[j] = "try"
  BY DEF Shape, TypeOK, Execute, Go, Jobs
<1>3. UNCHANGED <<works, changes, streak, opened, wait, before, told, cut, faults>>
  BY DEF Execute, world, circuits
<1>4. TypeOK'
  BY <1>1, <1>2, <1>3 DEF Shape, TypeOK
<1>5. HasInHand'
  BY <1>1, <1>2 DEF Shape, HasInHand, Jobs
<1>6. SyncStages' /\ ReadIsFresh'
  BY <1>2, <1>3 DEF Shape, SyncStages, ReadIsFresh, Jobs, Single, Unknown
<1> QED
  BY <1>1, <1>2, <1>4, <1>5, <1>6 DEF Shape, OnlyMoves

\* The world, and a restart.
LEMMA WorldShape ==
  ASSUME Shape, (\E s \in Sources : Change(s)) \/ Tick \/ Restart \/ UNCHANGED vars
  PROVE  Shape'
<1> USE HealthConstants
<1>1. CASE \E s \in Sources : Change(s)
  <2>1. /\ works' \in [Sources -> BOOLEAN] /\ changes' \in 0 .. MaxChanges
        /\ UNCHANGED <<streak, opened, wait, at, queue, before, told, cut, faults>>
    BY <1>1 DEF Shape, TypeOK, Change, circuits
  <2> QED
    BY <2>1 DEF Shape, TypeOK, HasInHand, SyncStages, ReadIsFresh, Single, Unknown
<1>2. CASE Tick
  <2>1. wait' \in [Providers -> 0 .. MaxDelay]
    <3>1. \A p \in Providers : (IF wait[p] > 0 THEN wait[p] - 1 ELSE 0) \in 0 .. MaxDelay
      BY DEF Shape, TypeOK
    <3> QED
      BY <1>2, <3>1 DEF Tick
  <2>2. UNCHANGED <<works, changes, streak, opened, at, queue, before, told, cut, faults>>
    BY <1>2 DEF Tick, world
  <2> QED
    BY <2>1, <2>2 DEF Shape, TypeOK, HasInHand, SyncStages, ReadIsFresh, Single, Unknown
<1>3. CASE Restart
  <2>1. /\ at' = [j \in Jobs |-> "idle"] /\ queue' = [j \in Callers |-> <<>>]
        /\ before' = [f \in Syncs |-> Unknown] /\ opened' = {} /\ wait' = [p \in Providers |-> 0]
        /\ UNCHANGED <<works, changes, told>>
    BY <1>3 DEF Restart, world
  <2>2. streak' \in [Sources -> 0 .. MaxStreak] /\ faults' \in 0 .. MaxFaults
    BY <1>3 DEF Restart, Fault, Shape, TypeOK
  <2>3. cut' \subseteq Sources
    <3>1. \A i \in Jobs : at[i] \in {"up", "down"} => Subject(i) \in Sources
      BY DEF Shape, TypeOK, HasInHand, Jobs, Subject, InHand, Sources
    <3> QED
      BY <1>3, <3>1 DEF Restart, Shape, TypeOK, Sources
  <2>4. TypeOK'
    <3>1. <<>> \in Seq(Providers) /\ Unknown \in 0 .. Unknown /\ 0 \in 0 .. MaxDelay
      BY DEF Unknown
    <3> QED
      BY <2>1, <2>2, <2>3, <3>1 DEF Shape, TypeOK, Unknown
  <2> QED
    BY <2>1, <2>4 DEF Shape, HasInHand, SyncStages, ReadIsFresh, Jobs, Unknown
<1>4. CASE UNCHANGED vars
  BY <1>4 DEF vars, Shape, TypeOK, HasInHand, SyncStages, ReadIsFresh, Single, Unknown
<1> QED
  BY <1>1, <1>2, <1>3, <1>4

\* Every step keeps the shape.
LEMMA NextShape == Shape /\ [Next]_vars => Shape'
<1> SUFFICES ASSUME Shape, [Next]_vars PROVE Shape'
  OBVIOUS
<1>1. CASE (\E s \in Sources : Change(s)) \/ Tick \/ Restart \/ UNCHANGED vars
  BY <1>1, WorldShape
<1>2. CASE \E j \in Callers : Gateway(j) \/ \E pref \in {{}} \cup {{p} : p \in Providers} : Execute(j, pref)
  BY <1>2, GatewayShape, ExecuteShape
<1>3. CASE \E f \in Syncs : Sync(f) \/ SyncFails(f)
  BY <1>3, SyncShape
<1>4. CASE \E j \in Jobs : AlertLost(j)
  BY <1>4, LostShape
<1> QED
  BY <1>1, <1>2, <1>3, <1>4 DEF Next

\* No circuit stays open for longer than the cap, no counter exceeds its bound,
\* and a job is always at a stage the code has (gateway.go, admin_alerts.go).
THEOREM TypeCorrect == Spec => []TypeOK
<1>1. Shape => TypeOK
  BY DEF Shape
<1> QED
  BY <1>1, InitShape, NextShape, PTL DEF Spec

-----------------------------------------------------------------------------

\* What AlertsAddUp says the sum is.
State(s) == IF Down(s) THEN 1 ELSE 0

\* The sources it speaks of.
Counted(s) == s \in Providers \/ Single(s)

\* If one job moves, and what it tells and owes changes as the state does,
\* the alerts still add up.
LEMMA KeepsAddingUp ==
  ASSUME Shape, Shape', AlertsAddUp, NEW j \in Jobs, OnlyMoves(j), cut \subseteq cut',
         \A s \in Sources \ cut' :
             Counted(s) => (told'[s] - told[s]) + (Debt(j, s)' - Debt(j, s)) = State(s)' - State(s)
  PROVE  AlertsAddUp'
<1> SUFFICES ASSUME NEW s \in Sources, s \notin cut', Counted(s)
             PROVE  Sum(s)' = State(s)'
  BY DEF AlertsAddUp, Sum, State, Counted, Single
<1>1. Sum(s) = State(s)
  BY DEF AlertsAddUp, Sum, State, Counted
<1>2. Sum(s)' = Sum(s) + (told'[s] - told[s]) + (Debt(j, s)' - Debt(j, s))
  BY SumMoves DEF Shape
<1>3. /\ told[s] \in Int /\ told'[s] \in Int
      /\ State(s) \in Int /\ State(s)' \in Int
      /\ Debt(j, s) \in Int /\ Debt(j, s)' \in Int
  BY DEF Shape, TypeOK, State, Debt
<1> QED
  BY <1>1, <1>2, <1>3

\* A step that tells nothing, owes nothing before or after, and changes no
\* state keeps what adds up.
LEMMA QuietStep ==
  ASSUME Shape, Shape', AlertsAddUp, NEW j \in Jobs, OnlyMoves(j),
         at[j] \notin {"up", "down"}, at'[j] \notin {"up", "down"},
         UNCHANGED <<streak, opened, told, cut>>
  PROVE  AlertsAddUp'
<1>1. ASSUME NEW s \in Sources \ cut', Counted(s)
      PROVE  (told'[s] - told[s]) + (Debt(j, s)' - Debt(j, s)) = State(s)' - State(s)
  <2>1. Debt(j, s) = 0 /\ Debt(j, s)' = 0 /\ State(s)' = State(s)
    BY DEF Debt, State, Down
  <2>2. told[s] \in Int /\ State(s) \in Int
    BY DEF Shape, TypeOK, State
  <2> QED
    BY <2>1, <2>2
<1> QED
  BY <1>1, KeepsAddingUp

\* The gateway tells each transition of a circuit once.
LEMMA GatewayAddsUp ==
  ASSUME Shape, AlertsAddUp, NEW j \in Callers, Gateway(j)
  PROVE  AlertsAddUp'
<1> USE HealthConstants
<1>1. Shape' /\ OnlyMoves(j) /\ j \in Jobs /\ j \notin Syncs
  BY GatewayShape DEF Jobs
<1>2. CASE Skip(j) \/ Call(j) \/ Answer(j) \/ AllFailed(j)
  <2>1. /\ at[j] \notin {"up", "down"} /\ at'[j] \notin {"up", "down"}
        /\ UNCHANGED <<streak, opened, told, cut>>
    BY <1>1, <1>2 DEF Shape, TypeOK, Skip, Call, Answer, AllFailed, Go, circuits
  <2> QED
    BY <1>1, <2>1, QuietStep
<1> DEFINE p == InHand(j)
<1>3. CASE RecordSuccess(j)
  <2>1. p \in Providers /\ Subject(j) = p /\ Subject(j)' = p /\ p \notin Feeds
    BY <1>1, <1>3 DEF Shape, TypeOK, HasInHand, RecordSuccess, Subject, InHand
  <2>2. /\ at[j] = "good" /\ at'[j] = IF p \in opened THEN "up" ELSE "idle"
        /\ opened' = opened \ {p} /\ told' = told /\ cut' = cut
        /\ \A s \in Sources : s # p => streak'[s] = streak[s]
    BY <1>1, <1>3, <2>1 DEF Shape, TypeOK, RecordSuccess, Go, Sources
  <2>3. ASSUME NEW s \in Sources \ cut', Counted(s)
        PROVE  (told'[s] - told[s]) + (Debt(j, s)' - Debt(j, s)) = State(s)' - State(s)
    <3>1. told[s] \in Int
      BY DEF Shape, TypeOK
    <3> HIDE DEF p
    <3>2. Debt(j, s) = 0 /\ Debt(j, s)' = (IF p \in opened /\ s = p THEN -1 ELSE 0)
      BY <2>1, <2>2 DEF Debt
    <3>3. State(s)' - State(s) = (IF p \in opened /\ s = p THEN -1 ELSE 0)
      BY <2>1, <2>2 DEF State, Down
    <3> QED
      BY <2>2, <3>1, <3>2, <3>3
  <2> QED
    BY <1>1, <2>2, <2>3, KeepsAddingUp
<1>4. CASE RecordFailure(j)
  <2>1. p \in Providers /\ Subject(j) = p /\ p \notin Feeds
    BY <1>1, <1>4 DEF Shape, TypeOK, HasInHand, RecordFailure, Subject, InHand
  <2>2. /\ at[j] = "bad" /\ told' = told /\ cut' = cut
        /\ \A s \in Sources : s # p => streak'[s] = streak[s]
    BY <1>1, <1>4, <2>1 DEF Shape, TypeOK, RecordFailure, Sources
  <2>3. CASE Opens(p)
    <3>1. /\ at'[j] = "down" /\ Subject(j)' = p
          /\ p \notin opened /\ opened' = opened \cup {p}
      BY <1>1, <1>4, <2>1, <2>3 DEF Shape, TypeOK, RecordFailure, Opens, Go, Subject, InHand
    <3>2. ASSUME NEW s \in Sources \ cut', Counted(s)
          PROVE  (told'[s] - told[s]) + (Debt(j, s)' - Debt(j, s)) = State(s)' - State(s)
      <4>1. told[s] \in Int
        BY DEF Shape, TypeOK
      <4> HIDE DEF p
      <4>2. Debt(j, s) = 0 /\ Debt(j, s)' = (IF s = p THEN 1 ELSE 0)
        BY <2>2, <3>1 DEF Debt
      <4>3. State(s)' - State(s) = (IF s = p THEN 1 ELSE 0)
        BY <2>1, <2>2, <3>1 DEF State, Down
      <4> QED
        BY <2>2, <4>1, <4>2, <4>3
    <3> QED
      BY <1>1, <2>2, <3>2, KeepsAddingUp
  <2>4. CASE ~Opens(p)
    <3>1. at'[j] = "try" /\ opened' = opened
      <4>1. at'[j] = "try"
        BY <1>1, <1>4, <2>4 DEF Shape, TypeOK, RecordFailure, Go, TryNext
      <4>2. CASE Count(streak[p]) >= Threshold
        <5>1. p \in opened /\ opened' = opened \cup {p}
          BY <1>4, <2>4, <4>2 DEF RecordFailure, Opens
        <5> QED
          BY <4>1, <5>1
      <4>3. CASE ~(Count(streak[p]) >= Threshold)
        BY <1>4, <4>1, <4>3 DEF RecordFailure, circuits
      <4> QED
        BY <4>2, <4>3
    <3>2. ASSUME NEW s \in Sources \ cut', Counted(s)
          PROVE  (told'[s] - told[s]) + (Debt(j, s)' - Debt(j, s)) = State(s)' - State(s)
      <4>1. told[s] \in Int
        BY DEF Shape, TypeOK
      <4> HIDE DEF p
      <4>2. Debt(j, s) = 0 /\ Debt(j, s)' = 0
        BY <2>2, <3>1 DEF Debt
      <4>3. State(s)' - State(s) = 0
        BY <2>1, <2>2, <3>1 DEF State, Down
      <4> QED
        BY <2>2, <4>1, <4>2, <4>3
    <3> QED
      BY <1>1, <2>2, <3>2, KeepsAddingUp
  <2> QED
    BY <2>3, <2>4
<1>5. CASE ProviderRecovered(j) \/ ProviderDown(j)
  <2>1. p \in Providers /\ Subject(j) = p /\ at[j] \in {"up", "down"}
    BY <1>1, <1>5 DEF Shape, TypeOK, HasInHand, ProviderRecovered, ProviderDown, Subject, InHand
  <2>2. /\ at'[j] \in {"idle", "try"} /\ UNCHANGED <<streak, opened, cut>>
        /\ told' = [told EXCEPT ![p] = IF at[j] = "up" THEN told[p] - 1 ELSE told[p] + 1]
    BY <1>1, <1>5 DEF Shape, TypeOK, ProviderRecovered, ProviderDown, Go, TryNext, circuits
  <2>3. ASSUME NEW s \in Sources \ cut', Counted(s)
        PROVE  (told'[s] - told[s]) + (Debt(j, s)' - Debt(j, s)) = State(s)' - State(s)
    <3>1. told[s] \in Int /\ told \in [Sources -> Int]
      BY DEF Shape, TypeOK
    <3> HIDE DEF p
    <3>2. /\ Debt(j, s) = (IF s # p THEN 0 ELSE IF at[j] = "up" THEN -1 ELSE 1)
          /\ Debt(j, s)' = 0
      BY <2>1, <2>2 DEF Debt
    <3>3. told'[s] - told[s] = (IF s # p THEN 0 ELSE IF at[j] = "up" THEN -1 ELSE 1)
      BY <2>2, <3>1
    <3>4. State(s)' - State(s) = 0
      BY <2>2 DEF State, Down
    <3> QED
      BY <3>2, <3>3, <3>4
  <2> QED
    BY <1>1, <2>2, <2>3, KeepsAddingUp
<1> QED
  BY <1>2, <1>3, <1>4, <1>5 DEF Gateway

\* A job that is alone on its feed tells each crossing of the threshold once.
LEMMA SyncAddsUp ==
  ASSUME Shape, AlertsAddUp, NEW f \in Syncs, Sync(f)
  PROVE  AlertsAddUp'
<1> USE HealthConstants
<1> DEFINE source == FeedOf[f]
           n == streak[source]
<1>1. Shape' /\ OnlyMoves(f) /\ f \in Jobs /\ Subject(f) = source /\ Subject(f)' = source
  BY SyncShape DEF Jobs, Subject
<1>2. source \in Sources /\ source \notin Providers /\ n \in Nat /\ n <= MaxStreak
  BY DEF Sources, Shape, TypeOK
<1>3. CASE Fetch(f) \/ ReadState(f)
  <2>1. /\ at[f] \notin {"up", "down"} /\ at'[f] \notin {"up", "down"}
        /\ UNCHANGED <<streak, opened, told, cut>>
    BY <1>1, <1>3 DEF Shape, TypeOK, Fetch, ReadState, Go, circuits
  <2> QED
    BY <1>1, <2>1, QuietStep
<1>4. CASE WriteSuccess(f)
  <2>1. /\ at[f] = "good" /\ told' = told /\ cut' = cut /\ opened' = opened
        /\ at'[f] = IF before[f] >= Threshold THEN "up" ELSE "idle"
        /\ streak' = [streak EXCEPT ![source] = 0]
    BY <1>1, <1>4 DEF Shape, TypeOK, WriteSuccess, Go, Recovers, circuits
  <2>2. Single(source) => before[f] = n
    BY <1>4 DEF WriteSuccess, Shape, ReadIsFresh
  <2>3. ASSUME NEW s \in Sources \ cut', Counted(s)
        PROVE  (told'[s] - told[s]) + (Debt(f, s)' - Debt(f, s)) = State(s)' - State(s)
    <3>1. told[s] \in Int /\ streak \in [Sources -> Nat]
      BY DEF Shape, TypeOK
    <3>2. CASE s # source
      <4>1. Debt(f, s) = 0 /\ Debt(f, s)' = 0
        BY <1>1, <3>2 DEF Debt
      <4>2. State(s)' = State(s) /\ State(s) \in Int
        BY <2>1, <3>1, <3>2 DEF State, Down
      <4> QED
        BY <2>1, <3>1, <4>1, <4>2
    <3>3. CASE s = source
      <4>1. before[f] = n
        BY <1>2, <2>2, <2>3, <3>3 DEF Counted
      <4>2. Debt(f, s) = 0 /\ Debt(f, s)' = (IF n >= Threshold THEN -1 ELSE 0)
        BY <1>1, <2>1, <3>3, <4>1 DEF Debt
      <4>3. State(s) = (IF n >= Threshold THEN 1 ELSE 0) /\ State(s)' = 0
        BY <1>2, <2>1, <3>1, <3>3 DEF State, Down
      <4> QED
        BY <2>1, <3>1, <4>2, <4>3
    <3> QED
      BY <3>2, <3>3
  <2> QED
    BY <1>1, <2>1, <2>3, KeepsAddingUp
<1>5. CASE WriteFailure(f)
  <2>1. /\ at[f] = "bad" /\ told' = told /\ cut' = cut /\ opened' = opened
        /\ at'[f] = IF before[f] + 1 = Threshold THEN "down" ELSE "idle"
        /\ streak' = [streak EXCEPT ![source] = Count(n)]
    BY <1>1, <1>5 DEF Shape, TypeOK, WriteFailure, Go, Breaks, circuits
  <2>2. Single(source) => before[f] = n
    BY <1>5 DEF WriteFailure, Shape, ReadIsFresh
  <2>3. /\ n + 1 = Threshold => n < Threshold /\ Count(n) >= Threshold
        /\ n + 1 # Threshold => (Count(n) >= Threshold <=> n >= Threshold)
    <3> HIDE DEF n
    <3> QED
      BY <1>2 DEF Count
  <2>4. ASSUME NEW s \in Sources \ cut', Counted(s)
        PROVE  (told'[s] - told[s]) + (Debt(f, s)' - Debt(f, s)) = State(s)' - State(s)
    <3>1. told[s] \in Int /\ streak \in [Sources -> Nat]
      BY DEF Shape, TypeOK
    <3>2. CASE s # source
      <4>1. Debt(f, s) = 0 /\ Debt(f, s)' = 0
        BY <1>1, <3>2 DEF Debt
      <4>2. State(s)' = State(s) /\ State(s) \in Int
        BY <2>1, <3>1, <3>2 DEF State, Down
      <4> QED
        BY <2>1, <3>1, <4>1, <4>2
    <3>3. CASE s = source
      <4>1. before[f] = n
        BY <1>2, <2>2, <2>4, <3>3 DEF Counted
      <4>2. Debt(f, s) = 0 /\ Debt(f, s)' = (IF n + 1 = Threshold THEN 1 ELSE 0)
        BY <1>1, <2>1, <3>3, <4>1 DEF Debt
      <4>3. State(s) = (IF n >= Threshold THEN 1 ELSE 0) /\ State(s)' = (IF Count(n) >= Threshold THEN 1 ELSE 0)
        BY <1>2, <2>1, <3>1, <3>3 DEF State, Down
      <4>4. State(s)' - State(s) = (IF n + 1 = Threshold THEN 1 ELSE 0)
        <5> HIDE DEF n
        <5> QED
          BY <1>2, <2>3, <4>3
      <4> QED
        BY <2>1, <3>1, <4>2, <4>4
    <3> QED
      BY <3>2, <3>3
  <2> QED
    BY <1>1, <2>1, <2>4, KeepsAddingUp
<1>6. CASE FeedAlert(f)
  <2>1. /\ at[f] \in {"up", "down"} /\ at'[f] = "idle" /\ UNCHANGED <<streak, opened, cut>>
        /\ told' = [told EXCEPT ![source] = IF at[f] = "up" THEN told[source] - 1 ELSE told[source] + 1]
    BY <1>1, <1>6 DEF Shape, TypeOK, FeedAlert, Go, circuits
  <2>2. ASSUME NEW s \in Sources \ cut', Counted(s)
        PROVE  (told'[s] - told[s]) + (Debt(f, s)' - Debt(f, s)) = State(s)' - State(s)
    <3>1. told[s] \in Int /\ told \in [Sources -> Int]
      BY DEF Shape, TypeOK
    <3> HIDE DEF source
    <3>2. /\ Debt(f, s) = (IF s # source THEN 0 ELSE IF at[f] = "up" THEN -1 ELSE 1)
          /\ Debt(f, s)' = 0
      BY <1>1, <2>1 DEF Debt
    <3>3. told'[s] - told[s] = (IF s # source THEN 0 ELSE IF at[f] = "up" THEN -1 ELSE 1)
      BY <2>1, <3>1
    <3>4. State(s)' - State(s) = 0
      BY <2>1 DEF State, Down
    <3> QED
      BY <3>2, <3>3, <3>4
  <2> QED
    BY <1>1, <2>1, <2>2, KeepsAddingUp
<1> QED
  BY <1>3, <1>4, <1>5, <1>6 DEF Sync

\* A fault cuts off the source it touches and leaves the others alone.
LEMMA FaultAddsUp ==
  ASSUME Shape, AlertsAddUp, NEW j \in Jobs, AlertLost(j) \/ (j \in Syncs /\ SyncFails(j))
  PROVE  AlertsAddUp'
<1> USE HealthConstants
<1>1. Shape' /\ OnlyMoves(j)
  BY LostShape, SyncShape
<1>2. /\ Subject(j) \in cut' /\ cut \subseteq cut' /\ told' = told /\ opened' = opened
      /\ at'[j] \notin {"up", "down"}
      /\ \A s \in Sources \ cut' : streak'[s] = streak[s]
  <2>1. CASE AlertLost(j)
    BY <2>1, <1>1 DEF Shape, TypeOK, AlertLost, Go, TryNext, Jobs, circuits
  <2>2. CASE j \in Syncs /\ SyncFails(j)
    <3>1. /\ cut' = cut \cup {FeedOf[j]} /\ told' = told /\ opened' = opened /\ at'[j] = "idle"
          /\ \/ streak' = [streak EXCEPT ![FeedOf[j]] = IF at[j] = "good" THEN 0 ELSE Count(streak[FeedOf[j]])]
             \/ streak' = streak
      BY <2>2 DEF Shape, TypeOK, SyncFails, Go, circuits
    <3>2. streak \in [Sources -> 0 .. MaxStreak]
      BY DEF Shape, TypeOK
    <3> QED
      BY <2>2, <3>1, <3>2 DEF Subject
  <2> QED
    BY <2>1, <2>2
<1>3. ASSUME NEW s \in Sources \ cut', Counted(s)
      PROVE  (told'[s] - told[s]) + (Debt(j, s)' - Debt(j, s)) = State(s)' - State(s)
  <2>1. Debt(j, s) = 0
    BY <1>2 DEF Debt
  <2>2. Debt(j, s)' = 0
    BY <1>2 DEF Debt
  <2>3. State(s)' = State(s) /\ State(s) \in Int /\ told[s] \in Int
    BY <1>2 DEF State, Down, Shape, TypeOK
  <2> QED
    BY <1>2, <2>1, <2>2, <2>3
<1> QED
  BY <1>1, <1>2, <1>3, KeepsAddingUp

\* After a restart nothing is owed, and every open circuit or debt is cut off.
LEMMA RestartAddsUp ==
  ASSUME Shape, AlertsAddUp, Restart
  PROVE  AlertsAddUp'
<1>1. /\ opened' = {} /\ told' = told /\ at' = [j \in Jobs |-> "idle"]
      /\ cut' = cut \cup opened \cup {Subject(j) : j \in {i \in Jobs : at[i] \in {"up", "down"}}}
      /\ \A s \in Feeds : streak'[s] = streak[s]
  BY HealthConstants DEF Restart, Sources, Shape, TypeOK
<1> SUFFICES ASSUME NEW s \in Sources, s \notin cut', Counted(s)
             PROVE  Sum(s)' = State(s)'
  BY DEF AlertsAddUp, Sum, State, Counted, Single
<1>2. Sum(s) = State(s)
  BY <1>1 DEF AlertsAddUp, Sum, State, Counted
<1>3. Owing(s, "up") = {} /\ Owing(s, "down") = {}
  BY <1>1 DEF Owing
<1>4. Owing(s, "up")' = {} /\ Owing(s, "down")' = {}
  BY <1>1 DEF Owing
<1>5. State(s)' = State(s)
  BY <1>1 DEF State, Down, Sources
<1> QED
  BY <1>1, <1>2, <1>3, <1>4, <1>5, FS_EmptySet DEF Sum

\* Breakdowns, recoveries and the clock leave alerts and circuits alone.
LEMMA WorldAddsUp ==
  ASSUME Shape, AlertsAddUp, UNCHANGED <<streak, opened, at, queue, told, cut>>
  PROVE  AlertsAddUp'
<1>1. \A s, stage : Owing(s, stage)' = Owing(s, stage)
  BY DEF Owing, Subject, InHand
<1> QED
  BY <1>1 DEF AlertsAddUp, Down, Single

LEMMA InitAddsUp == Init => AlertsAddUp
<1> SUFFICES ASSUME Init, NEW s \in Sources
             PROVE  told[s] + Cardinality(Owing(s, "down")) - Cardinality(Owing(s, "up")) = IF Down(s) THEN 1 ELSE 0
  BY DEF AlertsAddUp
<1>1. Owing(s, "up") = {} /\ Owing(s, "down") = {}
  BY DEF Init, Owing
<1>2. told[s] = 0 /\ ~Down(s)
  BY HealthConstants DEF Init, Down, Sources
<1> QED
  BY <1>1, <1>2, FS_EmptySet

\* The inductive invariant: the shape of the jobs, and the sum.
IInv == Shape /\ AlertsAddUp

LEMMA NextIInv == IInv /\ [Next]_vars => IInv'
<1> SUFFICES ASSUME Shape, AlertsAddUp, [Next]_vars PROVE AlertsAddUp'
  BY NextShape DEF IInv
<1>1. CASE (\E s \in Sources : Change(s)) \/ Tick \/ UNCHANGED vars
  BY <1>1, WorldAddsUp DEF Change, Tick, vars, circuits
<1>2. CASE \E j \in Callers : Gateway(j)
  BY <1>2, GatewayAddsUp
<1>3. ASSUME NEW j \in Callers, NEW pref \in {{}} \cup {{p} : p \in Providers}, Execute(j, pref)
      PROVE  AlertsAddUp'
  <2>1. Shape' /\ OnlyMoves(j) /\ j \in Jobs
    BY <1>3, ExecuteShape DEF Jobs
  <2>2. /\ at[j] \notin {"up", "down"} /\ at'[j] \notin {"up", "down"}
        /\ UNCHANGED <<streak, opened, told, cut>>
    BY <1>3, <2>1 DEF Shape, TypeOK, Execute, Go, circuits
  <2> QED
    BY <2>1, <2>2, QuietStep
<1>4. CASE \E f \in Syncs : Sync(f)
  BY <1>4, SyncAddsUp
<1>5. CASE (\E f \in Syncs : SyncFails(f)) \/ (\E j \in Jobs : AlertLost(j))
  BY <1>5, FaultAddsUp DEF Jobs
<1>6. CASE Restart
  BY <1>6, RestartAddsUp
<1> QED
  BY <1>1, <1>2, <1>3, <1>4, <1>5, <1>6 DEF Next

\* Whatever two jobs find out of the same provider at the same time, the alerts
\* told and owed say what the circuit is, and so do those of a feed that one
\* job writes (ProviderDown, ProviderRecovered, admin_alerts.go).
THEOREM NoAlertLostOrDoubled == Spec => []AlertsAddUp
<1>1. Init => IInv
  BY InitShape, InitAddsUp DEF IInv
<1>2. IInv => AlertsAddUp
  BY DEF IInv
<1> QED
  BY <1>1, <1>2, NextIInv, PTL DEF Spec

-----------------------------------------------------------------------------
(* The inductive invariant of TeamMatching, one part per property.             *)

\* The parts of the state the properties rest on are well formed; without a request
\* there are no candidates.
MatchingShape ==
    /\ Candidates \subseteq Teams /\ IsFiniteSet(Candidates)
    /\ scores \in [Candidates -> Int]
    /\ request \in [status : {"none", "pending", "confirmed", "rejected"}, asks : Nat]
    /\ request.status = "none" => scores = <<>>
    /\ job \in [step : {"idle", "accept", "rank", "offer", "create", "ask", "asking"},
                team : Teams \cup {NoTeam}, to : SUBSET Helpers, left : Nat, sent : Nat]
    /\ job.step \in {"accept", "rank", "offer", "create"} => job.team \in Teams
    /\ job.step \in {"offer", "ask", "asking"} => request.status # "none"
    /\ answering \in [Helpers -> [team : Teams \cup {NoTeam}, answer : {"none", "yes", "no"},
                                  seen : Seq(Int)]]
    /\ card \in [Operators -> [order : Seq(Teams), current : BOOLEAN]]
    /\ deciding \in [Operators -> [step : {"none", "map", "rank", "resolve"},
                                   team : Teams \cup {NoTeam}, shown : Teams \cup {NoTeam},
                                   current : BOOLEAN]]
    /\ \A o \in Operators : deciding[o].step \in {"map", "rank"} => deciding[o].team \in Teams
    /\ asked \in [Helpers -> Nat] /\ questions \in [Helpers -> Nat]
    /\ posted \in Nat /\ failures \in Nat
    /\ manual \subseteq Teams /\ muddled \in BOOLEAN

\* An answer being recorded goes to a candidate, and what a transaction has read of its
\* score still holds: only the holder of the lock has read one.
AnswersHold ==
    /\ NoAnswerIsLost
    /\ \A h \in Helpers :
        /\ answering[h].team # NoTeam => answering[h].team \in Candidates
        /\ answering[h].seen # <<>> => /\ locker = h /\ answering[h].team # NoTeam
                                       /\ answering[h].seen[1] = scores[answering[h].team]

\* The questions the call in hand has sent and not yet counted.
Uncounted == IF job.step = "asking" THEN job.sent ELSE 0

\* A call may only ask as many people as are left of the name's and of its own cap, and
\* only people below theirs. A failure hides a call's questions from the name's counter,
\* and one from a person's.
AsksAddUp ==
    /\ request.asks <= MaxAsks
    /\ job.step = "asking" => /\ request.asks + job.sent + job.left <= MaxAsks
                              /\ job.sent + job.left <= AskBatch
                              /\ \A h \in job.to : asked[h] < MaxLifetime
    /\ posted <= request.asks + Uncounted + AskBatch * failures
    /\ \A h \in Helpers : questions[h] <= asked[h] + failures /\ asked[h] <= MaxLifetime

\* While nothing has overlapped or stopped half way, at most one decision is being carried
\* out, of a request that is pending, and its mapping is the only one.
OneDecision ==
    \/ muddled
    \/ /\ \A o, p \in Operators : deciding[o] # Undecided /\ deciding[p] # Undecided => o = p
       /\ \A o \in Operators : deciding[o] # Undecided =>
            /\ Pending
            /\ manual = IF deciding[o].step = "map" \/ deciding[o].team = NoTeam THEN {}
                        ELSE {deciding[o].team}
       /\ (\A o \in Operators : deciding[o] = Undecided) =>
            IF request.status = "confirmed" THEN \E t \in Teams : manual = {t} ELSE manual = {}

\* A current card shows an order of the candidates as they are scored now.
CardsFollow ==
    /\ \A o \in Operators : card[o].current => card[o].order \in Orders
    /\ ConfirmsWhatWasShown

MatchingIInv == MatchingShape /\ AnswersHold /\ AsksAddUp /\ OneDecision /\ CardsFollow

-----------------------------------------------------------------------------

LEMMA MinOfTwo ==
  \A a, b \in Int : Min({a, b}) \in Int /\ Min({a, b}) <= a /\ Min({a, b}) <= b
<1> SUFFICES ASSUME NEW a \in Int, NEW b \in Int
             PROVE  Min({a, b}) \in Int /\ Min({a, b}) <= a /\ Min({a, b}) <= b
  OBVIOUS
<1>1. \E x \in {a, b} : \A y \in {a, b} : x <= y
  <2>1. CASE a <= b
    BY <2>1
  <2>2. CASE ~(a <= b)
    BY <2>2
  <2> QED
    BY <2>1, <2>2
<1>2. Min({a, b}) \in {a, b} /\ \A y \in {a, b} : Min({a, b}) <= y
  BY <1>1 DEF Min
<1> QED
  BY <1>2

LEMMA MaxOfTwo ==
  \A a, b \in Int : Max({a, b}) \in {a, b} /\ Max({a, b}) >= a /\ Max({a, b}) >= b
<1> SUFFICES ASSUME NEW a \in Int, NEW b \in Int
             PROVE  Max({a, b}) \in {a, b} /\ Max({a, b}) >= a /\ Max({a, b}) >= b
  OBVIOUS
<1>1. \E x \in {a, b} : \A y \in {a, b} : x >= y
  <2>1. CASE a >= b
    BY <2>1
  <2>2. CASE ~(a >= b)
    BY <2>2
  <2> QED
    BY <2>1, <2>2
<1>2. Max({a, b}) \in {a, b} /\ \A y \in {a, b} : Max({a, b}) >= y
  BY <1>1 DEF Max
<1> QED
  BY <1>2

\* An answer moves a score to a score, within its cap.
LEMMA CrowdAdjustedType ==
  ASSUME NEW score \in Int, NEW answer
  PROVE  CrowdAdjusted(score, answer) \in 0 .. Cap
<1> DEFINE next == IF answer = "yes" THEN score + YesBoost ELSE score - NoPenalty
<1>1. next \in Int /\ Cap \in Int /\ Cap >= 0
  BY TeamMatchingConstants
<1> HIDE DEF next
<1>2. Min({Cap, next}) \in Int /\ Min({Cap, next}) <= Cap
  BY <1>1, MinOfTwo, Zenon
<1>3. /\ Max({0, Min({Cap, next})}) \in {0, Min({Cap, next})}
      /\ Max({0, Min({Cap, next})}) >= 0
  BY <1>2, 0 \in Int, MaxOfTwo, Zenon
<1>4. Max({0, Min({Cap, next})}) \in 0 .. Cap
  BY <1>1, <1>2, <1>3
<1> QED
  BY <1>4 DEF CrowdAdjusted, next

LEMMA RemainingBounds ==
  ASSUME NEW sent \in Nat
  PROVE  /\ Remaining(sent) \in Int
         /\ Remaining(sent) <= MaxAsks - sent /\ Remaining(sent) <= AskBatch
<1>1. MaxAsks - sent \in Int /\ AskBatch \in Int
  BY TeamMatchingConstants
<1> QED
  BY <1>1, MinOfTwo DEF Remaining

-----------------------------------------------------------------------------

(* The state stays well formed. *)

LEMMA MatchingInitShape == MatchingInit => MatchingShape
<1> SUFFICES ASSUME MatchingInit PROVE MatchingShape
  OBVIOUS
<1>1. /\ scores = <<>> /\ DOMAIN scores = {}
      /\ request = NoRequest /\ job = Idle /\ manual = {} /\ muddled = FALSE
      /\ answering = [h \in Helpers |-> NotAnswering]
      /\ card = [o \in Operators |-> NoCard] /\ deciding = [o \in Operators |-> Undecided]
      /\ asked = [h \in Helpers |-> 0] /\ questions = [h \in Helpers |-> 0]
      /\ posted = 0 /\ failures = 0
  BY DEF MatchingInit
<1>2. Candidates \subseteq Teams /\ IsFiniteSet(Candidates) /\ scores \in [Candidates -> Int]
  BY <1>1, FS_EmptySet DEF Candidates
<1>3. /\ request \in [status : {"none", "pending", "confirmed", "rejected"}, asks : Nat]
      /\ request.status = "none" => scores = <<>>
  BY <1>1 DEF NoRequest
<1>4. /\ job \in [step : {"idle", "accept", "rank", "offer", "create", "ask", "asking"},
                  team : Teams \cup {NoTeam}, to : SUBSET Helpers, left : Nat, sent : Nat]
      /\ job.step \in {"accept", "rank", "offer", "create"} => job.team \in Teams
      /\ job.step \notin {"offer", "ask", "asking"}
  BY <1>1 DEF Idle
<1>5. answering \in [Helpers -> [team : Teams \cup {NoTeam}, answer : {"none", "yes", "no"},
                                  seen : Seq(Int)]]
  BY <1>1 DEF NotAnswering
<1>6. card \in [Operators -> [order : Seq(Teams), current : BOOLEAN]]
  BY <1>1 DEF NoCard
<1>7. deciding \in [Operators -> [step : {"none", "map", "rank", "resolve"},
                                  team : Teams \cup {NoTeam}, shown : Teams \cup {NoTeam},
                                  current : BOOLEAN]]
      /\ \A o \in Operators : deciding[o].step = "none"
  BY <1>1 DEF Undecided
<1> QED
  BY <1>1, <1>2, <1>3, <1>4, <1>5, <1>6, <1>7 DEF MatchingShape

LEMMA ScoreType == \A t \in Teams : Score[t] \in Int
<1>1. Score \in [Teams -> 0 .. 100]
  BY TeamMatchingConstants
<1> QED
  BY <1>1

\* The candidates grow by one whose score is an integer.
LEMMA CandidatesGrow ==
  ASSUME MatchingShape, NEW t \in Teams, NEW s \in Int,
         NEW new, new = [u \in Candidates \cup {t} |-> IF u = t THEN s ELSE scores[u]],
         scores' = new
  PROVE  /\ Candidates' = Candidates \cup {t} /\ Candidates' \subseteq Teams
         /\ IsFiniteSet(Candidates') /\ scores' \in [Candidates' -> Int]
<1>1. Candidates' = Candidates \cup {t}
  BY DEF Candidates
<1>2. IsFiniteSet(Candidates')
  BY <1>1, FS_AddElement DEF MatchingShape
<1>3. scores' \in [Candidates' -> Int]
  BY <1>1 DEF MatchingShape
<1> QED
  BY <1>1, <1>2, <1>3 DEF MatchingShape

LEMMA RescoredCards ==
  ASSUME MatchingShape, NEW new, Rescored(new)
  PROVE  card' \in [Operators -> [order : Seq(Teams), current : BOOLEAN]]
<1> SUFFICES ASSUME NEW o \in Operators
             PROVE  [card[o] EXCEPT !.current = FALSE] \in [order : Seq(Teams), current : BOOLEAN]
  BY DEF Rescored
<1>1. card[o] \in [order : Seq(Teams), current : BOOLEAN]
  BY DEF MatchingShape
<1> QED
  BY <1>1

LEMMA MatchShape ==
  ASSUME MatchingShape, Match
  PROVE  MatchingShape'
<1> USE DEF names, crowd, review, budgets
<1>1. ASSUME NEW t \in Teams, MatchArrives(t) PROVE MatchingShape'
  BY <1>1 DEF MatchArrives, MatchingShape, Candidates, Idle, Pending
<1>2. CASE AutoAcceptName
  BY <1>2 DEF AutoAcceptName, MatchingShape, Candidates
<1>3. CASE AutoAcceptRanking
  BY <1>3 DEF AutoAcceptRanking, MatchingShape, Candidates, Idle
<1>4. CASE OfferCandidate
  <2>1. CASE job.team \in Candidates \/ Cardinality(Candidates) >= MaxCandidates
    BY <1>4, <2>1 DEF OfferCandidate, MatchingShape, Candidates
  <2>2. CASE ~(job.team \in Candidates \/ Cardinality(Candidates) >= MaxCandidates)
    <3> DEFINE new == [t \in Candidates \cup {job.team} |->
                          IF t = job.team THEN Score[t] ELSE scores[t]]
    <3>1. job.team \in Teams /\ Score[job.team] \in Int
      BY <1>4, ScoreType DEF OfferCandidate, MatchingShape
    <3>2. Rescored(new)
      BY <1>4, <2>2 DEF OfferCandidate
    <3>3. new = [u \in Candidates \cup {job.team} |->
                   IF u = job.team THEN Score[job.team] ELSE scores[u]]
      OBVIOUS
    <3>4. /\ Candidates' \subseteq Teams /\ IsFiniteSet(Candidates')
          /\ scores' \in [Candidates' -> Int]
      BY <3>1, <3>2, <3>3, CandidatesGrow DEF Rescored
    <3>5. card' \in [Operators -> [order : Seq(Teams), current : BOOLEAN]]
      BY <3>2, RescoredCards
    <3>6. /\ request.status # "none"
          /\ UNCHANGED <<request, answering, deciding, asked, questions, posted, failures,
                         manual, muddled>>
          /\ job' = [job EXCEPT !.step = "ask"]
      BY <1>4 DEF OfferCandidate, MatchingShape
    <3> QED
      BY <3>4, <3>5, <3>6 DEF MatchingShape
  <2> QED
    BY <2>1, <2>2
<1>5. CASE CreateRequest
  <2>1. CASE request = NoRequest
    <3>1. job.team \in Teams /\ Score[job.team] \in Int
      BY <1>5, ScoreType DEF CreateRequest, MatchingShape
    <3>2. Rescored([t \in {job.team} |-> Score[t]])
      BY <1>5, <2>1 DEF CreateRequest
    <3>3. Candidates' = {job.team} /\ scores' \in [Candidates' -> Int]
      BY <3>1, <3>2 DEF Rescored, Candidates
    <3>4. card' \in [Operators -> [order : Seq(Teams), current : BOOLEAN]]
      BY <3>2, RescoredCards
    <3>5. /\ request' = [status |-> "pending", asks |-> 0]
          /\ UNCHANGED <<answering, deciding, asked, questions, posted, failures,
                         manual, muddled>>
          /\ job' = [job EXCEPT !.step = "ask"]
      BY <1>5, <2>1 DEF CreateRequest
    <3> QED
      BY <3>1, <3>3, <3>4, <3>5, FS_Singleton DEF MatchingShape
  <2>2. CASE request # NoRequest
    BY <1>5, <2>2 DEF CreateRequest, MatchingShape, Candidates, Idle
  <2> QED
    BY <2>1, <2>2
<1>6. ASSUME NEW voters \in SUBSET Helpers, AskChatHelpers(voters) PROVE MatchingShape'
  <2>1. Remaining(request.asks) \in Nat
    <3>1. request.asks \in Nat /\ Remaining(request.asks) > 0
      BY <1>6 DEF AskChatHelpers, MatchingShape
    <3> QED
      BY <3>1, RemainingBounds
  <2>2. /\ Eligible(voters) \subseteq Helpers /\ job.step = "ask"
        /\ job' = [job EXCEPT !.step = "asking", !.to = Eligible(voters),
                              !.left = Remaining(request.asks), !.sent = 0]
        /\ UNCHANGED <<request, scores, answering, card, deciding, asked, questions, posted,
                       failures, manual, muddled>>
    BY <1>6 DEF AskChatHelpers, Eligible
  <2> QED
    BY <2>1, <2>2 DEF MatchingShape, Candidates
<1>7. ASSUME NEW h \in Helpers, Ask(h) PROVE MatchingShape'
  <2>1. /\ h \in job.to /\ job.left > 0 /\ job.step = "asking"
        /\ \/ job' = [job EXCEPT !.to = @ \ {h}]
           \/ job' = [job EXCEPT !.to = @ \ {h}, !.left = @ - 1, !.sent = @ + 1]
        /\ asked' = asked \/ asked' = [asked EXCEPT ![h] = @ + 1]
        /\ questions' = questions \/ questions' = [questions EXCEPT ![h] = @ + 1]
        /\ posted' \in {posted, posted + 1} /\ failures' \in {failures, failures + 1}
        /\ UNCHANGED <<request, scores, answering, card, deciding, manual, muddled>>
    BY <1>7 DEF Ask, Failure
  <2>2. job' \in [step : {"idle", "accept", "rank", "offer", "create", "ask", "asking"},
                 team : Teams \cup {NoTeam}, to : SUBSET Helpers, left : Nat, sent : Nat]
        /\ job'.step = "asking"
    <3>1. job \in [step : {"idle", "accept", "rank", "offer", "create", "ask", "asking"},
                  team : Teams \cup {NoTeam}, to : SUBSET Helpers, left : Nat, sent : Nat]
      BY DEF MatchingShape
    <3>2. job.left - 1 \in Nat /\ job.sent + 1 \in Nat /\ job.to \ {h} \in SUBSET Helpers
      BY <2>1, <3>1
    <3> QED
      BY <2>1, <3>1, <3>2
  <2>3. /\ asked' \in [Helpers -> Nat] /\ questions' \in [Helpers -> Nat]
        /\ posted' \in Nat /\ failures' \in Nat
    <3>1. /\ asked \in [Helpers -> Nat] /\ questions \in [Helpers -> Nat]
          /\ posted \in Nat /\ failures \in Nat
      BY DEF MatchingShape
    <3> QED
      BY <2>1, <3>1
  <2>4. /\ request.status # "none" /\ job'.step \notin {"accept", "rank", "offer", "create"}
        /\ Candidates' = Candidates
        /\ UNCHANGED <<request, scores, answering, card, deciding, manual, muddled>>
    BY <2>1, <2>2 DEF MatchingShape, Candidates
  <2> QED
    BY <2>2, <2>3, <2>4 DEF MatchingShape
<1>8. CASE CountAsks
  <2>1. /\ request' = [request EXCEPT !.asks = @ + job.sent]
        /\ job' = [Idle EXCEPT !.step = "ask"]
        /\ request.status # "none"
        /\ UNCHANGED <<scores, answering, card, deciding, asked, questions, posted, failures,
                       manual, muddled>>
    BY <1>8 DEF CountAsks, MatchingShape
  <2>2. /\ request' \in [status : {"none", "pending", "confirmed", "rejected"}, asks : Nat]
        /\ request'.status # "none"
    <3>1. request.asks + job.sent \in Nat
      BY DEF MatchingShape
    <3> QED
      BY <2>1, <3>1 DEF MatchingShape
  <2> QED
    BY <2>1, <2>2 DEF MatchingShape, Candidates, Idle
<1>9. CASE JobEnds
  BY <1>9 DEF JobEnds, MatchingShape, Candidates, Idle
<1>10. CASE JobFails
  BY <1>10 DEF JobFails, Failure, MatchingShape, Candidates, Idle
<1> QED
  BY <1>1, <1>2, <1>3, <1>4, <1>5, <1>6, <1>7, <1>8, <1>9, <1>10 DEF Match

\* The feed's job touches nothing of the request, but it may meet a failure.
LEMMA FeedFrame ==
  ASSUME Feed, failures \in Nat
  PROVE  /\ UNCHANGED <<request, scores, tally, job, answering, locker, card, deciding, asked,
                        questions, posted, manual, muddled>>
         /\ failures' \in Nat /\ failures' >= failures
<1> USE DEF names, crowd, review, budgets, Failure
<1>1. CASE FeedArrives
  BY <1>1 DEF FeedArrives
<1>2. CASE ResolveTeam
  <2>1. UNCHANGED <<request, scores, tally, job, answering, locker, card, deciding, asked,
                    questions, posted, manual, muddled>>
    BY <1>2, Zenon DEF ResolveTeam
  <2>2. failures' = failures \/ failures' = failures + 1
    BY <1>2, Zenon DEF ResolveTeam
  <2> QED
    BY <2>1, <2>2
<1>3. CASE SaveRanking
  BY <1>3 DEF SaveRanking
<1> QED
  BY <1>1, <1>2, <1>3 DEF Feed

LEMMA FeedShape ==
  ASSUME MatchingShape, Feed
  PROVE  MatchingShape'
<1>1. failures \in Nat
  BY DEF MatchingShape
<1> QED
  BY <1>1, FeedFrame DEF MatchingShape, Candidates

\* What a transaction writes: one candidate's score.
LEMMA RecordResponseScores ==
  ASSUME MatchingShape, AnswersHold, NEW h \in Helpers, RecordResponse(h)
  PROVE  /\ answering[h].team \in Candidates
         /\ CrowdAdjusted(answering[h].seen[1], answering[h].answer) \in Int
         /\ Rescored([scores EXCEPT ![answering[h].team] =
                        CrowdAdjusted(answering[h].seen[1], answering[h].answer)])
         /\ Candidates' = Candidates /\ scores' \in [Candidates -> Int]
<1>1. /\ answering[h].team \in Candidates
      /\ answering[h].seen \in Seq(Int) /\ answering[h].seen # <<>>
      /\ answering[h].seen[1] = scores[answering[h].team]
  BY DEF MatchingShape, AnswersHold, RecordResponse
<1>2. answering[h].seen[1] \in Int /\ scores \in [Candidates -> Int]
  BY <1>1 DEF MatchingShape
<1>3. CrowdAdjusted(answering[h].seen[1], answering[h].answer) \in Int
  BY <1>2, CrowdAdjustedType, TeamMatchingConstants
<1>4. Rescored([scores EXCEPT ![answering[h].team] =
                  CrowdAdjusted(answering[h].seen[1], answering[h].answer)])
  BY DEF RecordResponse
<1>5. Candidates' = Candidates /\ scores' \in [Candidates -> Int]
  BY <1>2, <1>3, <1>4 DEF Rescored, Candidates
<1> QED
  BY <1>1, <1>3, <1>4, <1>5

LEMMA CrowdShape ==
  ASSUME MatchingShape, AnswersHold, Crowd
  PROVE  MatchingShape'
<1> USE DEF names, crowd, review, budgets
<1> PICK h \in Helpers :
           \/ \E answer \in {"yes", "no"} : AnswerAsk(h, answer)
           \/ ReadScores(h) \/ RecordResponse(h) \/ ResponseFails(h)
           \/ \E out \in BOOLEAN : OptOut(h, out)
  BY DEF Crowd
<1> DEFINE Response == [team : Teams \cup {NoTeam}, answer : {"none", "yes", "no"},
                        seen : Seq(Int)]
<1>1. answering \in [Helpers -> Response] /\ answering[h] \in Response
  BY DEF MatchingShape
<1>2. NotAnswering \in Response
  BY DEF NotAnswering
<1>3. ASSUME NEW answer \in {"yes", "no"}, AnswerAsk(h, answer) PROVE MatchingShape'
  <2>1. PICK t \in Tops : answering' = [answering EXCEPT ![h] =
                 [NotAnswering EXCEPT !.team = t, !.answer = answer]]
    BY <1>3, Zenon DEF AnswerAsk
  <2>2. t \in Teams
    BY DEF Tops, MatchingShape
  <2>3. answering' \in [Helpers -> Response]
    BY <1>1, <1>2, <2>1, <2>2 DEF NotAnswering
  <2>4. UNCHANGED <<request, scores, job, card, deciding, asked, questions, posted, failures,
                    manual, muddled>>
    BY <1>3, Zenon DEF AnswerAsk
  <2> QED
    BY <2>3, <2>4 DEF MatchingShape, Candidates
<1>4. CASE ReadScores(h)
  <2>1. <<scores[answering[h].team]>> \in Seq(Int)
    BY <1>4 DEF ReadScores, AnswersHold, MatchingShape
  <2>2. answering' = [answering EXCEPT ![h].seen = <<scores[answering[h].team]>>]
    BY <1>4 DEF ReadScores
  <2>3. answering' \in [Helpers -> Response]
    BY <1>1, <2>1, <2>2
  <2>4. UNCHANGED <<request, scores, job, card, deciding, asked, questions, posted, failures,
                    manual, muddled>>
    BY <1>4 DEF ReadScores
  <2> QED
    BY <2>3, <2>4 DEF MatchingShape, Candidates
<1>5. CASE RecordResponse(h)
  <2>1. Candidates' = Candidates /\ scores' \in [Candidates -> Int]
    BY <1>5, RecordResponseScores
  <2>2. card' \in [Operators -> [order : Seq(Teams), current : BOOLEAN]]
    BY <1>5, RecordResponseScores, RescoredCards
  <2>3. answering' \in [Helpers -> Response]
    BY <1>1, <1>2, <1>5 DEF RecordResponse
  <2>4. UNCHANGED <<request, job, deciding, asked, questions, posted, failures, manual, muddled>>
    BY <1>5 DEF RecordResponse
  <2>5. request.status # "none"
    <3>1. scores = <<>> => Candidates = {}
      BY DEF Candidates
    <3> QED
      BY <1>5, <3>1, RecordResponseScores DEF MatchingShape
  <2> QED
    BY <2>1, <2>2, <2>3, <2>4, <2>5 DEF MatchingShape
<1>6. CASE ResponseFails(h)
  <2>1. answering' \in [Helpers -> Response]
    BY <1>1, <1>2, <1>6 DEF ResponseFails
  <2>2. UNCHANGED <<request, scores, job, card, deciding, asked, questions, posted, manual, muddled>>
    BY <1>6 DEF ResponseFails
  <2>3. failures' \in Nat
    BY <1>6 DEF ResponseFails, Failure, MatchingShape
  <2> QED
    BY <2>1, <2>2, <2>3 DEF MatchingShape, Candidates
<1>7. ASSUME NEW out \in BOOLEAN, OptOut(h, out) PROVE MatchingShape'
  BY <1>7 DEF OptOut, MatchingShape, Candidates
<1> QED
  BY <1>3, <1>4, <1>5, <1>6, <1>7

LEMMA ReviewShape ==
  ASSUME MatchingShape, Review
  PROVE  MatchingShape'
<1> USE DEF names, crowd, review, budgets
<1> PICK o \in Operators :
            \/ OpenCard(o) \/ Reject(o) \/ MapName(o) \/ ApplyCachedRanking(o) \/ Resolve(o)
            \/ DecisionFails(o)
            \/ \E i \in 1..MaxCandidates : Confirm(o, i)
            \/ \E root \in Roots : Appoint(root, o) \/ Remove(root, o)
  BY DEF Review
<1> DEFINE Decision == [step : {"none", "map", "rank", "resolve"}, team : Teams \cup {NoTeam},
                        shown : Teams \cup {NoTeam}, current : BOOLEAN]
<1>1. deciding \in [Operators -> Decision] /\ deciding[o] \in Decision
  BY DEF MatchingShape
<1>2. Undecided \in Decision
  BY DEF Undecided
<1>3. ASSUME NEW order \in Orders PROVE order \in Seq(Teams)
  <2>1. Cardinality(Candidates) \in Nat /\ Candidates \subseteq Teams
    BY FS_CardinalityType DEF MatchingShape
  <2> QED
    BY <2>1 DEF Orders
<1>4. ASSUME NEW decision \in Decision, Decides(o, decision),
             decision.step \in {"map", "rank"} => decision.team \in Teams
      PROVE  MatchingShape'
  <2>1. deciding' \in [Operators -> Decision] /\ muddled' \in BOOLEAN
    BY <1>1, <1>4 DEF Decides, MatchingShape
  <2>3. \A p \in Operators : deciding'[p].step \in {"map", "rank"} => deciding'[p].team \in Teams
    BY <1>1, <1>4 DEF Decides, MatchingShape
  <2>2. UNCHANGED <<request, scores, job, answering, card, asked, questions, posted, failures,
                    manual>>
    BY <1>4 DEF Decides
  <2> QED
    BY <2>1, <2>2, <2>3 DEF MatchingShape, Candidates
<1>5. CASE OpenCard(o)
  <2>1. PICK order \in Orders : card' = [card EXCEPT ![o] = [order |-> order, current |-> TRUE]]
    BY <1>5 DEF OpenCard
  <2>2. card' \in [Operators -> [order : Seq(Teams), current : BOOLEAN]]
    BY <1>3, <2>1 DEF MatchingShape
  <2>3. UNCHANGED <<request, scores, job, answering, deciding, asked, questions, posted, failures,
                    manual, muddled>>
    BY <1>5 DEF OpenCard
  <2> QED
    BY <2>2, <2>3 DEF MatchingShape, Candidates
<1>6. CASE Reject(o)
  <2>1. /\ [Undecided EXCEPT !.step = "resolve"] \in Decision
        /\ [Undecided EXCEPT !.step = "resolve"].step = "resolve"
    BY DEF Undecided
  <2> QED
    BY <1>4, <1>6, <2>1 DEF Reject
<1>7. CASE MapName(o)
  <2>1. deciding[o].step = "map"
    BY <1>7 DEF MapName
  <2>2. deciding[o].team \in Teams
    BY <2>1 DEF MatchingShape
  <2>3. /\ deciding' \in [Operators -> Decision]
        /\ \A p \in Operators : deciding'[p].step \in {"map", "rank"} => deciding'[p].team \in Teams
    BY <1>1, <1>7, <2>2 DEF MapName, MatchingShape
  <2>5. manual' \subseteq Teams
    BY <1>7, <2>2 DEF MapName, MatchingShape
  <2>4. UNCHANGED <<request, scores, job, answering, card, asked, questions, posted, failures,
                    muddled>>
    BY <1>7 DEF MapName
  <2> QED
    BY <2>3, <2>4, <2>5 DEF MatchingShape, Candidates
<1>8. CASE ApplyCachedRanking(o)
  <2>1. /\ deciding' \in [Operators -> Decision]
        /\ \A p \in Operators : deciding'[p].step \in {"map", "rank"} => deciding'[p].team \in Teams
    <3>1. deciding' = [deciding EXCEPT ![o].step = "resolve"]
      BY <1>8 DEF ApplyCachedRanking
    <3> QED
      BY <1>1, <3>1 DEF MatchingShape
  <2>3. failures' \in Nat
    <3>1. failures' = failures \/ failures' = failures + 1
      BY <1>8 DEF ApplyCachedRanking, Failure
    <3> QED
      BY <3>1 DEF MatchingShape
  <2>2. UNCHANGED <<request, scores, job, answering, card, asked, questions, posted, manual,
                    muddled>>
    BY <1>8 DEF ApplyCachedRanking
  <2> QED
    BY <2>1, <2>2, <2>3 DEF MatchingShape, Candidates
<1>9. CASE Resolve(o)
  <2>1. /\ deciding' \in [Operators -> Decision]
        /\ \A p \in Operators : deciding'[p].step \in {"map", "rank"} => deciding'[p].team \in Teams
    BY <1>1, <1>2, <1>9 DEF Resolve, Undecided, MatchingShape
  <2>2. /\ request' \in [status : {"none", "pending", "confirmed", "rejected"}, asks : Nat]
        /\ request'.status # "none"
    BY <1>9 DEF Resolve, MatchingShape
  <2>3. UNCHANGED <<scores, job, answering, card, asked, questions, posted, failures, manual,
                    muddled>>
    BY <1>9 DEF Resolve
  <2> QED
    BY <2>1, <2>2, <2>3 DEF MatchingShape, Candidates
<1>10. CASE DecisionFails(o)
  <2>1. /\ deciding' \in [Operators -> Decision]
        /\ \A p \in Operators : deciding'[p].step \in {"map", "rank"} => deciding'[p].team \in Teams
    BY <1>1, <1>2, <1>10 DEF DecisionFails, Undecided, MatchingShape
  <2>3. failures' \in Nat /\ muddled' \in BOOLEAN
    BY <1>10 DEF DecisionFails, Failure, MatchingShape
  <2>2. UNCHANGED <<request, scores, job, answering, card, asked, questions, posted, manual>>
    BY <1>10 DEF DecisionFails
  <2> QED
    BY <2>1, <2>2, <2>3 DEF MatchingShape, Candidates
<1>11. ASSUME NEW i \in 1 .. MaxCandidates, Confirm(o, i) PROVE MatchingShape'
  <2> DEFINE Mapping(order) == [step |-> "map", team |-> order[i], shown |-> card[o].order[i],
                                current |-> card[o].current /\ Distinct]
  <2>1. PICK order \in Orders : Decides(o, Mapping(order))
    BY <1>11 DEF Confirm
  <2>2. order[i] \in Teams /\ card[o].order[i] \in Teams
    <3>1. order \in [1 .. Cardinality(Candidates) -> Candidates] /\ Candidates \subseteq Teams
      BY DEF Orders, MatchingShape
    <3>2. card[o].order \in Seq(Teams)
      BY DEF MatchingShape
    <3> QED
      BY <1>11, <3>1, <3>2 DEF Confirm
  <2>3. (card[o].current /\ Distinct) \in BOOLEAN
    BY DEF Distinct, MatchingShape
  <2>4. Mapping(order) \in Decision /\ Mapping(order).team \in Teams
    BY <2>2, <2>3
  <2> QED
    BY <1>4, <2>1, <2>4
<1>12. ASSUME NEW root \in Roots, Appoint(root, o) \/ Remove(root, o) PROVE MatchingShape'
  BY <1>12 DEF Appoint, Remove, MatchingShape, Candidates
<1> QED
  BY <1>5, <1>6, <1>7, <1>8, <1>9, <1>10, <1>11, <1>12

LEMMA MatchingNextShape ==
  ASSUME MatchingShape, AnswersHold, [MatchingNext]_matchingVars
  PROVE  MatchingShape'
<1>1. CASE UNCHANGED matchingVars
  BY <1>1 DEF matchingVars, crowd, review, MatchingShape, Candidates
<1> QED
  BY <1>1, MatchShape, FeedShape, CrowdShape, ReviewShape DEF MatchingNext

-----------------------------------------------------------------------------
(* Every answer counts.                                                        *)

LEMMA MatchingInitAnswers == MatchingInit => AnswersHold
  BY DEF MatchingInit, AnswersHold, NoAnswerIsLost, NotAnswering

\* The steps that neither answer nor change a score.
LEMMA AnswersFrame ==
  ASSUME MatchingNext
  PROVE  \/ OfferCandidate \/ CreateRequest
         \/ \E h \in Helpers : \/ \E answer \in {"yes", "no"} : AnswerAsk(h, answer)
                               \/ ReadScores(h) \/ RecordResponse(h) \/ ResponseFails(h)
         \/ UNCHANGED <<scores, tally, answering, locker>>
<1> USE DEF names, crowd, review, budgets
<1>1. ASSUME NEW t \in Teams, MatchArrives(t) PROVE UNCHANGED <<scores, tally, answering, locker>>
  BY <1>1 DEF MatchArrives
<1>2. ASSUME NEW voters \in SUBSET Helpers, AskChatHelpers(voters)
      PROVE  UNCHANGED <<scores, tally, answering, locker>>
  BY <1>2 DEF AskChatHelpers
<1>3. ASSUME NEW h \in Helpers, Ask(h) PROVE UNCHANGED <<scores, tally, answering, locker>>
  BY <1>3, Zenon DEF Ask
<1>4. AutoAcceptName \/ AutoAcceptRanking \/ CountAsks \/ JobEnds \/ JobFails
        => UNCHANGED <<scores, tally, answering, locker>>
  BY Zenon DEF AutoAcceptName, AutoAcceptRanking, CountAsks, JobEnds, JobFails
<1>5. Feed => UNCHANGED <<scores, tally, answering, locker>>
  BY Zenon DEF Feed, FeedArrives, ResolveTeam, SaveRanking
<1>6. ASSUME NEW h \in Helpers, NEW out \in BOOLEAN, OptOut(h, out)
      PROVE  UNCHANGED <<scores, tally, answering, locker>>
  BY <1>6 DEF OptOut
<1>7. Review => UNCHANGED <<scores, tally, answering, locker>>
  BY Zenon DEF Review, OpenCard, Reject, MapName, ApplyCachedRanking, Resolve, DecisionFails,
               Confirm, Decides, Appoint, Remove
<1> QED
  BY <1>1, <1>2, <1>3, <1>4, <1>5, <1>6, <1>7 DEF MatchingNext, Match, Crowd

\* Candidates that are added take no part in an answer: those scored keep their scores.
LEMMA AnswersSurviveAdding ==
  ASSUME MatchingShape, AnswersHold, UNCHANGED <<answering, locker>>, scores' = tally',
         Candidates \subseteq Candidates', \A t \in Candidates : scores'[t] = scores[t]
  PROVE  AnswersHold'
  BY DEF AnswersHold, NoAnswerIsLost, MatchingShape

LEMMA NextAnswersHold ==
  ASSUME MatchingShape, AnswersHold, [MatchingNext]_matchingVars
  PROVE  AnswersHold'
<1>1. CASE OfferCandidate
  <2>1. CASE job.team \in Candidates \/ Cardinality(Candidates) >= MaxCandidates
    BY <1>1, <2>1 DEF OfferCandidate, AnswersHold, NoAnswerIsLost, Candidates
  <2>2. CASE ~(job.team \in Candidates \/ Cardinality(Candidates) >= MaxCandidates)
    <3> DEFINE new == [t \in Candidates \cup {job.team} |->
                          IF t = job.team THEN Score[t] ELSE scores[t]]
    <3>1. /\ scores' = new
          /\ tally' = [t \in DOMAIN new |-> IF t = job.team THEN Score[t] ELSE tally[t]]
          /\ UNCHANGED <<answering, locker>>
      BY <1>1, <2>2 DEF OfferCandidate, Rescored
    <3>2. scores' = tally'
      BY <3>1 DEF AnswersHold, NoAnswerIsLost
    <3>3. Candidates' = Candidates \cup {job.team} /\ \A t \in Candidates : scores'[t] = scores[t]
      BY <2>2, <3>1 DEF Candidates
    <3> QED
      BY <3>1, <3>2, <3>3, AnswersSurviveAdding
  <2> QED
    BY <2>1, <2>2
<1>2. CASE CreateRequest
  <2>1. CASE request = NoRequest
    <3>1. Candidates = {}
      <4>1. scores = <<>>
        BY <2>1 DEF MatchingShape, NoRequest
      <4> QED
        BY <4>1 DEF Candidates
    <3>2. scores' = tally' /\ UNCHANGED <<answering, locker>>
      BY <1>2, <2>1 DEF CreateRequest, Rescored
    <3> QED
      BY <3>1, <3>2, AnswersSurviveAdding
  <2>2. CASE request # NoRequest
    BY <1>2, <2>2 DEF CreateRequest, AnswersHold, NoAnswerIsLost, Candidates
  <2> QED
    BY <2>1, <2>2
<1>3. ASSUME NEW h \in Helpers, NEW answer \in {"yes", "no"}, AnswerAsk(h, answer)
      PROVE  AnswersHold'
  <2>1. PICK t \in Tops : answering' = [answering EXCEPT ![h] =
                 [NotAnswering EXCEPT !.team = t, !.answer = answer]]
    BY <1>3, Zenon DEF AnswerAsk
  <2>2. t \in Candidates
    BY DEF Tops
  <2>3. UNCHANGED <<scores, tally, locker>>
    BY <1>3, Zenon DEF AnswerAsk
  <2>4. \A g \in Helpers : \/ answering'[g] = answering[g]
                           \/ answering'[g].team = t /\ answering'[g].seen = <<>>
    BY <2>1 DEF NotAnswering, MatchingShape
  <2> QED
    BY <2>2, <2>3, <2>4 DEF AnswersHold, NoAnswerIsLost, Candidates
<1>4. ASSUME NEW h \in Helpers, ReadScores(h) PROVE AnswersHold'
  <2>1. /\ answering[h].team # NoTeam /\ locker = NoOne /\ locker' = h
        /\ answering' = [answering EXCEPT ![h].seen = <<scores[answering[h].team]>>]
        /\ UNCHANGED <<scores, tally>>
    BY <1>4 DEF ReadScores, Unlocked
  <2>2. \A g \in Helpers : answering[g].seen = <<>>
    BY <2>1, TeamMatchingConstants DEF AnswersHold
  <2>3. \A g \in Helpers :
           /\ answering'[g].team = answering[g].team
           /\ g # h => answering'[g].seen = answering[g].seen
           /\ g = h => answering'[g].seen = <<scores[answering[h].team]>>
    BY <2>1 DEF MatchingShape
  <2> QED
    BY <2>1, <2>2, <2>3 DEF AnswersHold, NoAnswerIsLost, Candidates
<1>5. ASSUME NEW h \in Helpers, RecordResponse(h) PROVE AnswersHold'
  <2> DEFINE a == answering[h]
  <2>1. /\ a.team \in Candidates /\ a.seen[1] = scores[a.team] /\ locker = h
        /\ answering' = [answering EXCEPT ![h] = NotAnswering]
        /\ scores' = [scores EXCEPT ![a.team] = CrowdAdjusted(a.seen[1], a.answer)]
        /\ tally' = [tally EXCEPT ![a.team] = CrowdAdjusted(@, a.answer)]
    BY <1>5 DEF RecordResponse, Rescored, AnswersHold, MatchingShape
  <2>2. scores' = tally'
    BY <2>1 DEF AnswersHold, NoAnswerIsLost
  <2>3. \A g \in Helpers : /\ answering'[g].seen = <<>>
                           /\ answering'[g].team # NoTeam => answering'[g].team \in Candidates
    BY <2>1, TeamMatchingConstants DEF AnswersHold, NotAnswering, MatchingShape
  <2>4. Candidates' = Candidates
    BY <2>1 DEF Candidates
  <2> QED
    BY <2>2, <2>3, <2>4 DEF AnswersHold, NoAnswerIsLost
<1>6. ASSUME NEW h \in Helpers, ResponseFails(h) PROVE AnswersHold'
  <2>1. /\ answering' = [answering EXCEPT ![h] = NotAnswering]
        /\ locker' = IF locker = h THEN NoOne ELSE locker
        /\ UNCHANGED <<scores, tally>>
    BY <1>6 DEF ResponseFails
  <2>2. \A g \in Helpers : \/ g # h /\ answering'[g] = answering[g]
                           \/ g = h /\ answering'[g].team = NoTeam /\ answering'[g].seen = <<>>
    BY <2>1 DEF NotAnswering, MatchingShape
  <2> QED
    BY <2>1, <2>2 DEF AnswersHold, NoAnswerIsLost, Candidates
<1>7. CASE UNCHANGED <<scores, tally, answering, locker>>
  BY <1>7 DEF AnswersHold, NoAnswerIsLost, Candidates
<1>8. CASE UNCHANGED matchingVars
  BY <1>7, <1>8 DEF matchingVars
<1> QED
  BY <1>1, <1>2, <1>3, <1>4, <1>5, <1>6, <1>7, <1>8, AnswersFrame

-----------------------------------------------------------------------------
(* The caps on questions hold.                                                 *)

\* One more failure hides another call's questions.
LEMMA OneMoreFailure ==
  ASSUME MatchingShape, failures' = failures \/ failures' = failures + 1
  PROVE  /\ AskBatch \in Nat /\ AskBatch * failures \in Int
         /\ failures' = failures + 1 => AskBatch * failures' = AskBatch * failures + AskBatch
         /\ AskBatch * failures' \in Int /\ AskBatch * failures' >= AskBatch * failures
         /\ failures' \in Nat /\ failures' >= failures
<1>1. AskBatch \in Nat /\ failures \in Nat
  BY TeamMatchingConstants DEF MatchingShape
<1>2. \A b, n \in Nat : b * n \in Int /\ b * (n + 1) = b * n + b
  OBVIOUS
<1> QED
  BY <1>1, <1>2

\* The fields the sums are made of.
LEMMA AsksTypes ==
  ASSUME MatchingShape
  PROVE  /\ request.asks \in Nat /\ job.left \in Nat /\ job.sent \in Nat
         /\ posted \in Nat /\ failures \in Nat /\ MaxAsks \in Nat /\ MaxLifetime \in Nat /\ AskBatch \in Nat
         /\ asked \in [Helpers -> Nat] /\ questions \in [Helpers -> Nat]
         /\ job.to \subseteq Helpers
  BY TeamMatchingConstants DEF MatchingShape

LEMMA MatchingInitAsks == MatchingInit => AsksAddUp
<1> SUFFICES ASSUME MatchingInit PROVE AsksAddUp
  OBVIOUS
<1>1. /\ request.asks = 0 /\ job.step = "idle" /\ posted = 0 /\ failures = 0
      /\ \A h \in Helpers : asked[h] = 0 /\ questions[h] = 0
  BY DEF MatchingInit, NoRequest, Idle
<1>2. MaxAsks \in Nat /\ MaxLifetime \in Nat /\ AskBatch \in Nat
  BY TeamMatchingConstants
<1>3. AskBatch * 0 = 0
  BY <1>2
<1> QED
  BY <1>1, <1>2, <1>3 DEF AsksAddUp, Uncounted

\* Outside the match job nothing is asked or counted.
LEMMA AsksFrame ==
  ASSUME MatchingShape, Feed \/ Crowd \/ Review
  PROVE  /\ UNCHANGED <<job, asked, questions, posted>> /\ request'.asks = request.asks
         /\ failures' = failures \/ failures' = failures + 1
<1> USE DEF names, crowd, review, budgets, Failure
<1>1. ASSUME Feed
      PROVE  /\ UNCHANGED <<job, asked, questions, posted, request>>
             /\ failures' = failures \/ failures' = failures + 1
  BY <1>1, Zenon DEF Feed, FeedArrives, ResolveTeam, SaveRanking
<1>2. ASSUME Crowd
      PROVE  /\ UNCHANGED <<job, asked, questions, posted, request>>
             /\ failures' = failures \/ failures' = failures + 1
  BY <1>2, Zenon DEF Crowd, AnswerAsk, ReadScores, RecordResponse, ResponseFails, OptOut
<1>3. ASSUME NEW o \in Operators, Resolve(o)
      PROVE  /\ UNCHANGED <<job, asked, questions, posted, failures>>
             /\ request'.asks = request.asks
  BY <1>3 DEF Resolve, MatchingShape
<1>4. ASSUME Review, ~ \E o \in Operators : Resolve(o)
      PROVE  /\ UNCHANGED <<job, asked, questions, posted, request>>
             /\ failures' = failures \/ failures' = failures + 1
  BY <1>4, Zenon DEF Review, OpenCard, Reject, MapName, ApplyCachedRanking, DecisionFails,
                    Confirm, Decides, Appoint, Remove
<1> QED
  BY <1>1, <1>2, <1>3, <1>4

\* The job does something else, or stops: what it has not counted yet stays uncounted.
LEMMA AsksSurvive ==
  ASSUME MatchingShape, AsksAddUp, UNCHANGED <<asked, questions, posted>>,
         request'.asks = request.asks, job'.step # "asking",
         \/ failures' = failures /\ job.step # "asking"
         \/ failures' = failures + 1
  PROVE  AsksAddUp'
<1>1. /\ job.step = "asking" => job.sent <= AskBatch
      /\ posted <= request.asks + Uncounted + AskBatch * failures
  BY AsksTypes DEF AsksAddUp
<1>2. posted <= request.asks + AskBatch * failures'
  <2>1. CASE failures' = failures /\ job.step # "asking"
    BY <1>1, <2>1, AsksTypes, OneMoreFailure DEF Uncounted
  <2>2. CASE failures' = failures + 1
    BY <1>1, <2>2, AsksTypes, OneMoreFailure DEF Uncounted
  <2> QED
    BY <2>1, <2>2
<1>3. \A h \in Helpers : questions[h] <= asked[h] + failures' /\ asked[h] <= MaxLifetime
  BY AsksTypes, OneMoreFailure DEF AsksAddUp
<1>4. Uncounted' = 0
  BY DEF Uncounted
<1>5. request.asks + 0 + AskBatch * failures' = request.asks + AskBatch * failures'
  BY AsksTypes, OneMoreFailure
<1> QED
  BY <1>2, <1>3, <1>4, <1>5 DEF AsksAddUp

LEMMA AskAddsUp ==
  ASSUME MatchingShape, AsksAddUp, NEW h \in Helpers, Ask(h)
  PROVE  AsksAddUp'
<1>1. /\ job.step = "asking" /\ h \in job.to /\ job.left > 0
      /\ request' = request
      /\ \/ /\ job' = [job EXCEPT !.to = @ \ {h}]
            /\ UNCHANGED <<asked, questions, posted>>
            /\ failures' = failures \/ failures' = failures + 1
         \/ /\ job' = [job EXCEPT !.to = @ \ {h}, !.left = @ - 1, !.sent = @ + 1]
            /\ questions' = [questions EXCEPT ![h] = @ + 1] /\ posted' = posted + 1
            /\ asked' = [asked EXCEPT ![h] = @ + 1] /\ failures' = failures
         \/ /\ job' = [job EXCEPT !.to = @ \ {h}]
            /\ questions' = [questions EXCEPT ![h] = @ + 1] /\ posted' = posted + 1
            /\ asked' = asked /\ failures' = failures + 1
  BY DEF Ask, Failure
<1>2. /\ request.asks + job.sent + job.left <= MaxAsks /\ request.asks <= MaxAsks
      /\ job.sent + job.left <= AskBatch
      /\ \A g \in job.to : asked[g] < MaxLifetime
      /\ posted <= request.asks + job.sent + AskBatch * failures
      /\ \A g \in Helpers : questions[g] <= asked[g] + failures /\ asked[g] <= MaxLifetime
  BY <1>1 DEF AsksAddUp, Uncounted
<1>3. /\ job'.step = "asking" /\ job'.to = job.to \ {h}
      /\ \/ job'.left = job.left /\ job'.sent = job.sent
         \/ job'.left = job.left - 1 /\ job'.sent = job.sent + 1 /\ posted' = posted + 1
      /\ asked'[h] \in {asked[h], asked[h] + 1}
      /\ \A g \in Helpers \ {h} : asked'[g] = asked[g] /\ questions'[g] = questions[g]
  BY <1>1 DEF MatchingShape
<1>4. failures' = failures \/ failures' = failures + 1
  BY <1>1
<1>5. posted' <= request'.asks + job'.sent + AskBatch * failures'
  <2>1. job.left >= 1 /\ AskBatch >= 1
    BY <1>1, <1>2, AsksTypes, OneMoreFailure, <1>4
  <2>2. \/ posted' = posted /\ job'.sent = job.sent
        \/ posted' = posted + 1 /\ job'.sent = job.sent + 1
        \/ posted' = posted + 1 /\ job'.sent = job.sent /\ failures' = failures + 1
    BY <1>1 DEF MatchingShape
  <2> QED
    BY <1>1, <1>2, <1>4, <2>1, <2>2, AsksTypes, OneMoreFailure
<1>6. \A g \in Helpers : questions'[g] <= asked'[g] + failures' /\ asked'[g] <= MaxLifetime
  <2>1. questions'[h] <= asked'[h] + failures' /\ asked'[h] <= MaxLifetime
    <3>1. \/ questions'[h] = questions[h] /\ asked'[h] = asked[h]
          \/ questions'[h] = questions[h] + 1 /\ asked'[h] = asked[h] + 1
          \/ questions'[h] = questions[h] + 1 /\ asked'[h] = asked[h] /\ failures' = failures + 1
      BY <1>1, AsksTypes
    <3>2. asked[h] \in Nat /\ questions[h] \in Nat /\ asked[h] < MaxLifetime
      BY <1>1, <1>2, AsksTypes
    <3> QED
      BY <1>2, <1>4, <3>1, <3>2, AsksTypes
  <2>2. ASSUME NEW g \in Helpers \ {h}
        PROVE  questions'[g] <= asked'[g] + failures' /\ asked'[g] <= MaxLifetime
    BY <1>2, <1>3, <1>4, AsksTypes
  <2> QED
    BY <2>1, <2>2
<1>7. /\ request.asks + job'.sent + job'.left <= MaxAsks
      /\ job'.sent + job'.left <= AskBatch
  BY <1>2, <1>3, <1>4, AsksTypes, OneMoreFailure
<1>8. \A g \in job'.to : asked'[g] < MaxLifetime
  BY <1>2, <1>3, AsksTypes
<1> QED
  BY <1>1, <1>2, <1>3, <1>5, <1>6, <1>7, <1>8 DEF AsksAddUp, Uncounted

LEMMA NextAsksAddUp ==
  ASSUME MatchingShape, AsksAddUp, [MatchingNext]_matchingVars
  PROVE  AsksAddUp'
<1> USE DEF names, crowd, review, budgets
<1>1. ASSUME UNCHANGED <<job, asked, questions, posted>>, request'.asks = request.asks,
             failures' = failures \/ failures' = failures + 1
      PROVE  AsksAddUp'
  <2>1. posted <= request.asks + Uncounted + AskBatch * failures
    BY DEF AsksAddUp
  <2>2. posted <= request.asks + Uncounted + AskBatch * failures'
    BY <1>1, <2>1, AsksTypes, OneMoreFailure DEF Uncounted
  <2>3. \A h \in Helpers : questions[h] <= asked[h] + failures' /\ asked[h] <= MaxLifetime
    BY <1>1, AsksTypes, OneMoreFailure DEF AsksAddUp
  <2> QED
    BY <1>1, <2>2, <2>3 DEF AsksAddUp, Uncounted
<1>2. ASSUME NEW t \in Teams, MatchArrives(t) PROVE AsksAddUp'
  <2>1. /\ UNCHANGED <<asked, questions, posted, request, failures>>
        /\ job.step = "idle" /\ job'.step # "asking"
    BY <1>2 DEF MatchArrives, Idle
  <2> QED
    BY <2>1, AsksSurvive
<1>3. CASE AutoAcceptName \/ AutoAcceptRanking \/ OfferCandidate
  <2>1. /\ UNCHANGED <<asked, questions, posted, request, failures>>
        /\ job.step # "asking" /\ job'.step # "asking"
    BY <1>3 DEF AutoAcceptName, AutoAcceptRanking, OfferCandidate, Idle, MatchingShape
  <2> QED
    BY <2>1, AsksSurvive
<1>4. CASE CreateRequest
  <2>1. /\ UNCHANGED <<asked, questions, posted, failures>>
        /\ job.step # "asking" /\ job'.step # "asking"
        /\ request'.asks = request.asks
    BY <1>4 DEF CreateRequest, Idle, NoRequest, MatchingShape
  <2> QED
    BY <2>1, AsksSurvive
<1>5. ASSUME NEW voters \in SUBSET Helpers, AskChatHelpers(voters) PROVE AsksAddUp'
  <2>1. /\ UNCHANGED <<asked, questions, posted, request, failures>> /\ job.step = "ask"
        /\ job' = [job EXCEPT !.step = "asking", !.to = Eligible(voters),
                              !.left = Remaining(request.asks), !.sent = 0]
    BY <1>5 DEF AskChatHelpers
  <2>2. /\ job'.step = "asking" /\ job'.to = Eligible(voters) /\ job'.sent = 0
        /\ job'.left = Remaining(request.asks)
    BY <2>1 DEF MatchingShape
  <2>3. /\ Remaining(request.asks) \in Int /\ Remaining(request.asks) <= MaxAsks - request.asks
        /\ Remaining(request.asks) <= AskBatch
    BY AsksTypes, RemainingBounds
  <2>4. /\ request.asks + job'.sent + job'.left <= MaxAsks
        /\ job'.sent + job'.left <= AskBatch
    BY <2>2, <2>3, AsksTypes, TeamMatchingConstants
  <2>5. \A h \in job'.to : asked[h] < MaxLifetime
    BY <2>2 DEF Eligible
  <2>6. Uncounted' = 0 /\ Uncounted = 0
    BY <2>1, <2>2 DEF Uncounted
  <2> QED
    BY <2>1, <2>2, <2>4, <2>5, <2>6 DEF AsksAddUp
<1>6. ASSUME NEW h \in Helpers, Ask(h) PROVE AsksAddUp'
  BY <1>6, AskAddsUp
<1>7. CASE CountAsks
  <2>1. /\ UNCHANGED <<asked, questions, posted, failures>> /\ job.step = "asking"
        /\ request'.asks = request.asks + job.sent /\ job'.step = "ask"
    BY <1>7 DEF CountAsks, Idle, MatchingShape
  <2>2. Uncounted' = 0 /\ Uncounted = job.sent
    BY <2>1 DEF Uncounted
  <2>3. /\ request.asks + job.sent + job.left <= MaxAsks
        /\ posted <= request.asks + job.sent + AskBatch * failures
    BY <2>1, <2>2 DEF AsksAddUp
  <2>4. /\ request.asks + job.sent <= MaxAsks
        /\ posted <= request'.asks + 0 + AskBatch * failures
    BY <2>1, <2>3, AsksTypes, TeamMatchingConstants
  <2> QED
    BY <2>1, <2>2, <2>4 DEF AsksAddUp
<1>8. CASE JobEnds
  <2>1. /\ UNCHANGED <<asked, questions, posted, request, failures>>
        /\ job.step = "ask" /\ job'.step # "asking"
    BY <1>8 DEF JobEnds, Idle
  <2> QED
    BY <2>1, AsksSurvive
<1>9. CASE JobFails
  <2>1. /\ UNCHANGED <<asked, questions, posted, request>> /\ failures' = failures + 1
        /\ job'.step # "asking"
    BY <1>9 DEF JobFails, Failure, Idle
  <2> QED
    BY <2>1, AsksSurvive
<1>10. CASE Match
  BY <1>2, <1>3, <1>4, <1>5, <1>6, <1>7, <1>8, <1>9, <1>10 DEF Match
<1>11. CASE Feed \/ Crowd \/ Review
  BY <1>1, <1>11, AsksFrame
<1>12. CASE UNCHANGED matchingVars
  BY <1>1, <1>12 DEF matchingVars
<1> QED
  BY <1>10, <1>11, <1>12 DEF MatchingNext

-----------------------------------------------------------------------------
(* Decisions stand.                                                            *)

LEMMA MatchingInitDecision == MatchingInit => OneDecision
  BY DEF MatchingInit, OneDecision, NoRequest

\* Outside the review, a request can only become pending, and only from none.
LEMMA DecisionFrame ==
  ASSUME MatchingShape, Match \/ Feed \/ Crowd
  PROVE  /\ UNCHANGED <<deciding, manual, muddled>>
         /\ \/ request'.status = request.status
            \/ request.status = "none" /\ request'.status = "pending"
<1> USE DEF names, crowd, review, budgets
<1>1. ASSUME Match PROVE UNCHANGED <<deciding, manual, muddled>>
  BY <1>1, Zenon DEF Match, MatchArrives, AutoAcceptName, AutoAcceptRanking, OfferCandidate,
       CreateRequest, AskChatHelpers, Ask, CountAsks, JobEnds, JobFails
<1>2. CASE CreateRequest
  BY <1>1, <1>2 DEF CreateRequest, NoRequest, Match
<1>3. CASE CountAsks
  BY <1>1, <1>3 DEF CountAsks, MatchingShape, Match
<1>4. ASSUME Match, ~CreateRequest, ~CountAsks PROVE UNCHANGED request
  BY <1>4, Zenon DEF Match, MatchArrives, AutoAcceptName, AutoAcceptRanking, OfferCandidate,
       AskChatHelpers, Ask, JobEnds, JobFails
<1>5. ASSUME Feed PROVE UNCHANGED <<deciding, manual, muddled, request>>
  BY <1>5, Zenon DEF Feed, FeedArrives, ResolveTeam, SaveRanking
<1>6. ASSUME Crowd PROVE UNCHANGED <<deciding, manual, muddled, request>>
  BY <1>6, Zenon DEF Crowd, AnswerAsk, ReadScores, RecordResponse, ResponseFails, OptOut
<1> QED
  BY <1>1, <1>2, <1>3, <1>4, <1>5, <1>6

LEMMA NextOneDecision ==
  ASSUME MatchingShape, OneDecision, [MatchingNext]_matchingVars
  PROVE  OneDecision'
<1> USE DEF names, crowd, review, budgets
<1>1. ASSUME UNCHANGED <<deciding, manual, muddled>>,
             \/ request'.status = request.status
             \/ request.status = "none" /\ request'.status = "pending"
      PROVE  OneDecision'
  BY <1>1 DEF OneDecision, Pending
<1> SUFFICES ASSUME Review, ~muddled' PROVE OneDecision'
  BY <1>1, DecisionFrame DEF MatchingNext, matchingVars, OneDecision
<1> PICK o \in Operators :
            \/ OpenCard(o) \/ Reject(o) \/ MapName(o) \/ ApplyCachedRanking(o) \/ Resolve(o)
            \/ DecisionFails(o)
            \/ \E i \in 1..MaxCandidates : Confirm(o, i)
            \/ \E root \in Roots : Appoint(root, o) \/ Remove(root, o)
  BY DEF Review
<1>2. CASE muddled
  <2>1. muddled'
    BY <1>2, Zenon DEF OpenCard, Reject, MapName, ApplyCachedRanking, Resolve, DecisionFails,
                       Confirm, Decides, Appoint, Remove
  <2> QED
    BY <2>1
<1>3. CASE ~muddled
  <2>1. /\ \A p, q \in Operators : deciding[p] # Undecided /\ deciding[q] # Undecided => p = q
        /\ \A p \in Operators : deciding[p] # Undecided =>
             /\ Pending
             /\ manual = IF deciding[p].step = "map" \/ deciding[p].team = NoTeam THEN {}
                         ELSE {deciding[p].team}
        /\ (\A p \in Operators : deciding[p] = Undecided) =>
             IF request.status = "confirmed" THEN \E t \in Teams : manual = {t} ELSE manual = {}
    BY <1>3 DEF OneDecision
  <2>2. Undecided.step = "none"
    BY DEF Undecided
  <2>3. ASSUME NEW decision, Decides(o, decision),
               decision.step = "map" \/ decision.team = NoTeam
        PROVE  OneDecision'
    <3>1. /\ \A p \in Operators : deciding[p] = Undecided
          /\ Pending /\ deciding' = [deciding EXCEPT ![o] = decision]
          /\ UNCHANGED <<request, manual>>
      BY <2>3 DEF Decides, Open, Pending
    <3>2. manual = {}
      BY <2>1, <3>1 DEF Pending
    <3>3. /\ \A p \in Operators : p # o => deciding'[p] = Undecided
          /\ deciding'[o] = decision
      BY <3>1 DEF MatchingShape
    <3> QED
      BY <2>3, <3>1, <3>2, <3>3 DEF OneDecision, Pending
  <2>4. CASE Reject(o)
    <3>1. [Undecided EXCEPT !.step = "resolve"].team = NoTeam
      BY DEF Undecided
    <3> QED
      BY <2>3, <2>4, <3>1 DEF Reject
  <2>5. ASSUME NEW i \in 1 .. MaxCandidates, Confirm(o, i) PROVE OneDecision'
    BY <2>3, <2>5 DEF Confirm
  <2>6. ASSUME deciding[o] # Undecided
        PROVE  /\ \A p \in Operators : p # o => deciding[p] = Undecided
               /\ Pending
    BY <2>1, <2>6
  <2>7. ASSUME NEW d, deciding' = [deciding EXCEPT ![o] = d], deciding[o] # Undecided
        PROVE  /\ \A p \in Operators : p # o => deciding'[p] = Undecided
               /\ deciding'[o] = d
    BY <2>6, <2>7 DEF MatchingShape
  <2>8. CASE MapName(o)
    <3>1. /\ deciding[o].step = "map" /\ deciding[o] # Undecided /\ UNCHANGED request
          /\ manual' = manual \cup {deciding[o].team}
          /\ deciding' = [deciding EXCEPT ![o] = [deciding[o] EXCEPT !.step = "rank"]]
      BY <2>2, <2>8 DEF MapName
    <3>2. manual' = {deciding[o].team} /\ deciding[o].team # NoTeam
      BY <2>1, <3>1, TeamMatchingConstants DEF MatchingShape
    <3>3. deciding'[o].step = "rank" /\ deciding'[o].team = deciding[o].team
      BY <2>7, <3>1 DEF MatchingShape
    <3>4. deciding'[o] # Undecided /\ \A p \in Operators : p # o => deciding'[p] = Undecided
      BY <2>2, <2>7, <3>1, <3>3
    <3>5. Pending' /\ manual' = {deciding'[o].team}
      BY <2>6, <3>1, <3>2, <3>3 DEF Pending
    <3> QED
      BY <3>2, <3>3, <3>4, <3>5 DEF OneDecision
  <2>9. CASE ApplyCachedRanking(o)
    <3>1. /\ deciding[o].step = "rank" /\ deciding[o] # Undecided /\ UNCHANGED <<request, manual>>
          /\ deciding' = [deciding EXCEPT ![o] = [deciding[o] EXCEPT !.step = "resolve"]]
      BY <2>2, <2>9 DEF ApplyCachedRanking
    <3>2. manual = {deciding[o].team} /\ deciding[o].team # NoTeam
      BY <2>1, <3>1, TeamMatchingConstants DEF MatchingShape
    <3>3. deciding'[o].step = "resolve" /\ deciding'[o].team = deciding[o].team
      BY <2>7, <3>1 DEF MatchingShape
    <3>4. deciding'[o] # Undecided /\ \A p \in Operators : p # o => deciding'[p] = Undecided
      BY <2>2, <2>7, <3>1, <3>3
    <3>5. Pending' /\ manual' = {deciding'[o].team}
      BY <2>6, <3>1, <3>2, <3>3 DEF Pending
    <3> QED
      BY <3>2, <3>3, <3>4, <3>5 DEF OneDecision
  <2>10. CASE Resolve(o)
    <3>1. /\ deciding[o].step = "resolve" /\ deciding[o] # Undecided /\ UNCHANGED manual
          /\ deciding' = [deciding EXCEPT ![o] = Undecided]
          /\ request'.status = IF deciding[o].team = NoTeam THEN "rejected" ELSE "confirmed"
      BY <2>2, <2>10 DEF Resolve, MatchingShape
    <3>2. \A p \in Operators : deciding'[p] = Undecided
      BY <2>7, <3>1
    <3>3. manual = IF deciding[o].team = NoTeam THEN {} ELSE {deciding[o].team}
      BY <2>1, <3>1
    <3>4. deciding[o].team \in Teams \cup {NoTeam}
      BY DEF MatchingShape
    <3> QED
      BY <3>1, <3>2, <3>3, <3>4 DEF OneDecision
  <2>11. CASE DecisionFails(o)
    <3>1. /\ deciding[o] # Undecided /\ UNCHANGED <<request, manual>>
          /\ deciding' = [deciding EXCEPT ![o] = Undecided]
          /\ deciding[o].team = NoTeam \/ deciding[o].step = "map"
      BY <2>11 DEF DecisionFails
    <3>2. \A p \in Operators : deciding'[p] = Undecided
      BY <2>7, <3>1
    <3>3. manual = {} /\ request.status = "pending"
      BY <2>1, <3>1 DEF Pending
    <3> QED
      BY <3>1, <3>2, <3>3 DEF OneDecision
  <2>12. CASE OpenCard(o)
    BY <1>1, <2>12 DEF OpenCard
  <2>13. ASSUME NEW root \in Roots, Appoint(root, o) \/ Remove(root, o) PROVE OneDecision'
    BY <1>1, <2>13 DEF Appoint, Remove
  <2> QED
    BY <2>4, <2>5, <2>8, <2>9, <2>10, <2>11, <2>12, <2>13
<1> QED
  BY <1>2, <1>3

-----------------------------------------------------------------------------
(* An operator confirms what was shown.                                        *)

\* The candidates that score higher.
Ahead(t) == {u \in Candidates : scores[u] > scores[t]}

\* When no two score alike, a candidate's place in an order tells how many score higher.
LEMMA PlaceInOrder ==
  ASSUME MatchingShape, Distinct, NEW f \in Orders, NEW i \in 1 .. Cardinality(Candidates)
  PROVE  Cardinality(Ahead(f[i])) = i - 1 /\ \A t \in Candidates :
            \E j \in 1 .. Cardinality(Candidates) : f[j] = t
<1> DEFINE n == Cardinality(Candidates)
<1>1. n \in Nat /\ IsFiniteSet(Candidates) /\ scores \in [Candidates -> Int]
  BY FS_CardinalityType DEF MatchingShape
<1>2. /\ f \in [1 .. n -> Candidates]
      /\ \A j, k \in 1 .. n : j < k => f[j] # f[k] /\ scores[f[j]] >= scores[f[k]]
  BY DEF Orders
<1>3. \A j, k \in 1 .. n : f[j] = f[k] => j = k
  <2> SUFFICES ASSUME NEW j \in 1 .. n, NEW k \in 1 .. n, j # k PROVE f[j] # f[k]
    OBVIOUS
  <2>1. j < k \/ k < j
    BY <1>1
  <2> QED
    BY <1>2, <2>1
<1>4. \A t \in Candidates : \E j \in 1 .. n : f[j] = t
  <2>1. f \in Injection(1 .. n, Candidates)
    BY <1>2, <1>3, Fun_IsInj
  <2>2. Cardinality(1 .. n) = n
    BY <1>1, FS_Interval
  <2>3. f \in Surjection(1 .. n, Candidates)
    BY <1>1, <2>1, <2>2, FS_Injection
  <2> QED
    BY <2>3 DEF Surjection
<1>5. i \in 1 .. n /\ i \in Nat /\ i - 1 \in Nat
  BY <1>1
<1>6. ASSUME NEW j \in 1 .. i - 1 PROVE j \in 1 .. n /\ f[j] \in Ahead(f[i])
  <2>1. j \in 1 .. n /\ j < i
    BY <1>1, <1>5
  <2>2. /\ f[j] # f[i] /\ scores[f[j]] >= scores[f[i]] /\ f[j] \in Candidates /\ f[i] \in Candidates
    BY <1>2, <1>5, <2>1
  <2>3. scores[f[j]] # scores[f[i]]
    BY <2>2 DEF Distinct
  <2>4. scores[f[j]] \in Int /\ scores[f[i]] \in Int
    BY <1>1, <2>2
  <2> QED
    BY <2>1, <2>2, <2>3, <2>4 DEF Ahead
<1>7. ASSUME NEW u \in Ahead(f[i]) PROVE \E j \in 1 .. i - 1 : f[j] = u
  <2>1. PICK j \in 1 .. n : f[j] = u
    BY <1>4 DEF Ahead
  <2>2. scores[f[j]] > scores[f[i]] /\ scores[f[j]] \in Int /\ scores[f[i]] \in Int
    BY <1>1, <1>2, <1>5, <2>1 DEF Ahead
  <2>3. ~(j = i) /\ ~(i < j)
    BY <1>2, <1>5, <2>2
  <2>4. j \in 1 .. i - 1
    BY <1>1, <1>5, <2>3
  <2> QED
    BY <2>1, <2>4
<1> DEFINE g == [j \in 1 .. i - 1 |-> f[j]]
<1>8. g \in [1 .. i - 1 -> Ahead(f[i])]
  BY <1>6
<1>9. \A j, k \in 1 .. i - 1 : g[j] = g[k] => j = k
  BY <1>3, <1>6
<1>10. \A u \in Ahead(f[i]) : \E j \in 1 .. i - 1 : g[j] = u
  BY <1>7
<1>11. g \in Bijection(1 .. i - 1, Ahead(f[i]))
  BY <1>8, <1>9, <1>10, Fun_IsBij
<1>12. IsFiniteSet(1 .. i - 1) /\ Cardinality(1 .. i - 1) = i - 1
  BY <1>5, FS_Interval
<1>13. ExistsBijection(1 .. i - 1, Ahead(f[i]))
  BY <1>11, Fun_ExistsBij
<1> QED
  BY <1>4, <1>12, <1>13, FS_Bijection

\* So there is one order only.
LEMMA OneOrder ==
  ASSUME MatchingShape, Distinct, NEW f \in Orders, NEW g \in Orders,
         NEW i \in 1 .. Cardinality(Candidates)
  PROVE  f[i] = g[i]
<1>1. Cardinality(Candidates) \in Nat
  BY FS_CardinalityType DEF MatchingShape
<1>2. f[i] \in Candidates
  BY DEF Orders
<1>3. PICK k \in 1 .. Cardinality(Candidates) : g[k] = f[i]
  BY <1>2, PlaceInOrder
<1>4. Cardinality(Ahead(f[i])) = i - 1 /\ Cardinality(Ahead(g[k])) = k - 1
  BY PlaceInOrder
<1>5. i - 1 = k - 1
  BY <1>3, <1>4
<1>6. i = k
  BY <1>1, <1>5
<1> QED
  BY <1>3, <1>6

LEMMA MatchingInitCards == MatchingInit => CardsFollow
  BY DEF MatchingInit, CardsFollow, ConfirmsWhatWasShown, NoCard, Undecided

\* Outside the review, the candidates change only together with the cards.
LEMMA CardsFrame ==
  ASSUME MatchingShape, Match \/ Feed \/ Crowd
  PROVE  /\ UNCHANGED deciding
         /\ \/ UNCHANGED <<scores, card>>
            \/ \A o \in Operators : ~card'[o].current
<1> USE DEF names, crowd, review, budgets
<1>1. ASSUME NEW new, Rescored(new) PROVE \A o \in Operators : ~card'[o].current
  BY <1>1 DEF Rescored, MatchingShape
<1>2. CASE OfferCandidate
  BY <1>1, <1>2, Zenon DEF OfferCandidate
<1>3. CASE CreateRequest
  BY <1>1, <1>3, Zenon DEF CreateRequest
<1>4. ASSUME NEW h \in Helpers, RecordResponse(h)
      PROVE  UNCHANGED deciding /\ \A o \in Operators : ~card'[o].current
  BY <1>1, <1>4, Zenon DEF RecordResponse
<1>5. ASSUME Match, ~OfferCandidate, ~CreateRequest PROVE UNCHANGED <<deciding, scores, card>>
  BY <1>5, Zenon DEF Match, MatchArrives, AutoAcceptName, AutoAcceptRanking, AskChatHelpers, Ask,
                     CountAsks, JobEnds, JobFails
<1>6. ASSUME Feed PROVE UNCHANGED <<deciding, scores, card>>
  BY <1>6, Zenon DEF Feed, FeedArrives, ResolveTeam, SaveRanking
<1>7. ASSUME Crowd, ~ \E h \in Helpers : RecordResponse(h) PROVE UNCHANGED <<deciding, scores, card>>
  BY <1>7, Zenon DEF Crowd, AnswerAsk, ReadScores, ResponseFails, OptOut
<1> QED
  BY <1>2, <1>3, <1>4, <1>5, <1>6, <1>7

LEMMA NextCardsFollow ==
  ASSUME MatchingShape, CardsFollow, [MatchingNext]_matchingVars
  PROVE  CardsFollow'
<1> USE DEF names, crowd, review, budgets
<1>1. CASE Match \/ Feed \/ Crowd
  BY <1>1, CardsFrame DEF CardsFollow, ConfirmsWhatWasShown, Orders, Candidates
<1>2. ASSUME UNCHANGED <<scores, card>>,
             \A o \in Operators : deciding'[o].current => deciding'[o].team = deciding'[o].shown
      PROVE  CardsFollow'
  BY <1>2 DEF CardsFollow, ConfirmsWhatWasShown, Orders, Candidates
<1>3. CASE UNCHANGED matchingVars
  BY <1>2, <1>3 DEF matchingVars, CardsFollow, ConfirmsWhatWasShown
<1>4. ASSUME NEW o \in Operators, NEW decision, Decides(o, decision),
             decision.current => decision.team = decision.shown
      PROVE  CardsFollow'
  <2>1. UNCHANGED <<scores, card>> /\ deciding' = [deciding EXCEPT ![o] = decision]
    BY <1>4 DEF Decides
  <2> QED
    BY <1>2, <1>4, <2>1 DEF CardsFollow, ConfirmsWhatWasShown, MatchingShape
<1>5. ASSUME NEW o \in Operators, OpenCard(o) PROVE CardsFollow'
  <2>1. PICK order \in Orders : card' = [card EXCEPT ![o] = [order |-> order, current |-> TRUE]]
    BY <1>5 DEF OpenCard
  <2>2. UNCHANGED <<scores, deciding>>
    BY <1>5 DEF OpenCard
  <2>3. \A p \in Operators : card'[p].current => card'[p].order \in Orders
    BY <2>1 DEF CardsFollow, MatchingShape
  <2> QED
    BY <2>2, <2>3 DEF CardsFollow, ConfirmsWhatWasShown, Orders, Candidates
<1>6. ASSUME NEW o \in Operators, Reject(o) PROVE CardsFollow'
  <2>1. ~[Undecided EXCEPT !.step = "resolve"].current
    BY DEF Undecided
  <2> QED
    BY <1>4, <1>6, <2>1 DEF Reject
<1>7. ASSUME NEW o \in Operators, NEW i \in 1 .. MaxCandidates, Confirm(o, i) PROVE CardsFollow'
  <2> DEFINE Mapping(order) == [step |-> "map", team |-> order[i], shown |-> card[o].order[i],
                                current |-> card[o].current /\ Distinct]
  <2>1. PICK order \in Orders : Decides(o, Mapping(order))
    BY <1>7 DEF Confirm
  <2>2. i \in 1 .. Cardinality(Candidates)
    BY <1>7 DEF Confirm
  <2>3. ASSUME card[o].current, Distinct PROVE order[i] = card[o].order[i]
    <3>1. card[o].order \in Orders
      BY <2>3 DEF CardsFollow
    <3> QED
      BY <2>2, <2>3, <3>1, OneOrder
  <2>4. Mapping(order).current => Mapping(order).team = Mapping(order).shown
    BY <2>3
  <2> QED
    BY <1>4, <2>1, <2>4
<1>8. ASSUME NEW o \in Operators, MapName(o) \/ ApplyCachedRanking(o) PROVE CardsFollow'
  <2>1. UNCHANGED <<scores, card>>
    BY <1>8 DEF MapName, ApplyCachedRanking
  <2>2. \/ deciding' = [deciding EXCEPT ![o].step = "rank"]
        \/ deciding' = [deciding EXCEPT ![o].step = "resolve"]
    BY <1>8 DEF MapName, ApplyCachedRanking
  <2>3. \A p \in Operators : /\ deciding'[p].current = deciding[p].current
                             /\ deciding'[p].team = deciding[p].team
                             /\ deciding'[p].shown = deciding[p].shown
    <3>1. deciding \in [Operators -> [step : {"none", "map", "rank", "resolve"},
                           team : Teams \cup {NoTeam}, shown : Teams \cup {NoTeam},
                           current : BOOLEAN]]
      BY DEF MatchingShape
    <3>2. CASE deciding' = [deciding EXCEPT ![o].step = "rank"]
      BY <3>1, <3>2
    <3>3. CASE deciding' = [deciding EXCEPT ![o].step = "resolve"]
      BY <3>1, <3>3
    <3> QED
      BY <2>2, <3>2, <3>3
  <2> QED
    BY <1>2, <2>1, <2>3 DEF CardsFollow, ConfirmsWhatWasShown
<1>9. ASSUME NEW o \in Operators, Resolve(o) \/ DecisionFails(o) PROVE CardsFollow'
  <2>1. UNCHANGED <<scores, card>> /\ deciding' = [deciding EXCEPT ![o] = Undecided]
    BY <1>9 DEF Resolve, DecisionFails
  <2>2. \A p \in Operators : deciding'[p] = deciding[p] \/ ~deciding'[p].current
    BY <2>1 DEF Undecided, MatchingShape
  <2> QED
    BY <1>2, <2>1, <2>2 DEF CardsFollow, ConfirmsWhatWasShown
<1>10. ASSUME NEW o \in Operators, NEW root \in Roots, Appoint(root, o) \/ Remove(root, o)
       PROVE  CardsFollow'
  <2>1. UNCHANGED <<scores, card, deciding>>
    BY <1>10 DEF Appoint, Remove
  <2> QED
    BY <1>2, <2>1 DEF CardsFollow, ConfirmsWhatWasShown
<1>11. CASE Review
  BY <1>5, <1>6, <1>7, <1>8, <1>9, <1>10, <1>11 DEF Review
<1> QED
  BY <1>1, <1>3, <1>11 DEF MatchingNext

-----------------------------------------------------------------------------

THEOREM MatchingInvariance == MatchingSpec => []MatchingIInv
<1>1. MatchingInit => MatchingIInv
  BY MatchingInitShape, MatchingInitAnswers, MatchingInitAsks, MatchingInitDecision,
     MatchingInitCards DEF MatchingIInv
<1>2. MatchingIInv /\ [MatchingNext]_matchingVars => MatchingIInv'
  BY MatchingNextShape, NextAnswersHold, NextAsksAddUp, NextOneDecision, NextCardsFollow
     DEF MatchingIInv
<1> QED
  BY <1>1, <1>2, PTL DEF MatchingSpec

\* However answers, matches, feeds and decisions overlap or fail, no two people who answer at
\* once overwrite each other's effect on a candidate (RecordResponse's FOR UPDATE,
\* postgres/team_match.go).
THEOREM EveryAnswerCounts == MatchingSpec => []NoAnswerIsLost
<1>1. MatchingIInv => NoAnswerIsLost
  BY DEF MatchingIInv, AnswersHold
<1> QED
  BY <1>1, MatchingInvariance, PTL

\* The caps of AskChatHelpers (app/team_match.go) hold for the name and for each person, but
\* for what failures leave uncounted.
THEOREM CapsHold == MatchingSpec => []AsksStayWithinCaps
<1>1. MatchingIInv => AsksStayWithinCaps
  <2> SUFFICES ASSUME MatchingIInv PROVE AsksStayWithinCaps
    OBVIOUS
  <2>1. MatchingShape /\ AsksAddUp
    BY DEF MatchingIInv
  <2>2. request.asks + Uncounted <= MaxAsks
    BY <2>1, AsksTypes DEF AsksAddUp, Uncounted
  <2>3. AskBatch * failures \in Int
    <3>1. \A b, n \in Nat : b * n \in Int
      OBVIOUS
    <3> QED
      BY <2>1, <3>1, AsksTypes
  <2>4. posted <= MaxAsks + AskBatch * failures
    BY <2>1, <2>2, <2>3, AsksTypes DEF AsksAddUp, Uncounted
  <2>5. \A h \in Helpers : questions[h] <= MaxLifetime + failures
    BY <2>1, AsksTypes DEF AsksAddUp
  <2> QED
    BY <2>4, <2>5 DEF AsksStayWithinCaps
<1> QED
  BY <1>1, MatchingInvariance, PTL

\* Decisions that neither overlap nor stop half way leave the name mapped as the request says;
\* old cards and second taps do not undo one (confirmTeamMatch, rejectTeamMatch).
THEOREM NoDecisionIsUndone == MatchingSpec => []DecisionsStand
<1>1. MatchingIInv => DecisionsStand
  BY FS_EmptySet, FS_Singleton DEF MatchingIInv, OneDecision, DecisionsStand
<1> QED
  BY <1>1, MatchingInvariance, PTL

\* From a card that is current, with no two candidates alike, an operator confirms the team
\* whose button was tapped (confirmTeamMatch looks the place up in the order as it is now).
THEOREM OperatorsConfirmWhatTheySee == MatchingSpec => []ConfirmsWhatWasShown
<1>1. MatchingIInv => ConfirmsWhatWasShown
  BY DEF MatchingIInv, CardsFollow
<1> QED
  BY <1>1, MatchingInvariance, PTL

=============================================================================
