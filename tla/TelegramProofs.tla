---------------------------- MODULE TelegramProofs ----------------------------
(***************************************************************************)
(* Machine-checked proofs about what comes in from Telegram: UpdateDelivery,  *)
(* for any set of updates, any number of deliveries and any number of         *)
(* faults, and Screens, for any groups and any roles in them.                 *)
(***************************************************************************)
EXTENDS UpdateDelivery, Screens, TLAPS

\* A delivery that holds the claim, or ended without giving it up.
Occupies(u, n) == at[u][n] \in {"claimed", "failed", "done", "throttled"}

\* Whoever occupies an update has its claim in the ledger, and is alone. That
\* covers both "two at once" and "one after the other".
OccupantsClaim ==
    \A u \in Updates : \A n \in Tries : Occupies(u, n) => u \in claims
OneOccupant ==
    \A u \in Updates : \A m, n \in Tries : Occupies(u, m) /\ Occupies(u, n) => m = n

IInv == TypeOK /\ OccupantsClaim /\ OneOccupant

LEMMA InitIInv == Init => IInv
  BY DeliveryConstants DEF Init, IInv, TypeOK, OccupantsClaim, OneOccupant, Occupies, Tries

\* A step that lets no delivery occupy anything new, and takes away only the
\* claims of updates nobody occupies afterwards, keeps the occupants in order.
LEMMA NoNewOccupant ==
    ASSUME OccupantsClaim, OneOccupant,
           \A u \in Updates : \A n \in Tries : Occupies(u, n)' => Occupies(u, n),
           \A u \in Updates : u \in claims /\ u \notin claims' => \A n \in Tries : ~Occupies(u, n)'
    PROVE  OccupantsClaim' /\ OneOccupant'
  BY DEF OccupantsClaim, OneOccupant

LEMMA NextIInv == IInv /\ [Next]_vars => IInv'
  <1> SUFFICES ASSUME IInv, [Next]_vars PROVE IInv'
    OBVIOUS
  <1>0. TypeOK /\ OccupantsClaim /\ OneOccupant
    BY DEF IInv
  <1> USE DeliveryConstants, <1>0 DEF Working, Ended, Fault
  <1>1. CASE UNCHANGED vars
    <2>1. TypeOK'
      BY <1>1 DEF vars, TypeOK
    <2>2. OccupantsClaim' /\ OneOccupant'
      BY <1>1, NoNewOccupant DEF vars, Occupies
    <2> QED BY <2>1, <2>2 DEF IInv
  <1>2. ASSUME NEW u \in Updates, Deliver(u) PROVE IInv'
    <2>1. deliveries[u] + 1 \in Tries
      BY <1>2 DEF Deliver, TypeOK, Tries
    <2>2. TypeOK'
      BY <1>2, <2>1 DEF Deliver, TypeOK
    <2>3. \A v \in Updates : \A n \in Tries : Occupies(v, n)' => Occupies(v, n)
      BY <1>2, <2>1 DEF Deliver, TypeOK, Occupies
    <2>4. OccupantsClaim' /\ OneOccupant'
      BY <1>2, <2>3, NoNewOccupant DEF Deliver
    <2> QED BY <2>2, <2>4 DEF IInv
  <1>3. ASSUME NEW u \in Updates, Disconnect(u) PROVE IInv'
    <2>1. TypeOK'
      BY <1>3 DEF Disconnect, TypeOK
    <2>2. OccupantsClaim' /\ OneOccupant'
      BY <1>3, NoNewOccupant DEF Disconnect, Occupies
    <2> QED BY <2>1, <2>2 DEF IInv
  <1>4. ASSUME NEW u \in Updates, NEW n \in Tries, Claim(u, n) PROVE IInv'
    <2>1. TypeOK'
      BY <1>4 DEF Claim, TypeOK
    <2>2. \A m \in Tries : ~Occupies(u, m)
      BY <1>4 DEF Claim, OccupantsClaim
    <2>3. \A v \in Updates : \A m \in Tries : Occupies(v, m)' => Occupies(v, m) \/ (v = u /\ m = n)
      BY <1>4 DEF Claim, TypeOK, Occupies
    <2>4. OccupantsClaim'
      BY <1>4, <2>3 DEF Claim, OccupantsClaim
    <2>5. OneOccupant'
      BY <2>2, <2>3 DEF OneOccupant
    <2> QED BY <2>1, <2>4, <2>5 DEF IInv
  <1>5. ASSUME NEW u \in Updates, NEW n \in Tries, SkipDuplicate(u, n) PROVE IInv'
    <2>1. TypeOK'
      BY <1>5 DEF SkipDuplicate, Respond, TypeOK
    <2>2. \A v \in Updates : \A m \in Tries : Occupies(v, m)' => Occupies(v, m)
      BY <1>5 DEF SkipDuplicate, Respond, TypeOK, Occupies
    <2>3. OccupantsClaim' /\ OneOccupant'
      BY <1>5, <2>2, NoNewOccupant DEF SkipDuplicate
    <2> QED BY <2>1, <2>3 DEF IInv
  <1>6. ASSUME NEW u \in Updates, NEW n \in Tries, ClaimFails(u, n) PROVE IInv'
    <2>1. TypeOK'
      BY <1>6 DEF ClaimFails, StatementFails, Respond, TypeOK
    <2>2. \A v \in Updates : \A m \in Tries : Occupies(v, m)' => Occupies(v, m)
      BY <1>6 DEF ClaimFails, Respond, TypeOK, Occupies
    <2>3. OccupantsClaim' /\ OneOccupant'
      BY <1>6, <2>2, NoNewOccupant DEF ClaimFails
    <2> QED BY <2>1, <2>3 DEF IInv
  <1>7. ASSUME NEW u \in Updates, NEW n \in Tries, Throttle(u, n) \/ Dispatch(u, n) PROVE IInv'
    <2>1. TypeOK'
      <3>1. CASE Throttle(u, n)
        BY <3>1 DEF Throttle, Respond, TypeOK
      <3>2. CASE Dispatch(u, n)
        BY <3>2 DEF Dispatch, Respond, TypeOK
      <3> QED BY <1>7, <3>1, <3>2
    <2>2. \A v \in Updates : \A m \in Tries : Occupies(v, m)' => Occupies(v, m)
      BY <1>7 DEF Throttle, Dispatch, Respond, TypeOK, Occupies
    <2>3. OccupantsClaim' /\ OneOccupant'
      BY <1>7, <2>2, NoNewOccupant DEF Throttle, Dispatch
    <2> QED BY <2>1, <2>3 DEF IInv
  <1>8. ASSUME NEW u \in Updates, NEW n \in Tries, DispatchFails(u, n) PROVE IInv'
    <2>1. TypeOK'
      BY <1>8 DEF DispatchFails, TypeOK
    <2>2. \A v \in Updates : \A m \in Tries : Occupies(v, m)' => Occupies(v, m)
      BY <1>8 DEF DispatchFails, TypeOK, Occupies
    <2>3. OccupantsClaim' /\ OneOccupant'
      BY <1>8, <2>2, NoNewOccupant DEF DispatchFails
    <2> QED BY <2>1, <2>3 DEF IInv
  <1>9. ASSUME NEW u \in Updates, NEW n \in Tries, Release(u, n) PROVE IInv'
    <2>1. TypeOK'
      BY <1>9 DEF Release, Respond, TypeOK
    <2>2. \A v \in Updates : \A m \in Tries : Occupies(v, m)' => Occupies(v, m) /\ ~(v = u /\ m = n)
      BY <1>9 DEF Release, Respond, TypeOK, Occupies
    <2>3. \A m \in Tries : ~Occupies(u, m)'
      <3>1. Occupies(u, n)
        BY <1>9 DEF Release, Occupies
      <3> QED BY <3>1, <2>2 DEF OneOccupant
    <2>4. OccupantsClaim' /\ OneOccupant'
      BY <1>9, <2>2, <2>3, NoNewOccupant DEF Release
    <2> QED BY <2>1, <2>4 DEF IInv
  <1>10. ASSUME NEW u \in Updates, NEW n \in Tries, ReleaseFails(u, n) PROVE IInv'
    <2>1. TypeOK'
      BY <1>10 DEF ReleaseFails, StatementFails, Respond, TypeOK
    <2>2. \A v \in Updates : \A m \in Tries : Occupies(v, m)' => Occupies(v, m)
      BY <1>10 DEF ReleaseFails, Respond, TypeOK, Occupies
    <2>3. OccupantsClaim' /\ OneOccupant'
      BY <1>10, <2>2, NoNewOccupant DEF ReleaseFails
    <2> QED BY <2>1, <2>3 DEF IInv
  <1>11. CASE Crash
    <2>1. TypeOK'
      BY <1>11 DEF Crash, TypeOK
    <2>2. \A v \in Updates : \A m \in Tries : Occupies(v, m)' => Occupies(v, m)
      BY <1>11 DEF Crash, TypeOK, Occupies
    <2>3. OccupantsClaim' /\ OneOccupant'
      BY <1>11, <2>2, NoNewOccupant DEF Crash
    <2> QED BY <2>1, <2>3 DEF IInv
  <1> QED
    BY <1>1, <1>2, <1>3, <1>4, <1>5, <1>6, <1>7, <1>8, <1>9, <1>10, <1>11 DEF Next, Telegram, Handle, Fails

\* Every reachable state is well typed; Telegram never waits on what it has
\* taken as acknowledged.
THEOREM TypeCorrect == Spec => []TypeOK
  <1>1. IInv => TypeOK
    BY DEF IInv
  <1> QED BY <1>1, InitIInv, NextIInv, PTL DEF Spec

\* No update is ever dispatched by two deliveries at once.
THEOREM NeverTwoHandlers == Spec => []OneHandlerAtATime
  <1>1. IInv => OneHandlerAtATime
    BY DEF IInv, OneOccupant, Occupies, OneHandlerAtATime, Holds
  <1> QED BY <1>1, InitIInv, NextIInv, PTL DEF Spec

\* No update is carried through, or throttled, by two deliveries.
THEOREM NeverHandledTwice == Spec => []HandledAtMostOnce
  <1>1. IInv => HandledAtMostOnce
    BY DEF IInv, OneOccupant, Occupies, HandledAtMostOnce
  <1> QED BY <1>1, InitIInv, NextIInv, PTL DEF Spec

-----------------------------------------------------------------------------
(* What is lost. As long as no fault other than a dispatch's has touched an    *)
(* update, Telegram listens to every delivery of it that works, so there is    *)
(* only one, and whatever keeps the next one out has settled it.               *)

\* Deliveries not made yet have left no trace.
FutureIsBlank ==
    \A u \in Updates : \A n \in Tries : n > deliveries[u] => at[u][n] = "none"

\* Telegram listens to whoever works on an untouched update.
WorkersAreHeard ==
    \A u \in Updates \ cut : \A n \in Tries : at[u][n] \in Working => Connected(u, n)

\* The claim of an untouched update is somebody's.
ClaimsAreOwned ==
    \A u \in claims \ cut : \E n \in Tries : Occupies(u, n)

\* An untouched update is acknowledged because it was settled.
AckedAreSettled ==
    \A u \in acked \ cut : Settled(u)

LossInv == FutureIsBlank /\ WorkersAreHeard /\ ClaimsAreOwned /\ AckedAreSettled

LEMMA InitLossInv == Init => LossInv
  BY DEF Init, LossInv, FutureIsBlank, WorkersAreHeard, ClaimsAreOwned, AckedAreSettled, Working

\* What a step of one delivery must do to the update it is about; it touches no
\* other update.
LEMMA OneUpdateMoves ==
    ASSUME LossInv, NEW u \in Updates,
           \A v \in Updates \ {u} : /\ at'[v] = at[v] /\ deliveries'[v] = deliveries[v]
                                    /\ (v \in claims' <=> v \in claims)
                                    /\ (v \in acked' <=> v \in acked)
                                    /\ (v \in waiting' <=> v \in waiting)
                                    /\ (v \in cut' <=> v \in cut),
           acked' \subseteq Updates, claims' \subseteq Updates,
           \A n \in Tries : n > deliveries'[u] => at'[u][n] = "none",
           u \notin cut' => /\ (\A n \in Tries : at'[u][n] \in Working => Connected(u, n)')
                           /\ (u \in claims' => \E n \in Tries : Occupies(u, n)')
                           /\ (u \in acked' => Settled(u)')
    PROVE  LossInv'
  <1>1. FutureIsBlank'
    BY DEF LossInv, FutureIsBlank
  <1>2. WorkersAreHeard'
    BY DEF LossInv, WorkersAreHeard, Connected
  <1>3. ClaimsAreOwned'
    BY DEF LossInv, ClaimsAreOwned, Occupies
  <1>4. AckedAreSettled'
    BY DEF LossInv, AckedAreSettled, Settled
  <1> QED BY <1>1, <1>2, <1>3, <1>4 DEF LossInv

LEMMA NextLossInv == IInv /\ LossInv /\ [Next]_vars => LossInv'
  <1> SUFFICES ASSUME IInv, LossInv, [Next]_vars PROVE LossInv'
    OBVIOUS
  <1>0. TypeOK /\ OccupantsClaim /\ OneOccupant
    BY DEF IInv
  <1> USE DeliveryConstants, <1>0
  \* An untouched update has one delivery at work at most: the one Telegram hears.
  <1>a. ASSUME NEW u \in Updates, u \notin cut, NEW n \in Tries, at[u][n] \in Working
        PROVE  Connected(u, n) /\ \A m \in Tries : m # n => at[u][m] \notin Working
    BY <1>a DEF LossInv, WorkersAreHeard, Connected, TypeOK
  <1>1. CASE UNCHANGED vars
    BY <1>1 DEF vars, LossInv, FutureIsBlank, WorkersAreHeard, ClaimsAreOwned, AckedAreSettled,
                Connected, Occupies, Settled
  <1>2. ASSUME NEW u \in Updates, Deliver(u) PROVE LossInv'
    <2>1. deliveries[u] + 1 \in Tries
      BY <1>2 DEF Deliver, TypeOK, Tries
    <2>2. /\ deliveries'[u] = deliveries[u] + 1 /\ u \in waiting'
          /\ \A n \in Tries : at'[u][n] = IF n = deliveries[u] + 1 THEN "received" ELSE at[u][n]
      BY <1>2, <2>1 DEF Deliver, TypeOK
    <2>3. at[u][deliveries[u] + 1] = "none"
      BY <2>1 DEF LossInv, FutureIsBlank, TypeOK
    <2>4. \A n \in Tries : n > deliveries'[u] => at'[u][n] = "none"
      BY <2>2 DEF LossInv, FutureIsBlank, TypeOK, Tries
    <2>5. u \notin cut' => \A n \in Tries : at'[u][n] \in Working => Connected(u, n)'
      <3> SUFFICES ASSUME u \notin cut', NEW n \in Tries, at'[u][n] \in Working PROVE Connected(u, n)'
        OBVIOUS
      <3>1. n = deliveries[u] + 1
        BY <1>2, <1>a, <2>2 DEF Deliver, Connected
      <3> QED BY <3>1, <2>2 DEF Connected
    <2>6. u \notin cut' => (u \in claims' => \E n \in Tries : Occupies(u, n)')
      BY <1>2, <2>2, <2>3 DEF Deliver, LossInv, ClaimsAreOwned, Occupies
    <2>7. u \notin acked'
      BY <1>2 DEF Deliver
    <2> QED BY <1>2, <2>4, <2>5, <2>6, <2>7, OneUpdateMoves DEF Deliver, TypeOK
  <1>3. ASSUME NEW u \in Updates, Disconnect(u) PROVE LossInv'
    <2>1. u \in cut'
      BY <1>3 DEF Disconnect
    <2> QED BY <1>3, <2>1, OneUpdateMoves DEF Disconnect, TypeOK, LossInv, FutureIsBlank
  \* The steps of a delivery: it was heard, or its update was touched before.
  <1>b. ASSUME NEW u \in Updates, NEW n \in Tries, Handle(u, n) \/ Fails(u, n)
        PROVE  /\ at[u][n] \in Working
               /\ n <= deliveries[u]
               /\ deliveries' = deliveries /\ (u \in cut => u \in cut')
               /\ \A v \in Updates \ {u} : /\ at'[v] = at[v]
                                           /\ (v \in claims' <=> v \in claims)
                                           /\ (v \in acked' <=> v \in acked)
                                           /\ (v \in waiting' <=> v \in waiting)
                                           /\ (v \in cut' <=> v \in cut)
               /\ acked' \subseteq Updates /\ claims' \subseteq Updates
               /\ \A m \in Tries \ {n} : at'[u][m] = at[u][m]
    <2>0. at[u][n] \in Working
      BY <1>b DEF Handle, Fails, Claim, SkipDuplicate, Throttle, Dispatch, Release, ClaimFails,
                  DispatchFails, ReleaseFails, Working
    <2>1. n <= deliveries[u]
      BY <2>0 DEF LossInv, FutureIsBlank, TypeOK, Tries, Working
    <2>2. CASE Handle(u, n)
      <3>1. CASE Claim(u, n)
        BY <3>1, <2>0, <2>1 DEF Claim, TypeOK
      <3>2. CASE SkipDuplicate(u, n)
        BY <3>2, <2>0, <2>1 DEF SkipDuplicate, Respond, TypeOK
      <3>3. CASE Throttle(u, n)
        BY <3>3, <2>0, <2>1 DEF Throttle, Respond, TypeOK
      <3>4. CASE Dispatch(u, n)
        BY <3>4, <2>0, <2>1 DEF Dispatch, Respond, TypeOK
      <3>5. CASE Release(u, n)
        BY <3>5, <2>0, <2>1 DEF Release, Respond, TypeOK
      <3> QED BY <2>2, <3>1, <3>2, <3>3, <3>4, <3>5 DEF Handle
    <2>3. CASE Fails(u, n)
      <3>1. CASE ClaimFails(u, n)
        BY <3>1, <2>0, <2>1 DEF ClaimFails, StatementFails, Respond, TypeOK
      <3>2. CASE DispatchFails(u, n)
        BY <3>2, <2>0, <2>1 DEF DispatchFails, TypeOK
      <3>3. CASE ReleaseFails(u, n)
        BY <3>3, <2>0, <2>1 DEF ReleaseFails, StatementFails, Respond, TypeOK
      <3> QED BY <2>3, <3>1, <3>2, <3>3 DEF Fails
    <2> QED BY <1>b, <2>2, <2>3
  \* What remains is the update itself, as long as nothing has touched it.
  <1>c. ASSUME NEW u \in Updates, NEW n \in Tries, Handle(u, n) \/ Fails(u, n),
               u \notin cut' => /\ (at'[u][n] \in Working => Connected(u, n)')
                               /\ (u \in claims' => \E m \in Tries : Occupies(u, m)')
                               /\ (u \in acked' => Settled(u)')
        PROVE  LossInv'
    <2>1. \A m \in Tries : m > deliveries'[u] => at'[u][m] = "none"
      <3> SUFFICES ASSUME NEW m \in Tries, m > deliveries'[u] PROVE at'[u][m] = "none"
        OBVIOUS
      <3>1. m > deliveries[u] /\ m # n
        BY <1>b, <1>c DEF TypeOK, Tries
      <3> QED BY <3>1, <1>b, <1>c DEF LossInv, FutureIsBlank
    <2>2. u \notin cut' => \A m \in Tries : at'[u][m] \in Working => Connected(u, m)'
      <3> SUFFICES ASSUME u \notin cut', NEW m \in Tries, at'[u][m] \in Working PROVE Connected(u, m)'
        OBVIOUS
      <3>1. u \notin cut
        BY <1>b, <1>c
      <3>2. m = n
        BY <1>a, <1>b, <1>c, <3>1
      <3> QED BY <3>2, <1>c
    <2> QED BY <1>b, <1>c, <2>1, <2>2, OneUpdateMoves
  <1>4. ASSUME NEW u \in Updates, NEW n \in Tries, Claim(u, n) PROVE LossInv'
    <2>1. at'[u][n] = "claimed"
      BY <1>4 DEF Claim, TypeOK
    <2>2. Connected(u, n)' <=> Connected(u, n)
      BY <1>4 DEF Claim, Connected
    <2>3. at[u][n] \in Working
      BY <1>4 DEF Claim, Working
    <2>4. u \notin acked' \/ u \in cut'
      BY <1>4, <1>a, <2>3 DEF Claim, TypeOK, Connected
    <2> QED BY <1>4, <1>a, <1>c, <2>1, <2>2, <2>3, <2>4 DEF Claim, Handle, Occupies
  <1>5. ASSUME NEW u \in Updates, NEW n \in Tries, SkipDuplicate(u, n) PROVE LossInv'
    <2>1. at[u][n] = "received" /\ at'[u][n] = "skipped" /\ u \in claims /\ cut' = cut
      BY <1>5 DEF SkipDuplicate, Respond, TypeOK
    <2>2. Handle(u, n)
      BY <1>5 DEF Handle
    <2>3. u \notin cut => \E m \in Tries \ {n} : at[u][m] \in {"done", "throttled"}
      BY <1>a, <2>1 DEF LossInv, ClaimsAreOwned, Occupies, Working
    <2>4. u \notin cut => \E m \in Tries : at'[u][m] \in {"done", "throttled"}
      BY <1>b, <2>2, <2>3
    <2> QED BY <1>c, <2>1, <2>2, <2>4 DEF Occupies, Settled, Working
  <1>6. ASSUME NEW u \in Updates, NEW n \in Tries, Throttle(u, n) \/ Dispatch(u, n) PROVE LossInv'
    <2>1. at'[u][n] \in {"done", "throttled"}
      BY <1>6 DEF Throttle, Dispatch, Respond, TypeOK
    <2>2. Handle(u, n)
      BY <1>6 DEF Handle
    <2> QED BY <1>c, <2>1, <2>2 DEF Occupies, Settled, Working
  <1>7. ASSUME NEW u \in Updates, NEW n \in Tries, Release(u, n) PROVE LossInv'
    <2>1. /\ at[u][n] = "failed" /\ at'[u][n] = "rejected" /\ u \notin claims' /\ cut' = cut
          /\ acked' = acked
      BY <1>7 DEF Release, Respond, TypeOK
    <2>2. Handle(u, n)
      BY <1>7 DEF Handle
    <2>3. u \notin cut => u \notin acked
      BY <1>a, <2>1 DEF Working, Connected, TypeOK
    <2> QED BY <1>c, <2>1, <2>2, <2>3 DEF Working
  <1>8. ASSUME NEW u \in Updates, NEW n \in Tries, ClaimFails(u, n) \/ ReleaseFails(u, n) PROVE LossInv'
    <2>1. at[u][n] \in Working /\ StatementFails(u, n)
      BY <1>8 DEF ClaimFails, ReleaseFails, Working
    <2>2. u \in cut'
      BY <1>a, <2>1 DEF StatementFails
    <2> QED BY <1>8, <1>c, <2>2 DEF Fails
  <1>9. ASSUME NEW u \in Updates, NEW n \in Tries, DispatchFails(u, n) PROVE LossInv'
    <2>1. /\ at[u][n] = "claimed" /\ at'[u][n] = "failed" /\ cut' = cut /\ claims' = claims
          /\ acked' = acked /\ (Connected(u, n)' <=> Connected(u, n))
      BY <1>9 DEF DispatchFails, TypeOK, Connected
    <2>2. Fails(u, n)
      BY <1>9 DEF Fails
    <2>3. u \notin cut => Connected(u, n) /\ u \notin acked
      BY <1>a, <2>1 DEF Working, Connected, TypeOK
    <2> QED BY <1>c, <2>1, <2>2, <2>3 DEF Occupies
  <1>10. CASE Crash
    <2>1. /\ deliveries' = deliveries /\ acked' = acked /\ claims' = claims
          /\ \A u \in Updates : \A n \in Tries :
                at'[u][n] = IF at[u][n] \in Working THEN "died" ELSE at[u][n]
          /\ cut' = cut \cup {u \in Updates : \E n \in Tries : at[u][n] \in Working}
      BY <1>10 DEF Crash
    <2>2. \A u \in Updates \ cut' : \A n \in Tries : at[u][n] \notin Working /\ at'[u][n] = at[u][n]
      BY <2>1
    <2>3. FutureIsBlank'
      BY <2>1 DEF LossInv, FutureIsBlank, Working
    <2>4. WorkersAreHeard'
      BY <2>2 DEF WorkersAreHeard
    <2>5. ClaimsAreOwned'
      BY <2>1, <2>2 DEF LossInv, ClaimsAreOwned, Occupies, TypeOK
    <2>6. AckedAreSettled'
      BY <2>1, <2>2 DEF LossInv, AckedAreSettled, Settled, TypeOK
    <2> QED BY <2>3, <2>4, <2>5, <2>6 DEF LossInv
  <1> QED
    BY <1>1, <1>2, <1>3, <1>4, <1>5, <1>6, <1>7, <1>8, <1>9, <1>10 DEF Next, Telegram, Handle, Fails

\* An update Telegram stops delivering, or the ledger blocks, was settled, or a
\* connection, a statement or a process failed around it: an un-claimed failure
\* alone loses nothing.
THEOREM NothingIsLostQuietly == Spec => []OnlyCutUpdatesAreLost
  <1>1. IInv /\ LossInv => OnlyCutUpdatesAreLost
    BY DEF IInv, TypeOK, LossInv, ClaimsAreOwned, AckedAreSettled, Occupies, Working, Idle, Settled,
           OnlyCutUpdatesAreLost
  <1> QED BY <1>1, InitIInv, NextIInv, InitLossInv, NextLossInv, PTL DEF Spec

-----------------------------------------------------------------------------
(* The screens: the way back.                                              *)

\* How far a back target is from a screen that has none; 9 is no back target.
Rank(b) ==
    CASE b = "none" -> 0
      [] b = "hub:root" -> 1
      [] b \in {"pstats:menu", "hub:system"} -> 2
      [] b \in {"manage:chats", "pstats:results", "pstats:settings", "hub:team_match_operators",
                "team_matches:list"} -> 3
      [] b \in {"menu:main", "pstats:chats", "pstats:years", "tmatch_admin:add"} -> 4
      [] b \in {"menu:stats", "menu:settings", "menu:events", "pstats:chat"} -> 5
      [] b \in {"stats:years", "stats:events", "stats:teams", "settings:moderators", "events:add",
                "events:mine", "menu:targets", "bulk:menu"} -> 6
      [] b \in {"stats:months", "stats:event", "moderators:add", "moderators:card"} -> 7
      [] b \in {"stats:evpick", "moderators:permstart:e", "moderators:permstart:i",
                "moderators:permstart:a"} -> 8
      [] OTHER -> 9

\* What button b shows leads back somewhere and, if b is a back target, to
\* somewhere nearer than b.
Climbs(b, p) ==
    p = Same \/ (Rank(p.back) \in 0..8 /\ (Rank(b) \in 1..8 => Rank(p.back) < Rank(b)))

\* So it is with each route.

LEMMA EventRouteClimbs ==
    ASSUME NEW b, NEW r, NEW dm, NEW o \in EventRoute(b, r, dm)
    PROVE  Climbs(b, o.panel)
  BY DEF EventRoute, ForManager, EventDetails, EventAddMenu, RenderEventBrowse, CleanupMenu,
         CleanupFinished, SubscribedEvents, Subscribe, Unsubscribe, ConfirmUnsubscribe,
         RejectUnsubscribe, SetEventTopic, DismissCrossSell, EventsExit, Closed, NoBack, Climbs, Rank,
         Shows, Does, Panel, Stays

LEMMA TargetRouteClimbs ==
    ASSUME NEW b, NEW r, NEW dm, NEW o \in TargetRoute(b, r, dm)
    PROVE  Climbs(b, o.panel)
  BY DEF TargetRoute, TargetOutcomes, ForManager, TargetsMenu, TargetsMine, BrowseTeams,
         BrowsePlayers, SubscribeTarget, SubscribePlayer, UnsubscribeTarget, UnsubscribePlayer,
         NoBack, Climbs, Rank, Shows, Does, Panel, Stays

LEMMA SettingOutcomesClimb ==
    ASSUME NEW b, NEW dm, NEW o \in SettingOutcomes(b, dm)
    PROVE  Climbs(b, o.panel)
  <1>1. CASE b \in SavedSettings
    BY <1>1 DEF SettingOutcomes, SavedSettings, SettingsView, Climbs, Rank, Does, Panel
  <1>2. CASE b \in {"settings:auto_subscribe", "settings:auto_subscribe:"}
    BY <1>2 DEF SettingOutcomes, SavedSettings, SettingsView, RouteSettingsAutoSubscribe,
         AutoSubscribeView, Climbs, Rank, Shows, Does, Panel, Stays
  <1>3. CASE b \in {"settings:games", "settings:games:toggle"}
    BY <1>3 DEF SettingOutcomes, SavedSettings, GamesView, RouteSettingsGamesToggle,
         RequestGameDisable, Climbs, Rank, Shows, Does, Panel, Stays, NoBack
  <1>4. CASE b \in {"settings:notify", "settings:notify:", "settings:quiet", "settings:quiet:",
                    "settings:timezone", "settings:tz"}
    BY <1>4 DEF SettingOutcomes, SavedSettings, ChatNotificationsMenu, QuietHoursView, TimezoneView,
         Climbs, Rank, Shows, Does, Panel, Stays
  <1>5. CASE b \in {"bulk:menu", "bulk:ask", "bulk:do"}
    BY <1>5 DEF SettingOutcomes, SavedSettings, BulkMenu, BulkConfirm, BulkApply,
         Climbs, Rank, Shows, Does, Panel
  <1> QED
    BY <1>1, <1>2, <1>3, <1>4, <1>5 DEF SettingOutcomes

LEMMA SettingRouteClimbs ==
    ASSUME NEW b, NEW r, NEW dm, NEW o \in SettingRoute(b, r, dm)
    PROVE  Climbs(b, o.panel)
  <1>1. CASE b \in {"menu:settings", "settings:moderators", "settings:history"}
    <2>1. \/ o = Stays
          \/ b = "menu:settings" /\ o = Shows(SettingsView(dm))
          \/ b = "settings:moderators" /\ o = Shows(ModeratorsView)
          \/ b = "settings:history" /\ o = Shows(HistoryView)
      <3>1. SettingOutcomes(b, dm) = {}
        BY <1>1 DEF SettingOutcomes, SavedSettings
      <3> QED
        BY <1>1, <3>1 DEF SettingRoute, ForManager
    <2> QED
      BY <2>1 DEF SettingsView, ModeratorsView, HistoryView, Climbs, Rank, Shows, Does, Panel, Stays
  <1>2. CASE b \notin {"menu:settings", "settings:moderators", "settings:history"}
    <2>1. o = Stays \/ o \in SettingOutcomes(b, dm)
      BY <1>2 DEF SettingRoute
    <2> QED
      BY <2>1, SettingOutcomesClimb DEF Climbs, Stays, Shows, Does
  <1> QED
    BY <1>1, <1>2

LEMMA ModeratorRouteClimbs ==
    ASSUME NEW b, NEW r, NEW dm, NEW o \in ModeratorRoute(b, r, dm)
    PROVE  Climbs(b, o.panel)
  <1>1. ASSUME NEW q \in WizardOutcomes(b)
        PROVE  Climbs(b, q.panel)
    BY <1>1 DEF WizardOutcomes, Flows, InFlow, PermStart, PermPreset, PermToggle, PermConfirm,
         PermApply, PermPresetView, PermToggleView, PermConfirmView, PermWizardBackTarget,
         RoutePermPreset, RoutePermApply, ApplyEditPermissions, ApplyAssignNew, CreateInvitation,
         ModeratorCardView, ModeratorsView, InvitationCreatedView, Climbs, Rank, Shows, Does, Panel
  <1>2. ASSUME NEW q \in ModeratorOutcomes(b)
        PROVE  Climbs(b, q.panel)
    <2>1. CASE b \in {"moderators:add", "moderators:pick", "moderators:card"}
      BY <1>2, <2>1 DEF ModeratorOutcomes, AssignMenuView, ParticipantPickView, ModeratorCardView,
         Climbs, Rank, Shows, Does, Panel
    <2>2. CASE b \in {"moderators:remove:ask", "moderators:remove:do",
                      "moderators:invite:revoke:ask", "moderators:invite:revoke:do"}
      BY <1>2, <2>2 DEF ModeratorOutcomes, RemoveAskView, ModeratorsView, InvitationRevokeAskView,
         Climbs, Rank, Shows, Does, Panel
    <2>3. q \in WizardOutcomes(b) \/ b \in {"moderators:add", "moderators:pick", "moderators:card"}
            \/ b \in {"moderators:remove:ask", "moderators:remove:do",
                      "moderators:invite:revoke:ask", "moderators:invite:revoke:do"}
      BY <1>2 DEF ModeratorOutcomes
    <2> QED
      BY <1>1, <2>1, <2>2, <2>3
  <1> QED
    BY <1>2 DEF ModeratorRoute, Climbs, Stays, Shows, Does

\* A board leads back to where it was opened from.
LEMMA BoardLeadsBack ==
    ASSUME NEW period, NEW game \in BOOLEAN, NEW back, NEW o, o = RenderLeaderboard(period, game, back)
    PROVE  o.panel.back = back
  BY DEF RenderLeaderboard, LeaderboardKeyboard, Shows, Does, Panel

LEMMA BoardRouteArms ==
    ASSUME NEW b, NEW o \in BoardRoute(b)
    PROVE  \E g \in BOOLEAN :
            \/ b = Filtered("stats:all", g) /\ o = RenderLeaderboard("a", g, "menu:stats")
            \/ b = Filtered("stats:year:menu", g) /\ o = RenderLeaderboard("y", g, "menu:stats")
            \/ b = "stats:year:years" /\ o = RenderLeaderboard("y", FALSE, "stats:years")
            \/ b = Filtered("stats:month:menu", g) /\ o = RenderLeaderboard("m", g, "menu:stats")
            \/ b = "stats:month:months" /\ o = RenderLeaderboard("m", FALSE, "stats:months")
            \/ b = "stats:event" /\ o = RenderLeaderboard("e", FALSE, "stats:events")
  BY DEF BoardRoute

LEMMA BoardRouteClimbs ==
    ASSUME NEW b, NEW o \in BoardRoute(b)
    PROVE  Climbs(b, o.panel)
  <1>1. PICK g \in BOOLEAN :
            \/ b = Filtered("stats:all", g) /\ o = RenderLeaderboard("a", g, "menu:stats")
            \/ b = Filtered("stats:year:menu", g) /\ o = RenderLeaderboard("y", g, "menu:stats")
            \/ b = "stats:year:years" /\ o = RenderLeaderboard("y", FALSE, "stats:years")
            \/ b = Filtered("stats:month:menu", g) /\ o = RenderLeaderboard("m", g, "menu:stats")
            \/ b = "stats:month:months" /\ o = RenderLeaderboard("m", FALSE, "stats:months")
            \/ b = "stats:event" /\ o = RenderLeaderboard("e", FALSE, "stats:events")
    BY BoardRouteArms
  <1>2. \/ o.panel.back = "menu:stats" \/ o.panel.back = "stats:years"
        \/ o.panel.back = "stats:months" \/ (b = "stats:event" /\ o.panel.back = "stats:events")
    <2>1. \A period, back : o = RenderLeaderboard(period, g, back) => o.panel.back = back
      BY BoardLeadsBack
    <2>2. \A period, back : o = RenderLeaderboard(period, FALSE, back) => o.panel.back = back
      BY BoardLeadsBack
    <2> QED
      BY <1>1, <2>1, <2>2, ZenonT(30)
  <1>3. \/ b \in {"stats:all", "stats:all:g", "stats:year:menu", "stats:year:menu:g", "stats:year:years"}
        \/ b \in {"stats:month:menu", "stats:month:menu:g", "stats:month:months", "stats:event"}
    BY <1>1 DEF Filtered
  <1>4. b = "stats:event" => o.panel.back = "stats:events"
    <2>1. b = "stats:event" => o = RenderLeaderboard("e", FALSE, "stats:events")
      BY <1>1 DEF Filtered
    <2> QED
      BY <2>1, BoardLeadsBack
  <1> QED
    BY <1>2, <1>3, <1>4 DEF Climbs, Rank

LEMMA StatsPageClimbs ==
    ASSUME NEW b, NEW o \in RouteStatsPage(b)
    PROVE  Climbs(b, o.panel)
  BY BoardLeadsBack DEF RouteStatsPage, Filtered, Climbs, Rank

LEMMA StatsRouteClimbs ==
    ASSUME NEW b, NEW r, NEW dm, NEW o \in StatsRoute(b, r, dm)
    PROVE  Climbs(b, o.panel)
  <1>1. CASE b \in {"menu:stats", "stats:years", "stats:months", "stats:events", "stats:teams"}
    <2>1. CASE b \in {"menu:stats", "stats:years", "stats:months"}
      BY <2>1 DEF StatsRoute, StatsMenu, YearMenu, MonthMenu, Climbs, Rank, Shows, Does, Panel
    <2>2. CASE b \in {"stats:events", "stats:teams"}
      BY <2>2 DEF StatsRoute, EventStatsMenu, TargetStatsMenu, Climbs, Rank, Shows, Does, Panel
    <2> QED
      BY <1>1, <2>1, <2>2
  <1>2. CASE b \in {"stats:target:team", "stats:evbets:me", "stats:evbets:u", "stats:evpick"}
    <2>1. CASE b = "stats:target:team"
      <3>1. o = RenderLeaderboard("a", FALSE, "stats:teams")
        BY <2>1 DEF StatsRoute, TargetTeamStats
      <3>2. o.panel.back = "stats:teams"
        BY <3>1, BoardLeadsBack
      <3> QED
        BY <2>1, <3>2 DEF Climbs, Rank
    <2>2. CASE b # "stats:target:team"
      BY <1>2, <2>2 DEF StatsRoute, RenderEventBets, RenderEventParticipantPicker,
         Climbs, Rank, Shows, Does, Panel
    <2> QED
      BY <2>1, <2>2
  <1>3. CASE b \in {"stats:chart", "stats:rankchart", "stats:rankchart:e"}
    BY <1>3 DEF StatsRoute, SendProgressionChart, SendRankChart, Climbs, Rank, Shows, Does, Panel, Stays
  <1>4. \/ b \in {"menu:stats", "stats:years", "stats:months", "stats:events", "stats:teams"}
        \/ b \in {"stats:target:team", "stats:evbets:me", "stats:evbets:u", "stats:evpick"}
        \/ b \in {"stats:chart", "stats:rankchart", "stats:rankchart:e"}
        \/ o \in BoardRoute(b) \cup RouteStatsPage(b)
    BY DEF StatsRoute
  <1> QED
    BY <1>1, <1>2, <1>3, <1>4, BoardRouteClimbs, StatsPageClimbs

LEMMA MenuRouteClimbs ==
    ASSUME NEW b, NEW r, NEW dm, NEW o \in MenuRoute(b, r, dm)
    PROVE  Climbs(b, o.panel)
  BY DEF MenuRoute, RouteMenuMain, Menu, ReadOnlyGroupMenu, EventMenu, Upcoming, HelpView, RulesOrigins,
         RulesTarget, NoBack, Climbs, Rank, Shows, Does, Panel

\* So it is with every button of a chat's screen, and of a personal one.
LEMMA RouteCallbackClimbs ==
    ASSUME NEW b, NEW r, NEW dm, NEW o \in RouteCallback(b, r, dm)
    PROVE  Climbs(b, o.panel)
  BY MenuRouteClimbs, StatsRouteClimbs, EventRouteClimbs, TargetRouteClimbs, SettingRouteClimbs,
     ModeratorRouteClimbs DEF RouteCallback, Climbs, Stays, Shows, Does

LEMMA PersonalCallbackClimbs ==
    ASSUME NEW b, NEW v, NEW o \in PersonalCallback(b, v)
    PROVE  Climbs(b, o.panel)
  <1> USE DEF Climbs, Rank, Shows, Does, Panel, Stays, NoBack, Closed, PersonalRootBack
  <1>1. ASSUME NEW p \in ResultsCallback(b)
        PROVE  Climbs(b, p)
    BY <1>1 DEF ResultsCallback, PrivateResultsMenu, RenderPrivateStats, PrivateYearMenu,
         PrivateMonthMenu, PrivateChatsMenu, RenderPrivateChatStats, PrivateBetsMenu,
         RenderPersonalBets, RenderPersonalInsights
  <1>2. ASSUME NEW q \in CabinetCallback(b, v)
        PROVE  Climbs(b, q.panel)
    BY <1>2 DEF CabinetCallback, PrivateStatsMenu, StartLanding, ModeHub, ManagedChatsMenu,
         PrivateSettingsMenu, AchievementsView, HelpView
  <1>3. ASSUME NEW q \in PreferenceCallback(b, v)
        PROVE  Climbs(b, q.panel)
    BY <1>3 DEF PreferenceCallback, PrivateSettingsMenu, NotificationsMenu, RenameMenu,
         UserTimezoneView, SuggestionMenu, RequestMiniAppAccess, AcceptInvitation, PrivateStatsMenu
  <1>4. ASSUME NEW q \in SystemCallback(b, v)
        PROVE  Climbs(b, q.panel)
    BY <1>4 DEF SystemCallback, SystemToolsMenu, ProviderStatusView, HostStatusView,
         OutboxStatusView, OutboxPanel, ReplayDeadLetters, AlertsMenu, AlertsPanel, ToggleAlert,
         ToggleCrestSource, ListTeamMatchOperators, OperatorsPanel, TeamMatchAdminAddMenu,
         TeamMatchAdminPickUserMenu, AppointTeamMatchOperator, RemoveTeamMatchOperator,
         DecideMiniAppAccess, ForRoot, Refuse
  <1>5. ASSUME NEW q \in TeamMatchCallback(b, v)
        PROVE  Climbs(b, q.panel)
    BY <1>5 DEF TeamMatchCallback, AnswerTeamMatchAsk, SetTeamMatchHelperOptOut, TeamMatchQueueMenu,
         QueuePanel, TeamMatchCardMenu, ConfirmTeamMatch, RejectTeamMatch, ForOperator, Refuse
  <1> HIDE DEF Climbs
  <1> QED
    BY <1>1, <1>2, <1>3, <1>4, <1>5 DEF PersonalCallback

-----------------------------------------------------------------------------
(* The screens: the rights an outcome stands for.                           *)

\* No route of a chat's buttons changes what the rights r do not allow.
Needs(o, r) ==
    /\ o.op \notin {"none", "DismissOffer", "RevokeInvitation"} => r.manager
    /\ o.op \in SettingsOps => r.settings
    /\ o.op \in StaffOps => r.admin
    /\ o.op \notin RootOps \cup QueueOps

LEMMA EventRouteNeeds ==
    ASSUME NEW b, NEW r, NEW dm, NEW o \in EventRoute(b, r, dm)
    PROVE  Needs(o, r)
  BY DEF EventRoute, ForManager, CleanupFinished, Subscribe, Unsubscribe, ConfirmUnsubscribe,
         RejectUnsubscribe, SetEventTopic, DismissCrossSell, Needs, SettingsOps, StaffOps, RootOps, QueueOps,
         Shows, Does, Stays

LEMMA TargetRouteNeeds ==
    ASSUME NEW b, NEW r, NEW dm, NEW o \in TargetRoute(b, r, dm)
    PROVE  Needs(o, r)
  BY DEF TargetRoute, TargetOutcomes, ForManager, SubscribeTarget, SubscribePlayer,
         UnsubscribeTarget, UnsubscribePlayer, Needs, SettingsOps, StaffOps, RootOps, QueueOps,
         Shows, Does, Stays

LEMMA SettingRouteNeeds ==
    ASSUME NEW b, NEW r, NEW dm, NEW o \in SettingRoute(b, r, dm), r.settings => r.manager
    PROVE  Needs(o, r)
  <1>1. \A q \in SettingOutcomes(b, dm) : q.op = "none" \/ q.op \in SettingsOps
    BY DEF SettingOutcomes, RouteSettingsAutoSubscribe, RouteSettingsGamesToggle, RequestGameDisable,
         BulkApply, SettingsOps, Shows, Does, Stays
  <1>2. \/ o.op = "none"
        \/ r.settings /\ o \in SettingOutcomes(b, dm)
    BY DEF SettingRoute, ForManager, Shows, Does, Stays
  <1> QED
    BY <1>1, <1>2 DEF Needs, SettingsOps, StaffOps, RootOps, QueueOps

LEMMA ModeratorRouteNeeds ==
    ASSUME NEW b, NEW r, NEW dm, NEW o \in ModeratorRoute(b, r, dm), r.admin => r.manager
    PROVE  Needs(o, r)
  <1>1. \A q \in WizardOutcomes(b) : q.op = "none" \/ q.op \in StaffOps
    BY DEF WizardOutcomes, RoutePermPreset, RoutePermApply, InFlow, ApplyEditPermissions,
         ApplyAssignNew, CreateInvitation, StaffOps, Shows, Does
  <1>2. \A q \in ModeratorOutcomes(b) : q.op = "none" \/ q.op \in StaffOps
    BY <1>1 DEF ModeratorOutcomes, StaffOps, Shows, Does
  <1>3. o.op = "none" \/ (r.admin /\ o \in ModeratorOutcomes(b))
    BY DEF ModeratorRoute, Stays, Shows, Does
  <1> QED
    BY <1>2, <1>3 DEF Needs, SettingsOps, StaffOps, RootOps, QueueOps

LEMMA BoardShows ==
    ASSUME NEW period, NEW game \in BOOLEAN, NEW back
    PROVE  RenderLeaderboard(period, game, back).op = "none"
  BY DEF RenderLeaderboard, Shows, Does

LEMMA StatsRouteShows ==
    ASSUME NEW b, NEW r, NEW dm, NEW o \in StatsRoute(b, r, dm)
    PROVE  o.op = "none"
  <1>1. ASSUME NEW q \in BoardRoute(b)
        PROVE  q.op = "none"
    <2>1. PICK g \in BOOLEAN :
              \/ q = RenderLeaderboard("a", g, "menu:stats")
              \/ q = RenderLeaderboard("y", g, "menu:stats")
              \/ q = RenderLeaderboard("y", FALSE, "stats:years")
              \/ q = RenderLeaderboard("m", g, "menu:stats")
              \/ q = RenderLeaderboard("m", FALSE, "stats:months")
              \/ q = RenderLeaderboard("e", FALSE, "stats:events")
      BY BoardRouteArms, Zenon
    <2>2. \A period, back : q = RenderLeaderboard(period, g, back) => q.op = "none"
      BY BoardShows
    <2>3. \A period, back : q = RenderLeaderboard(period, FALSE, back) => q.op = "none"
      BY BoardShows
    <2> QED
      BY <2>1, <2>2, <2>3, Zenon
  <1>2. ASSUME NEW q \in RouteStatsPage(b)
        PROVE  q.op = "none"
    BY <1>2, BoardShows DEF RouteStatsPage
  <1>3. TargetTeamStats.op = "none"
    BY BoardShows DEF TargetTeamStats
  <1> QED
    BY <1>1, <1>2, <1>3 DEF StatsRoute, SendProgressionChart, SendRankChart, Shows, Does, Stays

LEMMA RouteCallbackNeeds ==
    ASSUME NEW b, NEW c, NEW dm, NEW o \in RouteCallback(b, RightsIn(c), dm)
    PROVE  Needs(o, RightsIn(c))
  <1> DEFINE r == RightsIn(c)
  <1>1. (r.settings => r.manager) /\ (r.admin => r.manager)
    BY DEF RightsIn, HasSettings, IsTelegramAdmin, CanManage
  <1>2. \A q \in MenuRoute(b, r, dm) : q.op = "none"
    BY DEF MenuRoute, Shows, Does
  <1>3. Stays.op = "none"
    BY DEF Stays, Shows, Does
  <1>4. o.op = "none" => Needs(o, r)
    BY DEF Needs, SettingsOps, StaffOps, RootOps, QueueOps
  <1> QED
    BY <1>1, <1>2, <1>3, <1>4, StatsRouteShows, EventRouteNeeds, TargetRouteNeeds, SettingRouteNeeds,
       ModeratorRouteNeeds DEF RouteCallback

\* No personal button changes a chat, nor the deployment but for its operators.
NeedsOperator(o, v) ==
    /\ o.op \notin SettingsOps \cup StaffOps
    /\ o.op \in RootOps => v.operator = "root"
    /\ o.op \in QueueOps => v.operator # "none"

LEMMA PersonalCallbackNeeds ==
    ASSUME NEW b, NEW v, NEW o \in PersonalCallback(b, v)
    PROVE  NeedsOperator(o, v)
  <1> USE DEF NeedsOperator, SettingsOps, StaffOps, RootOps, QueueOps, Shows, Does, Stays
  <1>1. \A q \in CabinetCallback(b, v) : NeedsOperator(q, v)
    BY DEF CabinetCallback
  <1>2. \A q \in PreferenceCallback(b, v) : NeedsOperator(q, v)
    BY DEF PreferenceCallback, RequestMiniAppAccess, AcceptInvitation
  <1>3. \A q \in SystemCallback(b, v) : NeedsOperator(q, v)
    BY DEF SystemCallback, SystemToolsMenu, ProviderStatusView, HostStatusView,
         OutboxStatusView, ReplayDeadLetters, AlertsMenu, ToggleAlert,
         ToggleCrestSource, ListTeamMatchOperators, TeamMatchAdminAddMenu,
         TeamMatchAdminPickUserMenu, AppointTeamMatchOperator, RemoveTeamMatchOperator,
         DecideMiniAppAccess, ForRoot, Refuse
  <1>4. \A q \in TeamMatchCallback(b, v) : NeedsOperator(q, v)
    BY DEF TeamMatchCallback, AnswerTeamMatchAsk, SetTeamMatchHelperOptOut, TeamMatchQueueMenu,
         TeamMatchCardMenu, ConfirmTeamMatch, RejectTeamMatch, ForOperator, Refuse
  <1>5. \A p : NeedsOperator(Shows(p), v)
    OBVIOUS
  <1> HIDE DEF NeedsOperator
  <1> QED
    BY <1>1, <1>2, <1>3, <1>4, <1>5 DEF PersonalCallback

-----------------------------------------------------------------------------
(* The screens: the inductive invariant.                                    *)

\* The taps on "back" made and those still to make never exceed the height.
BackInv ==
    /\ Rank(panel.back) \in 0..8
    /\ backs + Rank(panel.back) <= 8

ScreensIInv == ScreensTypeOK /\ StampTellsTheChat /\ BackInv

\* Only a screen without a way back is at home.
LEMMA RankZero ==
    ASSUME NEW x, Rank(x) = 0
    PROVE  x = NoBack
  BY DEF Rank, NoBack

\* A tap leaves the panel, or shows one that its button leads to.
LEMMA TapNavigates ==
    ASSUME NEW b, HandlePrivateCallback(b) \/ HandleCallback(b)
    PROVE  panel' = panel \/ (panel' # Same /\ Climbs(b, panel'))
  <1> DEFINE Goal == panel' = panel \/ (panel' # Same /\ Climbs(b, panel'))
  <1>0. ASSUME NEW o, NEW c, NEW s, RespondWith(o, c, s), Climbs(b, o.panel)
        PROVE  Goal
    BY <1>0 DEF RespondWith, view
  <1>1. CASE TapPersonal(b)
    BY <1>0, <1>1, PersonalCallbackClimbs DEF TapPersonal
  <1>2. CASE TapOpenManagedChat(b)
    BY <1>2 DEF TapOpenManagedChat, OpenManagedChat, Menu, Climbs, Rank, Panel, Same, NoBack
  <1>3. CASE TapApproval(b)
    BY <1>0, <1>3, RouteCallbackClimbs DEF TapApproval
  <1>4. CASE TryDelegateToManagedChat(b)
    <2> DEFINE chat == TargetManagedChat(Scope(b))
    <2>1. CASE chat = "none"
      <3>1. RespondWith(Shows(PrivateStatsMenu(Viewer)), "none", Scope(b))
        BY <1>4, <2>1 DEF TryDelegateToManagedChat
      <3>2. b # "hub:root"
        BY <1>4 DEF TryDelegateToManagedChat, DelegatedButton, PersonalCallback, CabinetCallback
      <3>3. Climbs(b, Shows(PrivateStatsMenu(Viewer)).panel)
        BY <3>2 DEF PrivateStatsMenu, Climbs, Rank, Shows, Does, Panel, NoBack
      <3> QED
        BY <1>0, <3>1, <3>3
    <2>2. CASE chat # "none"
      BY <1>0, <1>4, <2>2, RouteCallbackClimbs DEF TryDelegateToManagedChat
    <2> QED
      BY <2>1, <2>2
  <1>5. CASE HandleCallback(b)
    BY <1>0, <1>5, RouteCallbackClimbs DEF HandleCallback
  <1> QED
    BY <1>1, <1>2, <1>3, <1>4, <1>5 DEF HandlePrivateCallback

\* A tap on "back" is counted once and takes the panel at least one rank down.
LEMMA TapKeepsBack ==
    ASSUME ScreensIInv, Tap
    PROVE  BackInv' /\ backs' \in Nat
  <1>1. PICK b \in (panel.buttons \cup {panel.back}) \ {NoBack} :
            HandlePrivateCallback(b) \/ HandleCallback(b)
    BY DEF Tap
  <1>2. Counted(b)
    BY <1>1 DEF HandlePrivateCallback, HandleCallback
  <1>3. backs \in Nat /\ Rank(panel.back) \in 0..8 /\ backs + Rank(panel.back) <= 8
    BY DEF ScreensIInv, ScreensTypeOK, BackInv
  <1>4. CASE panel' = panel
    BY <1>2, <1>3, <1>4 DEF Counted, BackInv
  <1>5. CASE panel' # Same /\ Climbs(b, panel')
    <2>1. Rank(panel'.back) \in 0..8 /\ (Rank(b) \in 1..8 => Rank(panel'.back) < Rank(b))
      BY <1>5 DEF Climbs
    <2>2. CASE b = panel.back
      <3>1. Rank(b) \in 1..8
        BY <1>1, <1>3, <2>2, RankZero
      <3> QED
        BY <1>2, <1>3, <2>1, <2>2, <3>1 DEF Counted, BackInv
    <2>3. CASE b # panel.back
      BY <1>2, <2>1, <2>3 DEF Counted, BackInv
    <2> QED
      BY <2>2, <2>3
  <1> QED
    BY <1>1, <1>4, <1>5, TapNavigates

LEMMA InitScreensIInv == ScreensInit => ScreensIInv
  BY ScreensConstants DEF ScreensInit, ScreensIInv, ScreensTypeOK, StampTellsTheChat, BackInv, Rank,
     Closed, Panel, NoBack, NoTap

\* A new message about c, stamped with c or not at all, that leads back somewhere.
LEMMA SentKeeps ==
    ASSUME ScreensIInv, NEW p, NEW where \in {"dm", "group"}, NEW c \in Chats \cup {"none"},
           NEW s \in {c, "none"}, where = "group" => c \in Chats,
           Sent(p, where, c, s), session' \in Chats \cup {"none"}, Rank(p.back) \in 0..8
    PROVE  ScreensIInv'
  BY ScreensConstants DEF ScreensIInv, ScreensTypeOK, StampTellsTheChat, BackInv, Sent, rights, NoTap

LEMMA SentPanelKeeps ==
    ASSUME ScreensIInv, NEW p, NEW where \in {"dm", "group"}, NEW c \in Chats \cup {"none"},
           NEW s \in {c, "none"}, where = "group" => c \in Chats,
           SentPanel(p, where, c, s), Rank(p.back) \in 0..8
    PROVE  ScreensIInv'
  BY SentKeeps DEF SentPanel, ScreensIInv, ScreensTypeOK

\* What a tap routed to a chat changes are chats.
LEMMA DidIsTyped ==
    ASSUME NEW o, NEW c \in Chats \cup {"none"}, Did(o, c)
    PROVE  last'.via = c /\ last'.on \subseteq Chats \cup {"none"}
  <1>1. PICK changed \in ChangedBy(o.op, c) : last' = [op |-> o.op, via |-> c, on |-> changed]
    BY DEF Did
  <1>2. changed \subseteq Chats \cup {"none"}
    BY <1>1 DEF ChangedBy, CopyTargets
  <1> QED
    BY <1>1, <1>2

\* Whatever chat a tap goes to, the panel it draws is about that chat and, if
\* its stamp is live, stamped with it.
LEMMA TapKeepsTypes ==
    ASSUME ScreensIInv, NEW b, HandlePrivateCallback(b) \/ HandleCallback(b), backs' \in Nat
    PROVE  ScreensTypeOK' /\ StampTellsTheChat'
  <1>0. ScreensTypeOK /\ StampTellsTheChat
    BY DEF ScreensIInv
  <1>1. ASSUME NEW o, NEW c \in Chats \cup {"none"}, NEW s \in Chats \cup {"none", "gone"},
               RespondWith(o, c, s), c # "none" /\ s \in Chats => s = c,
               place = "group" => c \in Chats,
               session' \in Chats \cup {"none"}, last'.via \in Chats \cup {"none"},
               last'.on \subseteq Chats \cup {"none"}, UNCHANGED rights
        PROVE  ScreensTypeOK' /\ StampTellsTheChat'
    BY <1>0, <1>1 DEF RespondWith, InvitationShown, ScreensTypeOK, StampTellsTheChat, view, rights
  <1>2. Scope(b) \in {"none", stamp} /\ Scope(b) \in Chats \cup {"none", "gone"}
    BY <1>0 DEF Scope, ScreensTypeOK
  <1>3. UNCHANGED rights
    BY DEF HandlePrivateCallback, HandleCallback
  <1>4. CASE TapPersonal(b) /\ place = "dm"
    BY <1>0, <1>1, <1>2, <1>3, <1>4 DEF TapPersonal, ScreensTypeOK
  <1>5. CASE TapOpenManagedChat(b) /\ place = "dm"
    BY <1>0, <1>2, <1>3, <1>5
       DEF TapOpenManagedChat, OpenManagedChat, ScreensTypeOK, StampTellsTheChat, rights, NoTap
  <1>6. CASE TapApproval(b) /\ place = "dm"
    BY <1>0, <1>1, <1>2, <1>3, <1>6, DidIsTyped, ScreensConstants
       DEF TapApproval, ScreensTypeOK, StampTellsTheChat
  <1>7. CASE TryDelegateToManagedChat(b) /\ place = "dm"
    <2> DEFINE chat == TargetManagedChat(Scope(b))
    <2>0. chat \in Chats \cup {"none"} /\ (chat # "none" /\ Scope(b) \in Chats => Scope(b) = chat)
      BY <1>0, <1>2 DEF TargetManagedChat, ScreensTypeOK
    <2> HIDE DEF chat
    <2>1. CASE chat = "none"
      BY <1>0, <1>1, <1>2, <1>3, <1>7, <2>1 DEF TryDelegateToManagedChat, ScreensTypeOK, NoTap, chat
    <2>2. CASE chat # "none"
      <3>1. PICK o : RespondWith(o, chat, Scope(b)) /\ Did(o, chat)
        BY <1>7, <2>2 DEF TryDelegateToManagedChat, chat
      <3>2. session' \in {chat, session}
        BY <1>7, <2>2 DEF TryDelegateToManagedChat, chat
      <3> QED
        BY <1>0, <1>1, <1>2, <1>3, <1>7, <2>0, <2>2, <3>1, <3>2, DidIsTyped DEF ScreensTypeOK
    <2> QED
      BY <2>1, <2>2
  <1>8. CASE HandleCallback(b)
    BY <1>0, <1>1, <1>3, <1>8, DidIsTyped, ScreensConstants DEF HandleCallback, ScreensTypeOK
  <1> QED
    BY <1>4, <1>5, <1>6, <1>7, <1>8 DEF HandlePrivateCallback

LEMMA MessageKeeps ==
    ASSUME ScreensIInv, Message
    PROVE  ScreensIInv'
  <1>1. CASE PersonalCommand
    <2>1. PICK o \in {Shows(StartLanding(Viewer)), Shows(PrivateResultsMenu), Shows(RenderPersonalBets),
                      Shows(HelpView("pstats:menu")), TeamMatchQueueMenu(Viewer),
                      ProviderStatusView(Viewer), ListTeamMatchOperators(Viewer)} :
              SentPanel(o.panel, "dm", "none", "none")
      BY <1>1 DEF PersonalCommand
    <2>2. Rank(o.panel.back) \in 0..8
      BY <2>1 DEF StartLanding, ModeHub, PrivateStatsMenu, PrivateResultsMenu, RenderPersonalBets, HelpView,
           TeamMatchQueueMenu, QueuePanel, ForOperator, ProviderStatusView, ListTeamMatchOperators,
           OperatorsPanel, ForRoot, Refuse, Shows, Does, Panel, NoBack, Rank
    <2> QED
      BY <2>1, <2>2, SentPanelKeeps
  <1>2. CASE OpenInvitation
    <2>1. \A p \in OpenInvitationAccept : Rank(p.back) \in 0..8
      BY DEF OpenInvitationAccept, Closed, Panel, NoBack, Rank
    <2> QED
      BY <1>2, <2>1, SentPanelKeeps DEF OpenInvitation
  <1>3. CASE SearchReply
    <2>1. \A p \in SearchEvents \cup SearchTargets \cup SearchPlayers : Rank(p.back) \in 0..8
      BY DEF SearchEvents, SearchTargets, SearchPlayers, RenderEventBrowse, Panel, Rank
    <2> QED
      BY <1>3, <2>1, SentPanelKeeps DEF SearchReply, ScreensIInv, ScreensTypeOK
  <1>4. CASE AskMessage
    <2>1. Rank(AskPanel.back) \in 0..8
      BY DEF AskPanel, Panel, NoBack, Rank
    <2> QED
      BY <1>4, <2>1, SentPanelKeeps DEF AskMessage
  <1>5. CASE AccessRequest
    <2>1. Rank(MiniAppDecisionPanel.back) \in 0..8
      BY DEF MiniAppDecisionPanel, Panel, NoBack, Rank
    <2> QED
      BY <1>5, <2>1, SentPanelKeeps DEF AccessRequest
  <1>6. ASSUME NEW c \in Chats, AdminDeepLink(c)
        PROVE  ScreensIInv'
    <2>1. Rank(panel'.back) \in 0..8
      BY <1>6 DEF AdminDeepLink, OpenManagedChat, Menu, Panel, Rank
    <2>2. place' = "dm" /\ backs' = 0 /\ last' = NoTap /\ UNCHANGED rights
      BY <1>6 DEF AdminDeepLink
    <2>3. CASE CanManage(c)
      <3>1. about' = c /\ stamp' = c /\ session' = c /\ invited' = "none"
        BY <1>6, <2>3 DEF AdminDeepLink, OpenManagedChat
      <3> QED
        BY <2>1, <2>2, <3>1 DEF ScreensIInv, ScreensTypeOK, StampTellsTheChat, BackInv, rights, NoTap
    <2>4. CASE ~CanManage(c)
      <3>1. about' = "none" /\ stamp' = "none" /\ invited' = "none" /\ UNCHANGED session
        BY <1>6, <2>4 DEF AdminDeepLink, OpenManagedChat
      <3> QED
        BY <2>1, <2>2, <3>1 DEF ScreensIInv, ScreensTypeOK, StampTellsTheChat, BackInv, rights, NoTap
    <2> QED
      BY <2>3, <2>4
  <1>7. ASSUME NEW c \in Chats, OpenGroupStatsInDM(c) \/ OpenPersonalEventStats(c)
        PROVE  ScreensIInv'
    <2>1. Rank(StatsMenu.back) \in 0..8 /\ Rank(PersonalStats.back) \in 0..8
      BY DEF StatsMenu, PersonalStats, Panel, Rank
    <2> QED
      BY <1>7, <2>1, SentPanelKeeps DEF OpenGroupStatsInDM, OpenPersonalEventStats
  <1>8. ASSUME NEW c \in Chats, ConfirmationRequest(c)
        PROVE  ScreensIInv'
    <2>1. Rank(Panel(NoBack, {"unsubok", "unsubreject"}).back) \in 0..8
      BY DEF Panel, NoBack, Rank
    <2> QED
      BY <1>8, <2>1, SentPanelKeeps DEF ConfirmationRequest
  <1>9. ASSUME NEW c \in Chats, GroupCommand(c)
        PROVE  ScreensIInv'
    <2>1. \A p \in {Menu(FALSE), SubscribedEvents(FALSE), HelpView("menu:main"),
                    Panel(NoBack, {"settings:games", "menu:help"})} : Rank(p.back) \in 0..8
      BY DEF Menu, SubscribedEvents, HelpView, Panel, NoBack, Rank
    <2> QED
      BY <1>9, <2>1, SentPanelKeeps DEF GroupCommand
  <1>10. ASSUME NEW c \in Chats, OfferMessage(c)
        PROVE  ScreensIInv'
    <2>1. Rank(CrossSellOffer.back) \in 0..8
      BY DEF CrossSellOffer, Panel, NoBack, Rank
    <2> QED
      BY <1>10, <2>1, SentPanelKeeps DEF OfferMessage
  <1> QED
    BY <1>1, <1>2, <1>3, <1>4, <1>5, <1>6, <1>7, <1>8, <1>9, <1>10 DEF Message

LEMMA MeanwhileKeeps ==
    ASSUME ScreensIInv, Meanwhile
    PROVE  ScreensIInv'
  <1> USE DEF ScreensIInv, ScreensTypeOK, StampTellsTheChat, BackInv, view, rights, NoTap
  <1>1. CASE Relieve
    BY <1>1 DEF Relieve
  <1>2. ASSUME NEW c \in Chats, OpenElsewhere(c)
        PROVE  ScreensIInv'
    BY <1>2 DEF OpenElsewhere
  <1>3. ASSUME NEW c \in Chats, Migrate(c)
        PROVE  ScreensIInv'
    BY <1>3, ScreensConstants DEF Migrate
  <1>4. ASSUME NEW c \in Chats, Demote(c)
        PROVE  ScreensIInv'
    BY <1>4 DEF Demote
  <1> QED
    BY <1>1, <1>2, <1>3, <1>4 DEF Meanwhile

LEMMA NextScreensIInv == ScreensIInv /\ [ScreensNext]_screensVars => ScreensIInv'
  <1> SUFFICES ASSUME ScreensIInv, [ScreensNext]_screensVars PROVE ScreensIInv'
    OBVIOUS
  <1>1. CASE Tap
    BY <1>1, TapKeepsBack, TapKeepsTypes DEF Tap, ScreensIInv
  <1>2. CASE Message
    BY <1>2, MessageKeeps
  <1>3. CASE Meanwhile
    BY <1>3, MeanwhileKeeps
  <1>4. CASE UNCHANGED screensVars
    BY <1>4 DEF screensVars, ScreensIInv, ScreensTypeOK, StampTellsTheChat, BackInv
  <1> QED
    BY <1>1, <1>2, <1>3, <1>4 DEF ScreensNext

LEMMA ScreensInvariant == ScreensSpec => []ScreensIInv
  BY InitScreensIInv, NextScreensIInv, PTL DEF ScreensSpec

\* Every reachable state of a person's panel is well typed; a panel in a group is
\* about a group.
THEOREM ScreensTypeCorrect == ScreensSpec => []ScreensTypeOK
  <1>1. ScreensIInv => ScreensTypeOK
    BY DEF ScreensIInv
  <1> QED
    BY <1>1, ScreensInvariant, PTL

\* A live stamp names the chat on the screen, for any chats, roles and operators.
THEOREM PanelsKeepTheirChat == ScreensSpec => []StampTellsTheChat
  <1>1. ScreensIInv => StampTellsTheChat
    BY DEF ScreensIInv
  <1> QED
    BY <1>1, ScreensInvariant, PTL

\* Eight taps on "back" lead home from any screen, whatever the rights become.
THEOREM EveryWayBackEnds == ScreensSpec => []BackLeadsHome
  <1>1. ScreensIInv => BackLeadsHome
    BY DEF ScreensIInv, ScreensTypeOK, BackInv, BackLeadsHome
  <1> QED
    BY <1>1, ScreensInvariant, PTL

-----------------------------------------------------------------------------
(* The screens: what a step may do.                                         *)

LEMMA NothingMayBeDone ==
    ASSUME NEW via
    PROVE  MayDo("none", via, {})
  BY DEF MayDo, SettingsOps, StaffOps, RootOps, QueueOps

LEMMA PersonalMayDo ==
    ASSUME NEW b, NEW o \in PersonalCallback(b, Viewer)
    PROVE  MayDo(o.op, "none", {})
  <1>1. NeedsOperator(o, Viewer)
    BY PersonalCallbackNeeds
  <1> QED
    BY <1>1 DEF NeedsOperator, Viewer, MayDo

\* What a tap routed to c changes, it may change: c itself by the route's rights,
\* the targets of a copy by the question asked of each.
LEMMA RouteMayDo ==
    ASSUME NEW b, NEW c, NEW dm, NEW o \in RouteCallback(b, RightsIn(c), dm), Did(o, c)
    PROVE  MayDo(last'.op, last'.via, last'.on)
  <1>1. PICK changed \in ChangedBy(o.op, c) : last' = [op |-> o.op, via |-> c, on |-> changed]
    BY DEF Did
  <1>2. last'.op = o.op /\ last'.via = c /\ last'.on = changed
    BY <1>1
  <1>3. Needs(o, RightsIn(c))
    BY RouteCallbackNeeds
  <1>4. CASE o.op = "none"
    BY <1>1, <1>2, <1>4, NothingMayBeDone DEF ChangedBy
  <1>5. CASE o.op = "CopySettings"
    <2>1. \A d \in changed : CanManage(d)
      BY <1>1, <1>5 DEF ChangedBy, CopyTargets
    <2> QED
      BY <1>2, <1>3, <1>5, <2>1 DEF Needs, RightsIn, MayDo
  <1>6. CASE o.op = "RevokeInvitation"
    BY <1>2, <1>3, <1>6 DEF Needs, RightsIn, MayDo
  <1>7. CASE o.op \notin {"none", "CopySettings", "RevokeInvitation"}
    <2>1. changed = {c}
      BY <1>1, <1>7 DEF ChangedBy
    <2> QED
      BY <1>2, <1>3, <1>7, <2>1 DEF Needs, RightsIn, MayDo
  <1> QED
    BY <1>4, <1>5, <1>6, <1>7

LEMMA OthersDoNothing == Message \/ Meanwhile => last' = NoTap
  BY DEF Message, Meanwhile, PersonalCommand, OpenInvitation, SearchReply, AskMessage, AccessRequest,
       AdminDeepLink, OpenGroupStatsInDM, OpenPersonalEventStats, ConfirmationRequest, GroupCommand,
       OfferMessage, SentPanel, Sent, Relieve, OpenElsewhere, Migrate, Demote

LEMMA StepMayDo == ScreensNext => MayDo(last'.op, last'.via, last'.on)
  <1> SUFFICES ASSUME ScreensNext PROVE MayDo(last'.op, last'.via, last'.on)
    OBVIOUS
  <1>1. last' = NoTap => MayDo(last'.op, last'.via, last'.on)
    BY NothingMayBeDone DEF NoTap
  <1>2. ASSUME NEW b, HandlePrivateCallback(b)
        PROVE  MayDo(last'.op, last'.via, last'.on)
    <2>1. CASE TapPersonal(b)
      <3>1. PICK o \in PersonalCallback(b, Viewer) : last' = [op |-> o.op, via |-> "none", on |-> {}]
        BY <2>1 DEF TapPersonal
      <3> QED
        BY <3>1, PersonalMayDo
    <2>2. CASE TapOpenManagedChat(b)
      BY <1>1, <2>2 DEF TapOpenManagedChat
    <2>3. CASE TapApproval(b)
      BY <2>3, RouteMayDo DEF TapApproval
    <2>4. CASE TryDelegateToManagedChat(b)
      BY <1>1, <2>4, RouteMayDo DEF TryDelegateToManagedChat
    <2> QED
      BY <1>2, <2>1, <2>2, <2>3, <2>4 DEF HandlePrivateCallback
  <1>3. ASSUME NEW b, HandleCallback(b)
        PROVE  MayDo(last'.op, last'.via, last'.on)
    BY <1>3, RouteMayDo DEF HandleCallback
  <1> QED
    BY <1>1, <1>2, <1>3, OthersDoNothing DEF ScreensNext, Tap

\* Whatever panel a button is tapped on, and whatever the person has lost since
\* it was drawn, the change is one the person may make now: where the button was
\* routed to and in each chat that it changes, for any number of chats.
THEOREM RightsAreAsked == ScreensSpec => NothingWithoutRights
  <1>1. [ScreensNext]_screensVars => [MayDo(last'.op, last'.via, last'.on)]_screensVars
    BY StepMayDo
  <1> QED
    BY <1>1, PTL DEF ScreensSpec, NothingWithoutRights

-----------------------------------------------------------------------------
(* The screens: the chat a tap acts on.                                     *)

\* Every button of the panel carries the stamp of a chat that is known.
Stamped == stamp \in Chats /\ panel.buttons \cap TooLong = {}

\* What holds of PanelActsOnItsChat: a panel all of whose buttons carry a live
\* stamp acts on the chat it shows, whatever other panels were used meanwhile
\* (callbackdata.go:27, targetManagedChat).
StampedPanelsActOnTheirChat ==
    [][about # "none" /\ Stamped /\ last'.via # "none" => last'.via = about]_screensVars

LEMMA BackIsShort == \A b \in TooLong : Rank(b) = 9
  BY DEF TooLong, Rank

LEMMA DidVia ==
    ASSUME NEW o, NEW c, Did(o, c)
    PROVE  last'.via = c
  BY DEF Did

LEMMA StampedTap ==
    ASSUME ScreensIInv, about # "none", Stamped, last'.via # "none",
           NEW b \in panel.buttons \cup {panel.back}, HandlePrivateCallback(b) \/ HandleCallback(b)
    PROVE  last'.via = about
  <1>1. stamp \in Chats /\ stamp = about
    BY DEF ScreensIInv, StampTellsTheChat, Stamped
  <1>2. b \notin TooLong
    BY BackIsShort DEF ScreensIInv, BackInv, Stamped
  <1>3. TargetManagedChat(Scope(b)) = about
    BY <1>1, <1>2 DEF TargetManagedChat, Scope
  <1>4. CASE TapPersonal(b) \/ TapOpenManagedChat(b)
    BY <1>4 DEF TapPersonal, TapOpenManagedChat, NoTap
  <1>5. CASE TapApproval(b)
    BY <1>5, DidVia DEF TapApproval
  <1>6. CASE TryDelegateToManagedChat(b)
    <2>1. PICK o \in RouteCallback(b, RightsIn(about), TRUE) : Did(o, about)
      BY <1>3, <1>6, Zenon DEF TryDelegateToManagedChat
    <2> QED
      BY <2>1, DidVia
  <1>7. CASE HandleCallback(b)
    BY <1>7, DidVia DEF HandleCallback
  <1> QED
    BY <1>4, <1>5, <1>6, <1>7 DEF HandlePrivateCallback

\* The buttons of a panel with a live stamp act on the chat the panel shows.
THEOREM StampsAreFollowed == ScreensSpec => StampedPanelsActOnTheirChat
  <1>1. ASSUME ScreensIInv, ScreensNext, about # "none", Stamped, last'.via # "none"
        PROVE  last'.via = about
    <2>1. ~(Message \/ Meanwhile)
      BY <1>1, OthersDoNothing DEF NoTap
    <2> QED
      BY <1>1, <2>1, StampedTap DEF ScreensNext, Tap
  <1>2. ScreensIInv /\ [ScreensNext]_screensVars =>
          [about # "none" /\ Stamped /\ last'.via # "none" => last'.via = about]_screensVars
    BY <1>1
  <1> QED
    BY <1>2, ScreensInvariant, PTL DEF ScreensSpec, StampedPanelsActOnTheirChat
===============================================================================
