------------------------- MODULE EventCompletionProofs -------------------------
(***************************************************************************)
(* Proofs about Settlement and EventCompletion, for any chats, matches,      *)
(* players, votes and scores, any number of corrections and faults, and any    *)
(* set of broken chats: the scoreboard is what the recorded settlements say,     *)
(* also while events are completed; no chat is sent the same table twice in a     *)
(* row, and its medals are those of the last table.                             *)
(***************************************************************************)
EXTENDS EventCompletion, FiniteSetTheorems, FunctionTheorems, TLAPS

-----------------------------------------------------------------------------
(* Settlement *)

\* A run that is settling has a match with a score in hand.
InHand == pc # "idle" => stored[match] \in Scores

\* A poll in hand has not been settled with the score it is being settled with.
HandIsUnsettled ==
    pc \in {"courtesies", "mark"} => settled[chat][match] # stored[match]

\* The last result announced is the one the poll is settled with.
LastResultIsSettled ==
    \A c \in Chats, m \in Matches :
        results[c][m] # <<>> => settled[c][m] = results[c][m][Len(results[c][m])]

IInv ==
    /\ TypeOK
    /\ InHand
    /\ HandIsUnsettled
    /\ LastResultIsSettled
    /\ AwardsMatchSettlement
    /\ NoResultTwice
    /\ MilestonesAreToldOnce

Board == [Matches -> [Players -> Kind]]

LEMMA AwardsForType ==
  ASSUME NEW c \in Chats, NEW m \in Matches, NEW s \in Scores
  PROVE  AwardsFor(c, m, s) \in [Players -> Kind]
  BY DEF AwardsFor, Calculate, Kind

\* Replacing one match's awards moves a player's exact count by one at most.
LEMMA ExactCountAfter ==
  ASSUME NEW old \in Board, NEW new \in Board, NEW m \in Matches, NEW p \in Players,
         \A n \in Matches \ {m} : new[n] = old[n]
  PROVE  /\ ExactCount(old, p) \in Nat /\ ExactCount(new, p) \in Nat
         /\ new[m][p] # "EXACT_SCORE" => ExactCount(new, p) <= ExactCount(old, p)
         /\ new[m][p] = "EXACT_SCORE" => ExactCount(new, p) <= ExactCount(old, p) + 1
  <1> DEFINE Exact(aw) == {n \in Matches : aw[n][p] = "EXACT_SCORE"}
  <1>1. IsFiniteSet(Exact(old)) /\ IsFiniteSet(Exact(new))
    <2>1. Exact(old) \in SUBSET Matches /\ Exact(new) \in SUBSET Matches
      OBVIOUS
    <2> QED BY <2>1, FS_Subset, SettlementConstants
  <1>2. Exact(old) \ {m} = Exact(new) \ {m}
    OBVIOUS
  <1>3. Cardinality(Exact(old)) \in Nat /\ Cardinality(Exact(new)) \in Nat
    BY <1>1, FS_CardinalityType
  <1>4. /\ Cardinality(Exact(old) \ {m}) = IF m \in Exact(old) THEN Cardinality(Exact(old)) - 1
                                                             ELSE Cardinality(Exact(old))
        /\ Cardinality(Exact(new) \ {m}) = IF m \in Exact(new) THEN Cardinality(Exact(new)) - 1
                                                             ELSE Cardinality(Exact(new))
    BY <1>1, FS_RemoveElement
  <1>5. m \in Exact(new) <=> new[m][p] = "EXACT_SCORE"
    OBVIOUS
  <1>6. /\ new[m][p] # "EXACT_SCORE" => Cardinality(Exact(new)) <= Cardinality(Exact(old))
        /\ new[m][p] = "EXACT_SCORE" => Cardinality(Exact(new)) <= Cardinality(Exact(old)) + 1
    <2> DEFINE a == Cardinality(Exact(old))
               b == Cardinality(Exact(new))
               d == Cardinality(Exact(old) \ {m})
    <2>1. a \in Nat /\ b \in Nat
      BY <1>3
    <2>2. a = d \/ a = d + 1
      BY <1>3, <1>4
    <2>3. d = Cardinality(Exact(new) \ {m})
      BY <1>2
    <2>4. /\ new[m][p] # "EXACT_SCORE" => b = d
          /\ new[m][p] = "EXACT_SCORE" => b = d + 1
      BY <1>3, <1>4, <1>5, <2>3
    <2>5. d \in Int
      BY <1>3, <1>4
    <2> HIDE DEF a, b, d
    <2>6. /\ new[m][p] # "EXACT_SCORE" => b <= a
          /\ new[m][p] = "EXACT_SCORE" => b <= a + 1
      BY <2>1, <2>2, <2>4, <2>5
    <2> QED BY <2>6 DEF a, b
  <1> QED BY <1>3, <1>6 DEF ExactCount

\* A milestone reached by one more exact score is the milestone crossed.
LEMMA OneStepCrosses ==
  ASSUME NEW after \in Nat, NEW k \in Milestones, after >= k, after - 1 < k
  PROVE  k \in CrossedMilestone(after - 1, after)
  <1>1. Milestones \subseteq Nat
    BY SettlementConstants
  <1>2. \A other \in Milestones : after - 1 < other /\ after >= other => other = k
    BY <1>1
  <1> QED BY <1>1, <1>2 DEF CrossedMilestone

LEMMA InitIInv == Init => IInv
  <1> SUFFICES ASSUME Init PROVE IInv
    OBVIOUS
  <1> USE SettlementConstants DEF Init
  <1>1. TypeOK
    <2>1. awards \in [Chats -> [Matches -> [Players -> Kind]]]
      BY DEF Kind
    <2>2. told \in [Chats -> [Players \X Milestones -> {0, 1}]] /\ claimed \in [Chats -> SUBSET (Players \X Milestones)]
      OBVIOUS
    <2>3. results \in [Chats -> [Matches -> Seq(Scores)]]
      OBVIOUS
    <2>4. reported \in [Matches -> Outcomes] /\ stored \in [Matches -> Outcomes]
      BY DEF Outcomes
    <2>5. settled \in [Chats -> [Matches -> Scores \cup {NoScore}]]
      OBVIOUS
    <2>6. corrections \in 0 .. MaxCorrections /\ faults \in 0 .. MaxFaults
      OBVIOUS
    <2>7. /\ pc \in {"idle", "settle", "courtesies", "mark", "complete"} /\ aborted \in BOOLEAN
          /\ todo \subseteq Chats /\ undone \subseteq Chats \X Matches
      OBVIOUS
    <2> QED BY <2>1, <2>2, <2>3, <2>4, <2>5, <2>6, <2>7 DEF TypeOK
  <1>2. InHand /\ HandIsUnsettled /\ LastResultIsSettled /\ AwardsMatchSettlement /\ NoResultTwice
    BY DEF InHand, HandIsUnsettled, LastResultIsSettled, AwardsMatchSettlement, NoResultTwice
  <1>3. MilestonesAreToldOnce
    <2> SUFFICES ASSUME NEW c \in Chats, NEW p \in Players, NEW k \in Milestones
                 PROVE  /\ ExactCount(awards[c], p) >= k => <<p, k>> \in claimed[c]
                        /\ told[c][<<p, k>>] = IF <<p, k>> \in claimed[c] THEN 1 ELSE 0
      BY Zenon DEF MilestonesAreToldOnce
    <2>1. {m \in Matches : awards[c][m][p] = "EXACT_SCORE"} = {}
      OBVIOUS
    <2>2. ExactCount(awards[c], p) = 0
      BY <2>1, FS_EmptySet DEF ExactCount
    <2>3. told[c][<<p, k>>] = 0 /\ <<p, k>> \notin claimed[c]
      OBVIOUS
    <2>4. k \in Nat /\ k # 0
      OBVIOUS
    <2> QED BY <2>2, <2>3, <2>4
  <1> QED BY <1>1, <1>2, <1>3 DEF IInv

\* What a step that leaves the scoreboard alone leaves true.
LEMMA ScoreboardUntouched ==
  ASSUME IInv, UNCHANGED scoreboard, TypeOK', InHand', HandIsUnsettled'
  PROVE  IInv'
  <1> USE DEF IInv, scoreboard
  <1>1. LastResultIsSettled' /\ NoResultTwice'
    BY DEF LastResultIsSettled, NoResultTwice
  <1>2. AwardsMatchSettlement'
    BY DEF AwardsMatchSettlement, AwardsFor, Calculate
  <1>3. MilestonesAreToldOnce'
    BY Zenon DEF MilestonesAreToldOnce, ExactCount
  <1> QED BY <1>1, <1>2, <1>3

\* Committing one poll's settlement.
LEMMA MarkSettledIInv == ASSUME IInv, MarkSettled PROVE IInv'
  <1> DEFINE s == stored[match]
             aw == ReplaceAwards(chat, AwardsFor(chat, match, s))
             new == MilestonesOf(chat, aw)
  <1> USE SettlementConstants
  <1>1. /\ chat \in Chats /\ match \in Matches /\ s \in Scores
        /\ awards \in [Chats -> Board] /\ settled[chat][match] # s
    BY DEF IInv, TypeOK, InHand, HandIsUnsettled, MarkSettled, Board
  <1>2. /\ awards' = [awards EXCEPT ![chat] = aw]
        /\ settled' = [settled EXCEPT ![chat][match] = s]
        /\ results' = [results EXCEPT ![chat][match] = Append(@, s)]
        /\ claimed' = [claimed EXCEPT ![chat] = @ \cup new]
        /\ told' = [told EXCEPT ![chat] = [r \in DOMAIN @ |-> IF r \in new THEN @[r] + 1 ELSE @[r]]]
        /\ undone' = undone \ {<<chat, match>>}
        /\ pc' = "settle" /\ todo' = todo \ {chat}
        /\ UNCHANGED <<reported, stored, corrections, match, chat, aborted, faults>>
    BY DEF MarkSettled, catalog
  <1>3. aw = [awards[chat] EXCEPT ![match] = AwardsFor(chat, match, s)] /\ aw \in Board
    BY <1>1, AwardsForType DEF ReplaceAwards, Board
  <1>4. new \subseteq Players \X Milestones /\ new \cap claimed[chat] = {}
    BY DEF MilestonesOf
  <1> HIDE DEF aw, new
  <1>5. told[chat] \in [Players \X Milestones -> {0, 1}] /\ claimed[chat] \subseteq Players \X Milestones
    BY <1>1 DEF IInv, TypeOK
  <1>6. told'[chat] = [r \in Players \X Milestones |-> IF r \in new THEN told[chat][r] + 1 ELSE told[chat][r]]
    BY <1>1, <1>2, <1>5 DEF IInv, TypeOK
  <1>7. \A r \in new : told[chat][r] = 0
    <2> TAKE r \in new
    <2>1. r \in Players \X Milestones /\ r \notin claimed[chat]
      BY <1>4
    <2>2. r = <<r[1], r[2]>> /\ r[1] \in Players /\ r[2] \in Milestones
      BY <2>1
    <2> DEFINE p == r[1]
               k == r[2]
    <2>3. told[chat][<<p, k>>] = IF <<p, k>> \in claimed[chat] THEN 1 ELSE 0
      BY <1>1, <2>2 DEF IInv, MilestonesAreToldOnce
    <2>4. <<p, k>> = r
      BY <2>2
    <2> HIDE DEF p, k
    <2> QED BY <2>1, <2>3, <2>4
  <1>8. told'[chat] \in [Players \X Milestones -> {0, 1}]
    BY <1>5, <1>6, <1>7
  <1>9. TypeOK'
    <2>1. told' \in [Chats -> [Players \X Milestones -> {0, 1}]]
      BY <1>1, <1>2, <1>8 DEF IInv, TypeOK
    <2>2. awards' \in [Chats -> Board]
      BY <1>1, <1>2, <1>3
    <2>3. results' \in [Chats -> [Matches -> Seq(Scores)]] /\ settled' \in [Chats -> [Matches -> Scores \cup {NoScore}]]
      BY <1>1, <1>2 DEF IInv, TypeOK
    <2>4. claimed' \in [Chats -> SUBSET (Players \X Milestones)] /\ undone' \subseteq Chats \X Matches
      BY <1>1, <1>2, <1>4, <1>5 DEF IInv, TypeOK
    <2>5. pc' = "settle" /\ todo' \subseteq Chats
      BY <1>2 DEF IInv, TypeOK
    <2> QED BY <1>2, <2>1, <2>2, <2>3, <2>4, <2>5 DEF IInv, TypeOK, Board
  <1>10. InHand' /\ HandIsUnsettled'
    BY <1>1, <1>2 DEF InHand, HandIsUnsettled
  <1>11. LastResultIsSettled' /\ NoResultTwice'
    <2> SUFFICES ASSUME NEW c \in Chats, NEW m \in Matches
                 PROVE  /\ results'[c][m] # <<>> => settled'[c][m] = results'[c][m][Len(results'[c][m])]
                        /\ \A i \in 1 .. Len(results'[c][m]) - 1 : results'[c][m][i] # results'[c][m][i + 1]
      BY DEF LastResultIsSettled, NoResultTwice
    <2>1. CASE <<c, m>> = <<chat, match>>
      <3> DEFINE old == results[c][m]
      <3>1. old \in Seq(Scores) /\ results'[c][m] = Append(old, s) /\ settled'[c][m] = s
        BY <1>1, <1>2, <2>1 DEF IInv, TypeOK
      <3>2. old # <<>> => old[Len(old)] # s
        BY <1>1, <2>1 DEF IInv, LastResultIsSettled
      <3>3. \A i \in 1 .. Len(old) - 1 : old[i] # old[i + 1]
        BY DEF IInv, NoResultTwice
      <3> HIDE DEF old
      <3>4. Append(old, s)[Len(Append(old, s))] = s
        BY <3>1
      <3>5. ASSUME NEW i \in 1 .. Len(Append(old, s)) - 1
            PROVE  Append(old, s)[i] # Append(old, s)[i + 1]
        BY <3>1, <3>2, <3>3
      <3> QED BY <3>1, <3>4, <3>5
    <2>2. CASE <<c, m>> # <<chat, match>>
      <3>1. results'[c][m] = results[c][m] /\ settled'[c][m] = settled[c][m]
        BY <1>1, <1>2, <2>2 DEF IInv, TypeOK
      <3> QED BY <3>1 DEF IInv, LastResultIsSettled, NoResultTwice
    <2> QED BY <2>1, <2>2
  <1>12. AwardsMatchSettlement'
    <2> SUFFICES ASSUME NEW c \in Chats, NEW m \in Matches
                 PROVE  awards'[c][m] = IF settled'[c][m] = NoScore
                                        THEN [p \in Players |-> "none"]
                                        ELSE AwardsFor(c, m, settled'[c][m])
      BY DEF AwardsMatchSettlement, AwardsFor, Calculate
    <2>1. CASE <<c, m>> = <<chat, match>>
      <3>1. settled'[c][m] = s /\ s # NoScore
        BY <1>1, <1>2, <2>1 DEF IInv, TypeOK
      <3>2. awards'[c][m] = AwardsFor(c, m, s)
        BY <1>1, <1>2, <1>3, <2>1 DEF Board
      <3> QED BY <3>1, <3>2
    <2>2. CASE <<c, m>> # <<chat, match>>
      <3>1. awards'[c][m] = awards[c][m] /\ settled'[c][m] = settled[c][m]
        BY <1>1, <1>2, <1>3, <2>2 DEF IInv, TypeOK, Board
      <3> QED BY <3>1 DEF IInv, AwardsMatchSettlement
    <2> QED BY <2>1, <2>2
  <1>13. MilestonesAreToldOnce'
    <2> SUFFICES ASSUME NEW c \in Chats, NEW p \in Players, NEW k \in Milestones
                 PROVE  /\ ExactCount(awards'[c], p) >= k => <<p, k>> \in claimed'[c]
                        /\ told'[c][<<p, k>>] = IF <<p, k>> \in claimed'[c] THEN 1 ELSE 0
      BY Zenon DEF MilestonesAreToldOnce, ExactCount
    <2>0. /\ ExactCount(awards[c], p) >= k => <<p, k>> \in claimed[c]
          /\ told[c][<<p, k>>] = IF <<p, k>> \in claimed[c] THEN 1 ELSE 0
      BY DEF IInv, MilestonesAreToldOnce
    <2>1. CASE c # chat
      <3>1. awards'[c] = awards[c] /\ claimed'[c] = claimed[c] /\ told'[c] = told[c]
        BY <1>1, <1>2, <2>1 DEF IInv, TypeOK
      <3> QED BY <2>0, <3>1
    <2>2. CASE c = chat
      <3>1. awards'[c] = aw /\ claimed'[c] = claimed[c] \cup new
        BY <1>1, <1>2, <2>2 DEF IInv, TypeOK
      <3>2. told'[c][<<p, k>>] = IF <<p, k>> \in claimed'[c] THEN 1 ELSE 0
        BY <1>4, <1>6, <1>7, <2>0, <2>2, <3>1
      <3>3. /\ ExactCount(awards[chat], p) \in Nat /\ ExactCount(aw, p) \in Nat
            /\ aw[match][p] # "EXACT_SCORE" => ExactCount(aw, p) <= ExactCount(awards[chat], p)
            /\ aw[match][p] = "EXACT_SCORE" => ExactCount(aw, p) <= ExactCount(awards[chat], p) + 1
        <4>1. awards[chat] \in Board /\ \A n \in Matches \ {match} : aw[n] = awards[chat][n]
          BY <1>1, <1>3 DEF Board
        <4> QED BY <1>1, <1>3, <4>1, ExactCountAfter
      <3>4. k \in Nat
        OBVIOUS
      <3>5. ASSUME ExactCount(aw, p) >= k, ~(ExactCount(awards[chat], p) >= k)
            PROVE  <<p, k>> \in claimed[chat] \cup new
        <4>1. aw[match][p] = "EXACT_SCORE" /\ ExactCount(aw, p) - 1 < k
          BY <3>3, <3>4, <3>5
        <4>2. k \in CrossedMilestone(ExactCount(aw, p) - 1, ExactCount(aw, p))
          BY <3>3, <3>5, <4>1, OneStepCrosses
        <4> QED BY <4>1, <4>2 DEF new, MilestonesOf
      <3> QED BY <2>0, <2>2, <3>1, <3>2, <3>5
    <2> QED BY <2>1, <2>2
  <1> QED BY <1>9, <1>10, <1>11, <1>12, <1>13 DEF IInv

\* Every other step leaves the scoreboard alone.
LEMMA NextIInv == IInv /\ [Next]_vars => IInv'
  <1> SUFFICES ASSUME IInv, [Next]_vars PROVE IInv'
    OBVIOUS
  <1> USE SettlementConstants DEF catalog, scoreboard, run
  <1>1. ASSUME NEW m \in Matches, NEW s \in Scores \cup {Void}, Report(m, s) PROVE IInv'
    <2>1. TypeOK' /\ InHand' /\ HandIsUnsettled'
      BY <1>1 DEF Report, IInv, TypeOK, Outcomes, InHand, HandIsUnsettled
    <2> QED BY <1>1, <2>1, ScoreboardUntouched DEF Report
  <1>2. ASSUME NEW m \in Matches, NEW s \in Scores, Correct(m, s) PROVE IInv'
    <2>1. corrections' \in 0 .. MaxCorrections /\ reported' \in [Matches -> Outcomes]
      BY <1>2 DEF Correct, IInv, TypeOK, Outcomes
    <2>2. TypeOK' /\ InHand' /\ HandIsUnsettled'
      BY <1>2, <2>1 DEF Correct, IInv, TypeOK, InHand, HandIsUnsettled
    <2> QED BY <1>2, <2>2, ScoreboardUntouched DEF Correct
  <1>3. ASSUME NEW m \in Matches, ProcessMatch(m) PROVE IInv'
    <2>1. TypeOK' /\ HandIsUnsettled'
      BY <1>3 DEF ProcessMatch, IInv, TypeOK, HandIsUnsettled
    <2>2. InHand'
      BY <1>3 DEF ProcessMatch, IInv, TypeOK, Outcomes, InHand
    <2> QED BY <1>3, <2>1, <2>2, ScoreboardUntouched DEF ProcessMatch
  <1>4. ASSUME NEW c \in Chats, SkipSettled(c) \/ Begin(c) PROVE IInv'
    <2>1. TypeOK' /\ InHand'
      BY <1>4 DEF SkipSettled, Begin, IInv, TypeOK, InHand
    <2>2. HandIsUnsettled'
      BY <1>4 DEF SkipSettled, Begin, NeedsSettling, IInv, HandIsUnsettled
    <2> QED BY <1>4, <2>1, <2>2, ScoreboardUntouched DEF SkipSettled, Begin
  <1>5. ASSUME Courtesies PROVE IInv'
    <2>1. faults' = faults \/ (faults < MaxFaults /\ faults' = faults + 1)
      BY <1>5 DEF Courtesies, Fault
    <2>2. faults' \in 0 .. MaxFaults
      BY <2>1 DEF IInv, TypeOK
    <2>3. aborted' \in BOOLEAN
      BY <1>5 DEF Courtesies, IInv, TypeOK
    <2>4. TypeOK' /\ InHand' /\ HandIsUnsettled'
      BY <1>5, <2>2, <2>3 DEF Courtesies, IInv, TypeOK, InHand, HandIsUnsettled
    <2> QED BY <1>5, <2>4, ScoreboardUntouched DEF Courtesies
  <1>6. ASSUME MarkRefused \/ SettleFails PROVE IInv'
    <2>1. faults' \in 0 .. MaxFaults /\ undone' \subseteq Chats \X Matches
      BY <1>6 DEF MarkRefused, SettleFails, Fault, IInv, TypeOK
    <2>2. TypeOK' /\ InHand' /\ HandIsUnsettled'
      BY <1>6, <2>1 DEF MarkRefused, SettleFails, GiveUp, IInv, TypeOK, InHand, HandIsUnsettled
    <2> QED BY <1>6, <2>2, ScoreboardUntouched DEF MarkRefused, SettleFails
  <1>7. ASSUME Settled \/ EndRun PROVE IInv'
    <2>1. TypeOK' /\ InHand' /\ HandIsUnsettled'
      BY <1>7 DEF Settled, EndRun, IInv, TypeOK, InHand, HandIsUnsettled
    <2> QED BY <1>7, <2>1, ScoreboardUntouched DEF Settled, EndRun
  <1>8. CASE UNCHANGED vars
    <2>1. TypeOK' /\ InHand' /\ HandIsUnsettled'
      BY <1>8 DEF vars, IInv, TypeOK, InHand, HandIsUnsettled
    <2> QED BY <1>8, <2>1, ScoreboardUntouched DEF vars
  <1> QED BY <1>1, <1>2, <1>3, <1>4, <1>5, <1>6, <1>7, <1>8, MarkSettledIInv
          DEF Next, Provider, Settle, SettleOne

LEMMA AlwaysIInv == Spec => []IInv
  BY InitIInv, NextIInv, PTL DEF Spec

\* Every variable keeps its type; in particular no milestone is told twice.
THEOREM TypeCorrect == Spec => []TypeOK
  <1>1. IInv => TypeOK
    BY DEF IInv
  <1> QED BY <1>1, AlwaysIInv, PTL

\* The scoreboard is what the recorded settlement says (scoring.Service.Settle
\* and MarkSettled commit together).
THEOREM ScoreboardCorrect == Spec => []AwardsMatchSettlement
  <1>1. IInv => AwardsMatchSettlement
    BY DEF IInv
  <1> QED BY <1>1, AlwaysIInv, PTL

\* A result is announced once for each change of it (Settle's stored hash).
THEOREM ResultsToldOnce == Spec => []NoResultTwice
  <1>1. IInv => NoResultTwice
    BY DEF IInv
  <1> QED BY <1>1, AlwaysIInv, PTL

\* Reaching a milestone is claimed, and told, exactly once, through every
\* correction (MilestoneService.Record, ClaimMilestone).
THEOREM MilestonesToldOnce == Spec => []MilestonesAreToldOnce
  <1>1. IInv => MilestonesAreToldOnce
    BY DEF IInv
  <1> QED BY <1>1, AlwaysIInv, PTL

-----------------------------------------------------------------------------
(* EventCompletion *)

\* A finished match stays finished.
StoredIsReported == \A m \in Matches : stored[m] \in Scores => reported[m] \in Scores

\* Somebody in the chat voted on a match that is finished.
Voted(st, c) == \E p \in Players, m \in Matches : st[m] \in Scores /\ Vote[c][m][p] # NoVote
HasVoters(c) == Voted(stored, c)

\* A job that has a chat open holds its lock, read standings that are not those
\* on record, and read nobody in it only if nobody was there.
OpenIsLocked == \A j \in Jobs : stage[j] = "open" => lock[open[j].chat] = j

OpenIsNews ==
    \A j \in Jobs : stage[j] = "open" =>
        /\ hash[open[j].chat] # open[j].table
        /\ recaps[open[j].chat] # <<>> => Rows(open[j].table) # {}
        /\ Rows(open[j].table) # {} => HasVoters(open[j].chat)

\* The last recap is on record, and was sent because somebody had voted.
RecapIsOnRecord ==
    \A c \in Chats : recaps[c] # <<>> => hash[c] = recaps[c][Len(recaps[c])] /\ HasVoters(c)

CompletionIInv ==
    /\ CompletionTypeOK
    /\ StoredIsReported
    /\ OpenIsLocked
    /\ OpenIsNews
    /\ RecapIsOnRecord
    /\ NoRecapTwice
    /\ MedalsMatchLastRecap

-----------------------------------------------------------------------------
(* The leaderboard *)

LEMMA FiniteCount ==
  ASSUME NEW T, NEW X \in SUBSET T, IsFiniteSet(T)
  PROVE  Cardinality(X) \in Nat
  BY FS_Subset, FS_CardinalityType

\* The standings are a table, and have rows when somebody has voted.
LEMMA StandingsType ==
  ASSUME NEW c \in Chats
  PROVE  /\ Standings(c) \in Tables
         /\ Rows(Standings(c)) # {} <=> HasVoters(c)
  <1> DEFINE polls(p) == {m \in Matches : stored[m] \in Scores /\ Vote[c][m][p] # NoVote}
             of(p, kind) == Cardinality({m \in polls(p) : awards[c][m][p] = kind})
             points(p) == ExactPoints * of(p, "EXACT_SCORE") + of(p, "OUTCOME")
             rows == {p \in Players : polls(p) # {}}
             Ahead(p, q) ==
               \/ points(p) > points(q)
               \/ points(p) = points(q) /\ of(p, "EXACT_SCORE") > of(q, "EXACT_SCORE")
               \/ /\ points(p) = points(q) /\ of(p, "EXACT_SCORE") = of(q, "EXACT_SCORE")
                  /\ \/ Cardinality(polls(p)) > Cardinality(polls(q))
                     \/ Cardinality(polls(p)) = Cardinality(polls(q)) /\ p < q
             row(p) == Cardinality({q \in rows : Ahead(q, p)}) + 1
  <1>1. \A p \in Players : points(p) \in Nat
    <2> SUFFICES ASSUME NEW p \in Players PROVE points(p) \in Nat
      OBVIOUS
    <2>1. of(p, "EXACT_SCORE") \in Nat /\ of(p, "OUTCOME") \in Nat
      <3>1. /\ {m \in polls(p) : awards[c][m][p] = "EXACT_SCORE"} \in SUBSET Matches
            /\ {m \in polls(p) : awards[c][m][p] = "OUTCOME"} \in SUBSET Matches
        OBVIOUS
      <3> QED BY <3>1, FiniteCount, SettlementConstants, CompletionConstants
    <2> HIDE DEF of
    <2>2. \A a, b, n \in Nat : n * a + b \in Nat
      OBVIOUS
    <2> QED BY <2>1, <2>2, SettlementConstants, CompletionConstants
  <1>2. \A p \in Players : row(p) \in Nat \ {0}
    <2> SUFFICES ASSUME NEW p \in Players PROVE row(p) \in Nat \ {0}
      OBVIOUS
    <2> HIDE DEF Ahead, polls
    <2>1. {q \in rows : Ahead(q, p)} \in SUBSET Players
      OBVIOUS
    <2>2. Cardinality({q \in rows : Ahead(q, p)}) \in Nat
      BY <2>1, FiniteCount, SettlementConstants, CompletionConstants
    <2> QED BY <2>2
  <1>3. Standings(c) = [p \in Players |-> IF p \in rows THEN [points |-> points(p), row |-> row(p)]
                                                        ELSE [points |-> 0, row |-> 0]]
    BY DEF Standings
  <1>4. rows # {} <=> HasVoters(c)
    BY DEF HasVoters, Voted
  <1> HIDE DEF points, row, rows
  <1>5. rows \subseteq Players
    BY DEF rows
  <1>6. Standings(c) \in Tables
    BY <1>1, <1>2, <1>3 DEF Tables
  <1>7. \A p \in Players : Standings(c)[p].row # 0 <=> p \in rows
    BY <1>2, <1>3
  <1> QED BY <1>4, <1>5, <1>6, <1>7 DEF Rows

\* Medals go to players, for places that win one.
LEMMA MedalsType ==
  ASSUME NEW st \in Tables
  PROVE  MedalsFor(st) \subseteq Players \X (1 .. MedalPlaces)
  <1>1. ASSUME NEW p \in Players PROVE DenseRank(st, p) \in Nat \ {0}
    <2> DEFINE better == {q \in Rows(st) : st[q].points > st[p].points}
               higher == {st[q].points : q \in better}
               f == [q \in better |-> st[q].points]
    <2>1. IsFiniteSet(better)
      <3>1. better \in SUBSET Players
        BY DEF Rows
      <3> QED BY <3>1, FS_Subset, SettlementConstants, CompletionConstants
    <2>2. f \in Surjection(better, higher)
      BY DEF Surjection
    <2>3. IsFiniteSet(higher)
      BY <2>1, <2>2, FS_Surjection
    <2>4. Cardinality(higher) \in Nat
      BY <2>3, FS_CardinalityType
    <2> QED BY <2>4 DEF DenseRank
  <1>2. Rows(st) \subseteq Players
    BY DEF Rows
  <1> QED BY <1>1, <1>2, SettlementConstants, CompletionConstants DEF MedalsFor

-----------------------------------------------------------------------------
(* The invariant *)

LEMMA CompletionInitIInv == CompletionInit => CompletionIInv
  <1> SUFFICES ASSUME CompletionInit PROVE CompletionIInv
    OBVIOUS
  <1> USE DEF CompletionInit
  <1>1. CompletionTypeOK
    <2>1. recaps \in [Chats -> Seq(Tables)] /\ medals \in [Chats -> SUBSET (Players \X (1 .. MedalPlaces))]
      OBVIOUS
    <2>2. open \in [Jobs -> [chat : Chats, table : Tables] \cup {NotCompleted}]
      OBVIOUS
    <2>3. hash \in [Chats -> Tables \cup {NotCompleted}] /\ lock \in [Chats -> Jobs \cup {"none"}]
      OBVIOUS
    <2> QED BY <2>1, <2>2, <2>3 DEF CompletionTypeOK
  <1>2. StoredIsReported
    BY SettlementConstants, CompletionConstants DEF StoredIsReported, Init
  <1>3. OpenIsLocked /\ OpenIsNews
    BY DEF OpenIsLocked, OpenIsNews
  <1>4. RecapIsOnRecord /\ NoRecapTwice /\ MedalsMatchLastRecap
    BY DEF RecapIsOnRecord, NoRecapTwice, MedalsMatchLastRecap
  <1> QED BY <1>1, <1>2, <1>3, <1>4 DEF CompletionIInv

\* What a step does to the matches: finished ones stay finished.
Steady == StoredIsReported' /\ \A m \in Matches : stored[m] \in Scores => stored'[m] \in Scores

LEMMA VotersStay ==
  ASSUME Steady
  PROVE  \A c \in Chats : Voted(stored, c) => Voted(stored', c)
  BY DEF Steady, Voted

LEMMA CatalogUntouched ==
  ASSUME CompletionIInv, UNCHANGED <<stored, reported>>
  PROVE  Steady
  BY DEF CompletionIInv, Steady, StoredIsReported

\* A step that leaves the record alone, and whose open jobs were open before.
LEMMA RecordUntouched ==
  ASSUME CompletionIInv, Steady, CompletionTypeOK', UNCHANGED record,
         \A j \in Jobs : stage'[j] = "open" =>
            stage[j] = "open" /\ open'[j] = open[j] /\ lock'[open[j].chat] = lock[open[j].chat]
  PROVE  CompletionIInv'
  <1>1. \A j \in Jobs : stage[j] = "open" => open[j].chat \in Chats
    BY DEF CompletionIInv, CompletionTypeOK
  <1>2. OpenIsLocked'
    BY DEF CompletionIInv, OpenIsLocked
  <1>3. OpenIsNews'
    BY <1>1, VotersStay DEF CompletionIInv, OpenIsNews, record, HasVoters
  <1>4. RecapIsOnRecord'
    BY VotersStay DEF CompletionIInv, RecapIsOnRecord, record, HasVoters
  <1>5. NoRecapTwice' /\ MedalsMatchLastRecap'
    BY DEF CompletionIInv, NoRecapTwice, MedalsMatchLastRecap, record
  <1> QED BY <1>2, <1>3, <1>4, <1>5 DEF CompletionIInv, Steady

\* Opening a chat: it was locked by nobody, so no other job has it open.
LEMMA OpenIInv ==
  ASSUME CompletionIInv, NEW j \in Jobs, NEW c \in Chats, Open(j, c)
  PROVE  CompletionIInv'
  <1>1. Standings(c) \in Tables /\ (Rows(Standings(c)) # {} <=> HasVoters(c))
    BY StandingsType
  <1>2. Steady
    BY CatalogUntouched DEF Open, settlementVars, settlementButFaults
  <1>3. CompletionTypeOK'
    <2>1. [chat |-> c, table |-> Standings(c)] \in [chat : Chats, table : Tables]
      BY <1>1
    <2>2. [chat |-> c, table |-> Standings(c)] # NotCompleted
      BY <2>1, SettlementConstants, CompletionConstants
    <2>3. /\ open' \in [Jobs -> [chat : Chats, table : Tables] \cup {NotCompleted}]
          /\ \A i \in Jobs : stage'[i] = "open" => open'[i] # NotCompleted
      BY <2>1, <2>2 DEF CompletionIInv, CompletionTypeOK, Open
    <2>4. /\ stage' \in [Jobs -> {"off", "next", "open"}] /\ lock' \in [Chats -> Jobs \cup {"none"}]
          /\ left' \in [Jobs -> SUBSET Chats]
      BY DEF CompletionIInv, CompletionTypeOK, Open, Lock, Done
    <2> QED BY <2>3, <2>4 DEF CompletionIInv, CompletionTypeOK, Open, record
  <1>4. /\ stage' = [stage EXCEPT ![j] = "open"] /\ lock' = [lock EXCEPT ![c] = j]
        /\ open' = [open EXCEPT ![j] = [chat |-> c, table |-> Standings(c)]]
        /\ lock[c] = "none" /\ UNCHANGED <<hash, medals, recaps, stored>>
        /\ hash[c] # Standings(c) /\ stage[j] = "next"
    BY DEF Open, Lock, record, settlementVars, settlementButFaults
  <1>5. open'[j] = [chat |-> c, table |-> Standings(c)] /\ lock'[c] = j
    BY <1>4 DEF CompletionIInv, CompletionTypeOK
  <1>6. \A i \in Jobs \ {j} : stage'[i] = stage[i] /\ open'[i] = open[i]
    BY <1>4 DEF CompletionIInv, CompletionTypeOK
  <1>7. \A i \in Jobs \ {j} : stage[i] = "open" => open[i].chat # c /\ open[i].chat \in Chats
    <2>1. "none" \notin Jobs
      BY DEF Jobs
    <2> QED BY <1>4, <2>1 DEF CompletionIInv, CompletionTypeOK, OpenIsLocked
  <1>8. OpenIsLocked'
    BY <1>4, <1>5, <1>6, <1>7 DEF CompletionIInv, CompletionTypeOK, OpenIsLocked
  <1>9. OpenIsNews'
    <2>1. hash'[c] # Standings(c) /\ (recaps'[c] # <<>> => HasVoters(c))
      BY <1>4 DEF CompletionIInv, RecapIsOnRecord
    <2>2. HasVoters(c) => Voted(stored', c)
      BY <1>2, VotersStay DEF HasVoters
    <2>3. ASSUME NEW i \in Jobs, stage'[i] = "open"
          PROVE  /\ hash'[open'[i].chat] # open'[i].table
                 /\ recaps'[open'[i].chat] # <<>> => Rows(open'[i].table) # {}
                 /\ Rows(open'[i].table) # {} => Voted(stored', open'[i].chat)
      <3>1. CASE i = j
        BY <1>1, <1>5, <2>1, <2>2, <3>1
      <3>2. CASE i # j
        BY <1>2, <1>4, <1>6, <1>7, <2>3, <3>2, VotersStay DEF CompletionIInv, OpenIsNews, HasVoters
      <3> QED BY <3>1, <3>2
    <2> QED BY <2>3 DEF OpenIsNews, HasVoters
  <1>10. RecapIsOnRecord' /\ NoRecapTwice'
    BY <1>2, <1>4, VotersStay DEF CompletionIInv, RecapIsOnRecord, NoRecapTwice, HasVoters
  <1>11. MedalsMatchLastRecap'
    BY <1>4 DEF CompletionIInv, MedalsMatchLastRecap
  <1> QED BY <1>2, <1>3, <1>8, <1>9, <1>10, <1>11 DEF CompletionIInv, Steady

\* Committing: nobody else has the chat open, and the table is news.
LEMMA CommitIInv ==
  ASSUME CompletionIInv, NEW j \in Jobs, Commit(j)
  PROVE  CompletionIInv'
  <1> DEFINE c == open[j].chat
             st == open[j].table
  <1>1. c \in Chats /\ st \in Tables /\ stage[j] = "open" /\ lock[c] = j
    BY DEF CompletionIInv, CompletionTypeOK, OpenIsLocked, Commit
  <1>2. /\ hash' = [hash EXCEPT ![c] = st]
        /\ IF Rows(st) = {}
           THEN UNCHANGED <<medals, recaps>>
           ELSE /\ medals' = [medals EXCEPT ![c] = MedalsFor(st)]
                /\ recaps' = [recaps EXCEPT ![c] = Append(@, st)]
        /\ stage' = [stage EXCEPT ![j] = "next"]
        /\ open' = [open EXCEPT ![j] = NotCompleted]
        /\ lock' = [lock EXCEPT ![c] = "none"]
        /\ UNCHANGED <<left, stored, reported, discovered>>
    BY DEF Commit, Close, AwardMedals, settlementButFaults
  <1>3. hash[c] # st /\ (recaps[c] # <<>> => Rows(st) # {}) /\ (Rows(st) # {} => HasVoters(c))
    BY <1>1 DEF CompletionIInv, OpenIsNews
  <1>4. MedalsFor(st) \subseteq Players \X (1 .. MedalPlaces)
    BY <1>1, MedalsType
  <1> HIDE DEF c, st
  <1>5. CompletionTypeOK'
    <2>1. hash' \in [Chats -> Tables \cup {NotCompleted}]
      BY <1>1, <1>2 DEF CompletionIInv, CompletionTypeOK
    <2>4. recaps' \in [Chats -> Seq(Tables)]
      <3>1. Append(recaps[c], st) \in Seq(Tables)
        BY <1>1 DEF CompletionIInv, CompletionTypeOK
      <3>2. CASE Rows(st) = {}
        BY <1>2, <3>2 DEF CompletionIInv, CompletionTypeOK
      <3>3. CASE Rows(st) # {}
        BY <1>1, <1>2, <3>1, <3>3 DEF CompletionIInv, CompletionTypeOK
      <3> QED BY <3>2, <3>3
    <2>2. medals' \in [Chats -> SUBSET (Players \X (1 .. MedalPlaces))]
      BY <1>1, <1>2, <1>4 DEF CompletionIInv, CompletionTypeOK
    <2>3. /\ stage' \in [Jobs -> {"off", "next", "open"}] /\ lock' \in [Chats -> Jobs \cup {"none"}]
          /\ open' \in [Jobs -> [chat : Chats, table : Tables] \cup {NotCompleted}]
          /\ \A i \in Jobs : stage'[i] = "open" => open'[i] # NotCompleted
      BY <1>1, <1>2 DEF CompletionIInv, CompletionTypeOK
    <2> QED BY <1>2, <2>1, <2>2, <2>3, <2>4 DEF CompletionIInv, CompletionTypeOK
  <1>6. Steady
    BY <1>2, CatalogUntouched
  <1>7. \A i \in Jobs : stage'[i] = "open" =>
           /\ i # j /\ stage[i] = "open" /\ open'[i] = open[i]
           /\ open[i].chat \in Chats /\ open[i].chat # c
    BY <1>1, <1>2 DEF CompletionIInv, CompletionTypeOK, OpenIsLocked
  <1>8. \A d \in Chats \ {c} :
           hash'[d] = hash[d] /\ recaps'[d] = recaps[d] /\ medals'[d] = medals[d] /\ lock'[d] = lock[d]
    BY <1>1, <1>2 DEF CompletionIInv, CompletionTypeOK
  <1>9. OpenIsLocked'
    BY <1>7, <1>8 DEF CompletionIInv, OpenIsLocked
  <1>10. OpenIsNews'
    <2>1. ASSUME NEW i \in Jobs, stage'[i] = "open"
          PROVE  /\ hash'[open'[i].chat] # open'[i].table
                 /\ recaps'[open'[i].chat] # <<>> => Rows(open'[i].table) # {}
                 /\ Rows(open'[i].table) # {} => Voted(stored', open'[i].chat)
      BY <1>6, <1>7, <1>8, <2>1, VotersStay DEF CompletionIInv, OpenIsNews, HasVoters
    <2> QED BY <2>1 DEF OpenIsNews, HasVoters
  <1>11. hash'[c] = st /\ recaps'[c] = IF Rows(st) = {} THEN recaps[c] ELSE Append(recaps[c], st)
    BY <1>1, <1>2 DEF CompletionIInv, CompletionTypeOK
  <1>12. recaps[c] \in Seq(Tables)
    BY <1>1 DEF CompletionIInv, CompletionTypeOK
  <1>13. RecapIsOnRecord' /\ NoRecapTwice'
    <2> SUFFICES ASSUME NEW d \in Chats
                 PROVE  /\ recaps'[d] # <<>> => hash'[d] = recaps'[d][Len(recaps'[d])] /\ Voted(stored', d)
                        /\ \A i \in 1 .. Len(recaps'[d]) - 1 : recaps'[d][i] # recaps'[d][i + 1]
      BY DEF RecapIsOnRecord, NoRecapTwice, HasVoters
    <2>1. CASE d # c
      BY <1>6, <1>8, <2>1, VotersStay DEF CompletionIInv, RecapIsOnRecord, NoRecapTwice, HasVoters
    <2>2. CASE d = c /\ Rows(st) = {}
      BY <1>3, <1>11, <1>12, <2>2 DEF CompletionIInv, NoRecapTwice
    <2>3. CASE d = c /\ Rows(st) # {}
      <3> DEFINE old == recaps[c]
      <3>1. old \in Seq(Tables) /\ recaps'[d] = Append(old, st) /\ hash'[d] = st /\ Voted(stored', d)
        BY <1>1, <1>3, <1>6, <1>11, <1>12, <2>3, VotersStay DEF HasVoters
      <3>2. old # <<>> => old[Len(old)] # st
        BY <1>1, <1>3 DEF CompletionIInv, RecapIsOnRecord
      <3>3. \A i \in 1 .. Len(old) - 1 : old[i] # old[i + 1]
        BY <1>1 DEF CompletionIInv, NoRecapTwice
      <3> HIDE DEF old
      <3>4. Append(old, st)[Len(Append(old, st))] = st
        BY <1>1, <3>1
      <3>5. ASSUME NEW i \in 1 .. Len(Append(old, st)) - 1
            PROVE  Append(old, st)[i] # Append(old, st)[i + 1]
        BY <1>1, <3>1, <3>2, <3>3
      <3> QED BY <3>1, <3>4, <3>5
    <2> QED BY <2>1, <2>2, <2>3
  <1>14. MedalsMatchLastRecap'
    <2> SUFFICES ASSUME NEW d \in Chats
                 PROVE  medals'[d] = IF recaps'[d] = <<>> THEN {} ELSE MedalsFor(recaps'[d][Len(recaps'[d])])
      BY DEF MedalsMatchLastRecap, MedalsFor, DenseRank, Rows
    <2>1. CASE d # c \/ Rows(st) = {}
      BY <1>2, <1>8, <2>1 DEF CompletionIInv, MedalsMatchLastRecap
    <2>2. CASE d = c /\ Rows(st) # {}
      <3>1. medals'[d] = MedalsFor(st) /\ recaps'[d] = Append(recaps[c], st)
        BY <1>1, <1>2, <2>2 DEF CompletionIInv, CompletionTypeOK
      <3>2. Append(recaps[c], st) # <<>> /\ Append(recaps[c], st)[Len(Append(recaps[c], st))] = st
        BY <1>1, <1>12
      <3> QED BY <3>1, <3>2
    <2> QED BY <2>1, <2>2
  <1> QED BY <1>5, <1>6, <1>9, <1>10, <1>13, <1>14 DEF CompletionIInv, Steady

\* A chat's completion that fails gives its lock back and changes nothing else.
LEMMA RollBackIInv ==
  ASSUME CompletionIInv, NEW j \in Jobs, RollBack(j)
  PROVE  CompletionIInv'
  <1>1. open[j].chat \in Chats /\ stage[j] = "open" /\ lock[open[j].chat] = j
    BY DEF CompletionIInv, CompletionTypeOK, OpenIsLocked, RollBack
  <1>2. Steady
    BY CatalogUntouched DEF RollBack, Close, settlementButFaults
  <1>3. CompletionTypeOK'
    BY <1>1 DEF CompletionIInv, CompletionTypeOK, RollBack, Close, AfterFailure, record
  <1>4. \A i \in Jobs : stage'[i] = "open" =>
            stage[i] = "open" /\ open'[i] = open[i] /\ lock'[open[i].chat] = lock[open[i].chat]
    BY <1>1 DEF CompletionIInv, CompletionTypeOK, OpenIsLocked, RollBack, Close
  <1> QED BY <1>2, <1>3, <1>4, RecordUntouched DEF RollBack

LEMMA SettlementIsSteady ==
  ASSUME CompletionIInv, NEW m \in Matches,
         \/ \E s \in Scores \cup {Void} : Report(m, s)
         \/ \E s \in Scores : Correct(m, s)
         \/ ProcessMatch(m)
  PROVE  Steady
  <1> USE SettlementConstants, CompletionConstants DEF CompletionIInv, StoredIsReported, Steady
  <1>1. CASE \E s \in Scores \cup {Void} : Report(m, s)
    BY <1>1 DEF Report
  <1>2. CASE \E s \in Scores : Correct(m, s)
    BY <1>2 DEF Correct
  <1>3. CASE ProcessMatch(m)
    BY <1>3 DEF ProcessMatch
  <1> QED BY <1>1, <1>2, <1>3

LEMMA CompletionNextIInv == CompletionIInv /\ [CompletionNext]_completionVars => CompletionIInv'
  <1> SUFFICES ASSUME CompletionIInv, [CompletionNext]_completionVars PROVE CompletionIInv'
    OBVIOUS
  <1> USE DEF settlementVars, settlementButFaults
  <1>1. CASE SettlementStep
    <2>1. Steady
      <3>1. CASE Settle
        <4>1. UNCHANGED <<stored, reported>>
          BY <3>1 DEF Settle, Settled, SettleOne, Courtesies, MarkSettled, MarkRefused,
                      SkipSettled, Begin, catalog
        <4> QED BY <4>1, CatalogUntouched
      <3>2. CASE Provider
        BY <3>2, SettlementIsSteady DEF Provider
      <3>3. CASE \E m \in Matches : ProcessMatch(m)
        BY <3>3, SettlementIsSteady
      <3> QED BY <1>1, <3>1, <3>2, <3>3 DEF SettlementStep
    <2>2. UNCHANGED <<record, jobs, discovered>>
      BY <1>1 DEF SettlementStep
    <2>3. CompletionTypeOK'
      BY <2>2 DEF CompletionIInv, CompletionTypeOK, record, jobs
    <2> QED BY <2>1, <2>2, <2>3, RecordUntouched DEF jobs
  <1>2. CASE SyncBegins \/ ReconcileBegins \/ DiscoverFinished
    <2>1. Steady
      BY <1>2, CatalogUntouched DEF SyncBegins, ReconcileBegins, DiscoverFinished
    <2>2. CompletionTypeOK'
      <3>1. ASSUME NEW j \in Jobs, BeginCompletion(j), discovered' \in BOOLEAN PROVE CompletionTypeOK'
        BY <3>1 DEF CompletionIInv, CompletionTypeOK, BeginCompletion, record
      <3>2. "sync" \in Jobs /\ "reconcile" \in Jobs /\ "discover" \in Jobs
        BY DEF Jobs
      <3>3. discovered' \in BOOLEAN
        BY <1>2 DEF CompletionIInv, CompletionTypeOK, SyncBegins, ReconcileBegins, DiscoverFinished
      <3>4. CASE UNCHANGED <<record, jobs>>
        BY <3>3, <3>4 DEF CompletionIInv, CompletionTypeOK, record, jobs
      <3> QED BY <1>2, <3>1, <3>2, <3>3, <3>4 DEF SyncBegins, ReconcileBegins, DiscoverFinished
    <2>3. /\ UNCHANGED <<record, open, lock>>
          /\ \A j \in Jobs : stage'[j] = "open" => stage[j] = "open"
      BY <1>2 DEF CompletionIInv, CompletionTypeOK, SyncBegins, ReconcileBegins, DiscoverFinished, BeginCompletion, jobs
    <2> QED BY <2>1, <2>2, <2>3, RecordUntouched
  <1>3. ASSUME NEW j \in Jobs, JobStep(j) \/ ChatFails(j) PROVE CompletionIInv'
    <2>1. CASE \E c \in Chats : Open(j, c)
      BY <2>1, OpenIInv
    <2>2. CASE Commit(j)
      BY <2>2, CommitIInv
    <2>3. CASE BrokenChatFails(j) \/ ChatFails(j)
      BY <2>3, RollBackIInv DEF BrokenChatFails, ChatFails
    <2>4. CASE (\E c \in Chats : Unchanged(j, c)) \/ Finish(j)
      <3>1. Steady
        BY <2>4, CatalogUntouched DEF Unchanged, Finish
      <3>2. CompletionTypeOK'
        <4>1. CASE Finish(j)
          BY <4>1 DEF CompletionIInv, CompletionTypeOK, Finish, record
        <4>2. CASE \E c \in Chats : Unchanged(j, c)
          BY <4>2 DEF CompletionIInv, CompletionTypeOK, Unchanged, Done, record
        <4> QED BY <2>4, <4>1, <4>2
      <3>3. /\ UNCHANGED <<record, open, lock>>
            /\ \A i \in Jobs : stage'[i] = "open" => stage[i] = "open"
        BY <2>4 DEF CompletionIInv, CompletionTypeOK, Unchanged, Finish
      <3> QED BY <3>1, <3>2, <3>3, RecordUntouched
    <2> QED BY <1>3, <2>1, <2>2, <2>3, <2>4 DEF JobStep
  <1>4. CASE SyncFinishes
    <2>1. Steady
      BY <1>4, CatalogUntouched DEF SyncFinishes, EndRun, catalog
    <2>2. CompletionTypeOK'
      BY <1>4 DEF CompletionIInv, CompletionTypeOK, SyncFinishes, record
    <2>3. /\ UNCHANGED <<record, open, lock>>
          /\ \A j \in Jobs : stage'[j] = "open" => stage[j] = "open"
      BY <1>4 DEF CompletionIInv, CompletionTypeOK, SyncFinishes
    <2> QED BY <2>1, <2>2, <2>3, RecordUntouched
  <1>5. CASE SyncCutShort
    <2>1. Steady
      BY <1>5, CatalogUntouched DEF SyncCutShort, SettleFails, catalog
    <2>2. CompletionTypeOK'
      BY <1>5 DEF CompletionIInv, CompletionTypeOK, SyncCutShort, record
    <2>3. \A j \in Jobs : stage'[j] = "open" =>
             stage[j] = "open" /\ open'[j] = open[j] /\ lock'[open[j].chat] = lock[open[j].chat]
      BY <1>5 DEF CompletionIInv, CompletionTypeOK, OpenIsLocked, SyncCutShort
    <2>4. UNCHANGED record
      BY <1>5 DEF SyncCutShort
    <2> QED BY <2>1, <2>2, <2>3, <2>4, RecordUntouched
  <1>6. CASE UNCHANGED completionVars
    <2>1. Steady
      BY <1>6, CatalogUntouched DEF completionVars
    <2>2. CompletionTypeOK'
      BY <1>6 DEF CompletionIInv, CompletionTypeOK, completionVars, record, jobs
    <2> QED BY <1>6, <2>1, <2>2, RecordUntouched DEF completionVars, jobs
  <1> QED BY <1>1, <1>2, <1>3, <1>4, <1>5, <1>6 DEF CompletionNext

LEMMA AlwaysCompletionIInv == CompletionSpec => []CompletionIInv
  BY CompletionInitIInv, CompletionNextIInv, PTL DEF CompletionSpec

\* Every variable of the completion keeps its type.
THEOREM CompletionTypeCorrect == CompletionSpec => []CompletionTypeOK
  <1>1. CompletionIInv => CompletionTypeOK
    BY DEF CompletionIInv
  <1> QED BY <1>1, AlwaysCompletionIInv, PTL

\* No chat is sent the same final table twice in a row, whichever jobs race
\* (LockEventCompletion, EventCompletionHash).
THEOREM RecapsDiffer == CompletionSpec => []NoRecapTwice
  <1>1. CompletionIInv => NoRecapTwice
    BY DEF CompletionIInv
  <1> QED BY <1>1, AlwaysCompletionIInv, PTL

\* A chat's medals are those of the last table it was sent (AwardMedals).
THEOREM MedalsCorrect == CompletionSpec => []MedalsMatchLastRecap
  <1>1. CompletionIInv => MedalsMatchLastRecap
    BY DEF CompletionIInv
  <1> QED BY <1>1, AlwaysCompletionIInv, PTL

\* The jobs that complete events leave the scoreboard as settlement wrote it.
LEMMA SettlementAmidCompletion == IInv /\ [CompletionNext]_completionVars => IInv'
  <1> SUFFICES ASSUME IInv, [CompletionNext]_completionVars PROVE IInv'
    OBVIOUS
  <1>1. CASE SettlementStep \/ SyncFinishes \/ SyncCutShort
    <2>1. Next
      BY <1>1 DEF SettlementStep, SyncFinishes, SyncCutShort, Next
    <2> QED BY <2>1, NextIInv
  <1>2. ASSUME NEW j \in Jobs, ChatFails(j) PROVE IInv'
    <2>1. UNCHANGED settlementButFaults /\ faults < MaxFaults /\ faults' = faults + 1
      BY <1>2 DEF ChatFails, RollBack, Close, Fault
    <2>2. faults' \in 0 .. MaxFaults
      BY <2>1, SettlementConstants DEF IInv, TypeOK
    <2>3. TypeOK' /\ InHand' /\ HandIsUnsettled'
      BY <2>1, <2>2 DEF settlementButFaults, IInv, TypeOK, InHand, HandIsUnsettled
    <2> QED BY <2>1, <2>3, ScoreboardUntouched DEF settlementButFaults, scoreboard
  <1>3. CASE \/ SyncBegins \/ ReconcileBegins \/ DiscoverFinished \/ UNCHANGED completionVars
             \/ \E j \in Jobs : JobStep(j)
    <2>1. UNCHANGED vars
      BY <1>3 DEF SyncBegins, ReconcileBegins, DiscoverFinished, completionVars, JobStep, Open, Unchanged, Commit,
                  BrokenChatFails, RollBack, Close, Finish, settlementVars, settlementButFaults, vars
    <2> QED BY <2>1, NextIInv
  <1> QED BY <1>1, <1>2, <1>3 DEF CompletionNext

\* Settlement keeps its promises in the system it runs in, whichever jobs complete
\* events meanwhile, and however often they fail (settleOne, MilestoneService.Record).
THEOREM SettledAmidCompletion ==
    CompletionSpec => [](AwardsMatchSettlement /\ NoResultTwice /\ MilestonesAreToldOnce)
  <1>1. CompletionInit => IInv
    BY InitIInv DEF CompletionInit
  <1>2. IInv => AwardsMatchSettlement /\ NoResultTwice /\ MilestonesAreToldOnce
    BY DEF IInv
  <1> QED BY <1>1, <1>2, SettlementAmidCompletion, PTL DEF CompletionSpec
=============================================================================
