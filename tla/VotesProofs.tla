------------------------------- MODULE VotesProofs -------------------------------
(***************************************************************************)
(* Proofs about Votes: that awards follow the teams whatever order they were  *)
(* stored in, and that a pick replaced before the last one never comes back.  *)
(*                                                                         *)
(* The stored score always stands for its truth in the stored order, and a     *)
(* poll's anchor is the order it was shown in. A legacy poll has no anchor:     *)
(* there the order itself must have been repaired, once and for good           *)
(* (TeamsInv). Every answer under way is one that may stand, so whichever is     *)
(* saved, or dropped, leaves a vote that may; a settlement with none under way   *)
(* counts such a vote (VoterInv).                                            *)
(***************************************************************************)
EXTENDS Votes, TLAPS

\* The score stored is the result it stands for, in the order stored.
MatchInv ==
    /\ (match.score = NoScore <=> match.truth = NoScore)
    /\ (match.score # NoScore => match.order \in Orders /\ match.score = InOrder(match.truth, match.order))

PollInv ==
    /\ (poll.anchor # "unknown" => poll.anchor = poll.shown)
    /\ (poll.status = "none" => settled = NoScore)

\* The polls of the backfill's list are the legacy ones.
LegacyInv ==
    IF recorded # NoScore
    THEN /\ phase = "over" /\ poll.status # "none"
         /\ poll.shown = "AB" /\ poll.anchor = "unknown"
         /\ match.order \in Orders
         /\ (repair = "saved" \/ repaired => match.order = "AB")
    ELSE repair = "idle" /\ ~repaired

TeamsInv == MatchInv /\ PollInv /\ LegacyInv /\ AwardsFollowTheTeams

\* What may still be saved of a player may stand, and what was saved last does.
Upheld(u) ==
    /\ \A d \in updates : d.user = u => d.pick \in standing[u]
    /\ (\A d \in updates : d.user # u) => votes[u] \in standing[u]
    /\ settled # NoScore /\ u \notin late =>
           (\A d \in updates : d.user # u) /\ counted[u] \in standing[u]

VoterInv == \A u \in Users : Upheld(u)

IInv == TypeOK /\ TeamsInv /\ VoterInv

-----------------------------------------------------------------------------
(* Scores *)

\* A score swapped twice is itself.
LEMMA SwapScores == \A s \in Scores : Swap(s) \in Scores /\ Swap(Swap(s)) = s
  <1> SUFFICES ASSUME NEW s \in Scores PROVE Swap(s) \in Scores /\ Swap(Swap(s)) = s
    OBVIOUS
  <1>1. s \in Nat \X Nat /\ Swap(s) \in Scores
    BY VotesConstants DEF Swap
  <1>2. Swap(s)[1] = s[2] /\ Swap(s)[2] = s[1]
    BY DEF Swap
  <1> QED BY <1>1, <1>2 DEF Swap

\* A score in one of the two orders is a score.
LEMMA InOrderScores == \A s \in Scores, o \in Orders : InOrder(s, o) \in Scores
  BY SwapScores DEF InOrder

LEMMA AwardKinds == \A pick, s : Award(pick, s) \in Kind
  BY DEF Award, Calculate, Kind

\* The sentinels are no scores.
LEMMA NoScoreIsNone == NoScore \notin Scores /\ NoVote \notin Scores
  BY VotesConstants

-----------------------------------------------------------------------------
(* Types *)

MatchRows == [order : Orders \cup {"unknown"}, score : Scores \cup {NoScore}, truth : Scores \cup {NoScore}]
PollRows == [status : {"none", "OPEN", "CLOSED"}, due : BOOLEAN, shown : Orders, anchor : Orders \cup {"unknown"}]

LEMMA InitTypeOK == Init => TypeOK
  <1> SUFFICES ASSUME Init PROVE TypeOK
    OBVIOUS
  <1>0. /\ votes \in [Users -> Choices] /\ counted \in [Users -> Choices] /\ awards \in [Users -> Kind]
        /\ result \in Scores \cup {NoScore} /\ phase \in {"upcoming", "live", "over"}
        /\ settled \in Scores \cup {NoScore} /\ basis \in Scores \cup {NoScore}
        /\ recorded \in Scores \cup {NoScore}
    <2>1. CASE NewMatch \/ UnsortedMatch
      BY <2>1 DEF NewMatch, UnsortedMatch, Nobody, Nothing, Choices, Kind
    <2>2. CASE LegacyMatch
      <3>1. match.score \in Scores
        BY <2>2, SwapScores DEF LegacyMatch
      <3> QED BY <2>2, <3>1, AwardKinds DEF LegacyMatch
    <2> QED BY <2>1, <2>2 DEF Init
  <1>1. match \in MatchRows
    BY SwapScores DEF Init, NewMatch, UnsortedMatch, LegacyMatch, MatchRows, Unstored, Orders
  <1>2. poll \in PollRows
    <2>1. \/ poll = [status |-> "none", due |-> FALSE, shown |-> "AB", anchor |-> "unknown"]
          \/ poll = [status |-> "OPEN", due |-> FALSE, shown |-> "BA", anchor |-> "BA"]
          \/ poll = [status |-> "CLOSED", due |-> TRUE, shown |-> "AB", anchor |-> "unknown"]
      BY DEF Init, NewMatch, UnsortedMatch, LegacyMatch
    <2>2. {"AB", "BA"} = Orders /\ {"AB", "BA", "unknown"} = Orders \cup {"unknown"}
      BY DEF Orders
    <2>3. [status |-> "none", due |-> FALSE, shown |-> "AB", anchor |-> "unknown"] \in PollRows
      BY <2>2 DEF PollRows
    <2>4. [status |-> "OPEN", due |-> FALSE, shown |-> "BA", anchor |-> "BA"] \in PollRows
      BY <2>2 DEF PollRows
    <2>5. [status |-> "CLOSED", due |-> TRUE, shown |-> "AB", anchor |-> "unknown"] \in PollRows
      BY <2>2 DEF PollRows
    <2> QED BY <2>1, <2>3, <2>4, <2>5
  <1>3. /\ choice \in [Users -> Choices] /\ reports \in 0 .. MaxReports /\ sent \in 0 .. MaxAnswers
        /\ faults \in 0 .. MaxFaults /\ updates \subseteq Update
        /\ standing \in [Users -> SUBSET Choices] /\ late \subseteq Users
        /\ repaired \in BOOLEAN /\ repair \in {"idle", "saved"}
    <2>1. 0 \in 0 .. MaxReports /\ 0 \in 0 .. MaxAnswers /\ 0 \in 0 .. MaxFaults
      BY VotesConstants
    <2> QED BY <1>0, <2>1 DEF Init
  <1> QED BY <1>0, <1>1, <1>2, <1>3 DEF TypeOK, MatchRows, PollRows

\* What a match is stored with.
LEMMA StoredRow ==
  ASSUME TypeOK, NEW opponents \in Opponents, NEW results
  PROVE  LET m == Stored(MapMatch(opponents, results))
         IN  /\ m \in MatchRows
             /\ (m.score = NoScore <=> m.truth = NoScore)
             /\ (m.score # NoScore => m.order \in Orders /\ m.score = InOrder(m.truth, m.order))
             /\ (Len(opponents) = 2 /\ match.order \in Orders => m.order = match.order)
  <1> DEFINE incoming == MapMatch(opponents, results)
             o == ReconcileTeamOrder(incoming.order)
             t == incoming.truth
             sc == IF t = NoScore THEN NoScore ELSE InOrder(t, o)
  <1>1. /\ incoming.order \in {"AB", "unknown"} /\ t \in Scores \cup {NoScore}
        /\ (t # NoScore => incoming.order = "AB")
        /\ (Len(opponents) = 2 => incoming.order = "AB")
    BY DEF MapMatch, TypeOK
  <1>2. match.order \in Orders \cup {"unknown"}
    BY DEF TypeOK
  <1>3. /\ o \in Orders \cup {"unknown"} /\ (t # NoScore => o \in Orders)
        /\ (Len(opponents) = 2 /\ match.order \in Orders => o = match.order)
    BY <1>1, <1>2 DEF ReconcileTeamOrder, Orders
  <1>4. Stored(incoming) = [order |-> o, truth |-> t, score |-> sc]
    BY DEF Stored
  <1> HIDE DEF incoming, o, t
  <1>5. sc \in Scores \cup {NoScore} /\ (sc = NoScore <=> t = NoScore)
    BY <1>1, <1>3, InOrderScores, NoScoreIsNone
  <1>6. sc # NoScore => sc = InOrder(t, o)
    OBVIOUS
  <1> HIDE DEF sc
  <1> QED BY <1>1, <1>3, <1>4, <1>5, <1>6 DEF MatchRows, incoming

\* What the steps do to the records.
LEMMA RecordSteps ==
  ASSUME TypeOK
  PROVE  /\ [poll EXCEPT !.due = TRUE] \in PollRows /\ [poll EXCEPT !.due = FALSE] \in PollRows
         /\ [poll EXCEPT !.status = "CLOSED"] \in PollRows
         /\ \A d \in updates : /\ [d EXCEPT !.stage = "read"] \in Update /\ [d EXCEPT !.stage = "sent"] \in Update
                              /\ d \in Update /\ d.user \in Users /\ d.pick \in Choices
  <1>1. poll \in PollRows
    BY DEF TypeOK, PollRows
  <1>2. ASSUME NEW d \in updates
        PROVE  /\ [d EXCEPT !.stage = "read"] \in Update /\ [d EXCEPT !.stage = "sent"] \in Update
               /\ d \in Update /\ d.user \in Users /\ d.pick \in Choices
    <2>1. d \in Update
      BY DEF TypeOK
    <2> QED BY <2>1 DEF Update
  <1>3. /\ [poll EXCEPT !.due = TRUE] \in PollRows /\ [poll EXCEPT !.due = FALSE] \in PollRows
        /\ [poll EXCEPT !.status = "CLOSED"] \in PollRows
    BY <1>1 DEF PollRows
  <1> QED BY <1>2, <1>3

\* A poll settled from the match's stored score.
LEMMA SettledTypes ==
  ASSUME TypeOK, SettlePoll
  PROVE  /\ counted' \in [Users -> Choices] /\ awards' \in [Users -> Kind]
         /\ settled' \in Scores \cup {NoScore} /\ basis' \in Scores \cup {NoScore}
         /\ late' \subseteq Users
  <1>1. awards' \in [Users -> Kind]
    BY AwardKinds DEF SettlePoll
  <1>2. match \in MatchRows
    BY DEF TypeOK, MatchRows
  <1>3. settled' \in Scores \cup {NoScore} /\ basis' \in Scores \cup {NoScore}
    BY <1>2 DEF SettlePoll, MatchRows
  <1>4. late' \subseteq Users
    BY RecordSteps DEF SettlePoll
  <1> QED BY <1>1, <1>3, <1>4 DEF SettlePoll, TypeOK

LEMMA NextTypeOK == TypeOK /\ [Next]_vars => TypeOK'
  <1> SUFFICES ASSUME TypeOK, [Next]_vars PROVE TypeOK'
    OBVIOUS
  <1> DEFINE Provider == /\ result \in Scores \cup {NoScore} /\ phase \in {"upcoming", "live", "over"}
                         /\ reports \in 0 .. MaxReports
             Answers == /\ choice \in [Users -> Choices] /\ updates \subseteq Update /\ sent \in 0 .. MaxAnswers
             Awards == /\ counted \in [Users -> Choices] /\ awards \in [Users -> Kind]
                       /\ settled \in Scores \cup {NoScore} /\ basis \in Scores \cup {NoScore}
             Repairs == repaired \in BOOLEAN /\ repair \in {"idle", "saved"} /\ recorded \in Scores \cup {NoScore}
             Votings == votes \in [Users -> Choices]
             Standing == standing \in [Users -> SUBSET Choices]
             Late == late \subseteq Users
             Faults == faults \in 0 .. MaxFaults
  <1>t. /\ Provider /\ match \in MatchRows /\ poll \in PollRows /\ Answers /\ Votings /\ Standing /\ Late
        /\ Awards /\ Repairs /\ Faults
    BY DEF TypeOK, MatchRows, PollRows
  <1>u. (/\ Provider' /\ match' \in MatchRows /\ poll' \in PollRows /\ Answers' /\ Votings' /\ Standing' /\ Late'
         /\ Awards' /\ Repairs' /\ Faults') => TypeOK'
    BY DEF TypeOK, MatchRows, PollRows
  <1>p. UNCHANGED provider => Provider'
    BY <1>t DEF provider
  <1>a. UNCHANGED telegram => Answers'
    BY <1>t DEF telegram
  <1>s. UNCHANGED scores => Awards'
    BY <1>t DEF scores
  <1>r. UNCHANGED repairs => Repairs'
    BY <1>t DEF repairs
  <1>v. UNCHANGED votes => Votings'
    BY <1>t
  <1>x. UNCHANGED standing => Standing'
    BY <1>t
  <1>l. UNCHANGED late => Late'
    BY <1>t
  <1>f. UNCHANGED faults \/ Fault => Faults'
    BY <1>t, VotesConstants DEF Fault
  <1>m. UNCHANGED match => match' \in MatchRows
    BY <1>t
  <1>o. UNCHANGED poll => poll' \in PollRows
    BY <1>t
  <1>e. SettlePoll => Awards' /\ Late'
    BY SettledTypes
  <1> HIDE DEF Provider, Answers, Awards, Repairs, Votings, Standing, Late, Faults
  <1> USE DEF history
  <1>1. CASE UNCHANGED vars
    BY <1>1, <1>t, <1>u, <1>p, <1>a, <1>s, <1>r, <1>v, <1>x, <1>l, <1>f, <1>m, <1>o
       DEF vars, provider, telegram, scores, repairs
  <1>2. CASE Start \/ \E s \in Scores : Report(s)
    <2>1. Provider'
      BY <1>2, <1>t, VotesConstants DEF Start, Report, Provider
    <2> QED BY <1>2, <2>1, <1>u, <1>a, <1>s, <1>r, <1>v, <1>x, <1>l, <1>f, <1>m, <1>o DEF Start, Report
  <1>3. ASSUME NEW u \in Users, NEW pick \in Choices, Answer(u, pick) PROVE TypeOK'
    <2>1. sent + 1 \in 1 .. MaxAnswers
      BY <1>3, <1>t, VotesConstants DEF Answer, Answers
    <2>2. [user |-> u, pick |-> pick, stage |-> "sent", nr |-> sent + 1] \in Update
      BY <2>1 DEF Update
    <2>3. Answers'
      BY <1>3, <1>t, <2>1, <2>2, VotesConstants DEF Answer, Answers
    <2>4. Late'
      BY <1>3, <1>t DEF Answer, Late
    <2>5. {pick} \cup {d.pick : d \in InFlight(u)} \subseteq Choices
      BY RecordSteps DEF InFlight
    <2>6. Standing'
      BY <1>3, <1>t, <2>5 DEF Answer, Standing
    <2> QED BY <1>3, <2>3, <2>4, <2>6, <1>u, <1>p, <1>s, <1>r, <1>v, <1>f, <1>m, <1>o DEF Answer
  <1>d. ASSUME NEW d \in updates, Dropped(d) PROVE Standing' /\ updates' \subseteq Update
    <2>1. d.user \in Users /\ votes[d.user] \in Choices /\ standing[d.user] \subseteq Choices
      BY <1>t, RecordSteps DEF Votings, Standing
    <2>2. Standing'
      BY <1>d, <1>t, <2>1 DEF Dropped, Standing
    <2> QED BY <1>d, <1>t, <2>2 DEF Dropped, Answers
  <1>w. ASSUME NEW d \in updates, MayBeWritten(d) \/ votes' = Recorded(d) PROVE Votings'
    BY <1>w, <1>t, RecordSteps DEF MayBeWritten, Recorded, Votings
  <1>4. ASSUME NEW d \in updates,
               RecordVote(d) \/ SaveVote(d) \/ RecordVoteFails(d) \/ ClaimKept(d) \/ Throttle(d)
        PROVE  TypeOK'
    <2>1. updates' \subseteq Update
      <3>1. \/ updates' \subseteq updates
            \/ updates' = (updates \ {d}) \cup {[d EXCEPT !.stage = "read"]}
            \/ updates' = (updates \ {d}) \cup {[d EXCEPT !.stage = "sent"]}
        BY <1>4 DEF RecordVote, SaveVote, RecordVoteFails, ClaimKept, Throttle, Dropped
      <3> QED BY <3>1, <1>t, RecordSteps DEF Answers
    <2>2. Answers'
      BY <1>4, <1>t, <2>1 DEF RecordVote, SaveVote, RecordVoteFails, ClaimKept, Throttle, Answers
    <2>3. Votings'
      BY <1>4, <1>w, <1>v DEF RecordVote, SaveVote, RecordVoteFails, ClaimKept, Throttle
    <2>4. Standing'
      BY <1>4, <1>d, <1>x DEF RecordVote, SaveVote, RecordVoteFails, ClaimKept, Throttle
    <2>5. UNCHANGED <<provider, match, poll, late, scores, repairs>> /\ (UNCHANGED faults \/ Fault)
      BY <1>4 DEF RecordVote, SaveVote, RecordVoteFails, ClaimKept, Throttle
    <2> QED BY <2>2, <2>3, <2>4, <2>5, <1>u, <1>p, <1>s, <1>r, <1>l, <1>f, <1>m, <1>o
  <1>5. CASE Due \/ Reschedule \/ Close
    <2>1. poll' \in PollRows
      BY <1>5, RecordSteps DEF Due, Reschedule, Close
    <2> QED BY <1>5, <2>1, <1>u, <1>p, <1>a, <1>s, <1>r, <1>v, <1>x, <1>l, <1>f, <1>m DEF Due, Reschedule, Close
  <1>6. ASSUME NEW opponents \in Opponents, NEW results, SaveMatch(opponents, results) PROVE TypeOK'
    <2>1. match' \in MatchRows
      BY <1>6, StoredRow DEF SaveMatch
    <2>2. match'.order \in Orders \cup {"unknown"}
      BY <2>1 DEF MatchRows
    <2>3. poll' \in PollRows
      <3>1. CASE poll' = poll
        BY <3>1, <1>o
      <3>2. CASE /\ match'.order # "unknown"
                 /\ poll' = [status |-> "OPEN", due |-> FALSE, shown |-> match'.order, anchor |-> match'.order]
        BY <2>2, <3>2 DEF PollRows, Orders
      <3> QED BY <1>6, <3>1, <3>2 DEF SaveMatch
    <2> QED BY <1>6, <2>1, <2>3, <1>u, <1>p, <1>a, <1>s, <1>r, <1>v, <1>x, <1>l, <1>f DEF SaveMatch
  <1>7. CASE Settle
    BY <1>7, <1>e, <1>u, <1>p, <1>a, <1>r, <1>v, <1>x, <1>f, <1>m, <1>o DEF Settle
  <1>8. CASE BackfillSwap
    <2>1. match.score \in Scores
      BY <1>8, <1>t DEF BackfillSwap, MatchesRecordedState, Repairs
    <2>2. match' \in MatchRows
      <3>1. match' = [match EXCEPT !.order = IF match.order = "BA" THEN "AB" ELSE "BA", !.score = Swap(match.score)]
        BY <1>8 DEF BackfillSwap
      <3>2. Swap(match.score) \in Scores
        BY <2>1, SwapScores
      <3> QED BY <1>t, <3>1, <3>2 DEF MatchRows, Orders
    <2>3. Repairs'
      BY <1>8, <1>t DEF BackfillSwap, Repairs
    <2> QED BY <1>8, <2>2, <2>3, <1>u, <1>p, <1>a, <1>s, <1>v, <1>x, <1>l, <1>f, <1>o DEF BackfillSwap
  <1>9. CASE BackfillSettle
    <2>1. Awards' /\ Late'
      BY <1>9, <1>e, <1>s, <1>l DEF BackfillSettle
    <2>2. Repairs'
      BY <1>9, <1>t DEF BackfillSettle, Repairs
    <2> QED BY <1>9, <2>1, <2>2, <1>u, <1>p, <1>a, <1>v, <1>x, <1>f, <1>m, <1>o DEF BackfillSettle
  <1>10. CASE BackfillStops
    <2>1. Repairs'
      BY <1>10, <1>t DEF BackfillStops, Repairs
    <2> QED BY <1>10, <2>1, <1>u, <1>p, <1>a, <1>s, <1>v, <1>x, <1>l, <1>f, <1>m, <1>o DEF BackfillStops
  <1> QED
    BY <1>1, <1>2, <1>3, <1>4, <1>5, <1>6, <1>7, <1>8, <1>9, <1>10
       DEF Next, Voting, Handling, Ending, Syncing, Backfill

-----------------------------------------------------------------------------
(* The order of the teams *)

LEMMA InitTeamsInv == Init => TeamsInv
  <1> SUFFICES ASSUME Init PROVE TeamsInv
    OBVIOUS
  <1>1. CASE NewMatch \/ UnsortedMatch
    BY <1>1 DEF Init, NewMatch, UnsortedMatch, Unstored, TeamsInv, MatchInv, PollInv, LegacyInv, AwardsFollowTheTeams
  <1>2. CASE LegacyMatch
    <2>1. result \in Scores /\ result # NoScore /\ Swap(result) \in Scores /\ Swap(result) # NoScore
      BY <1>2, SwapScores, NoScoreIsNone DEF LegacyMatch
    <2>2. /\ match.order = "BA" /\ match.score = Swap(result) /\ match.truth = result
          /\ poll.status = "CLOSED" /\ poll.shown = "AB" /\ poll.anchor = "unknown"
          /\ recorded = match.score /\ phase = "over"
      BY <1>2 DEF LegacyMatch
    <2>3. repair = "idle" /\ ~repaired
      BY DEF Init
    <2> QED BY <2>1, <2>2, <2>3 DEF TeamsInv, MatchInv, PollInv, LegacyInv, AwardsFollowTheTeams, InOrder, Orders
  <1> QED BY <1>1, <1>2 DEF Init

\* The score a poll is settled with names the teams as they were shown.
LEMMA SettledAsShown ==
  ASSUME TypeOK, TeamsInv, match.score # NoScore,
         poll.anchor # "unknown" \/ (recorded # NoScore /\ match.order = "AB")
  PROVE  RealignToPollTeamOrder(match.score) = InOrder(match.truth, poll.shown)
  <1>1. /\ match.truth \in Scores /\ match.order \in Orders /\ match.score = InOrder(match.truth, match.order)
        /\ poll.shown \in Orders
    BY DEF TypeOK, TeamsInv, MatchInv
  <1>2. CASE poll.anchor # "unknown"
    <2>1. poll.anchor = poll.shown
      BY <1>2 DEF TeamsInv, PollInv
    <2>2. CASE match.order = poll.shown
      BY <1>1, <2>1, <2>2 DEF RealignToPollTeamOrder
    <2>3. CASE match.order = "AB" /\ poll.shown = "BA"
      BY <1>1, <1>2, <2>1, <2>3 DEF RealignToPollTeamOrder, InOrder
    <2>4. CASE match.order = "BA" /\ poll.shown = "AB"
      BY <1>1, <1>2, <2>1, <2>4, SwapScores DEF RealignToPollTeamOrder, InOrder
    <2> QED BY <1>1, <2>2, <2>3, <2>4 DEF Orders
  <1>3. CASE poll.anchor = "unknown"
    <2>1. poll.shown = "AB"
      BY <1>3 DEF TeamsInv, LegacyInv
    <2> QED BY <1>1, <1>3, <2>1 DEF RealignToPollTeamOrder, InOrder
  <1> QED BY <1>2, <1>3

LEMMA NextTeamsInv == TypeOK /\ TeamsInv /\ [Next]_vars => TeamsInv'
  <1> SUFFICES ASSUME TypeOK, TeamsInv, [Next]_vars PROVE TeamsInv'
    OBVIOUS
  <1>0. MatchInv /\ PollInv /\ LegacyInv /\ AwardsFollowTheTeams
    BY DEF TeamsInv
  <1> USE <1>0 DEF provider, telegram, scores, repairs
  \* Steps that touch neither the rows nor the repair.
  <1>a. UNCHANGED <<match, poll, scores, repairs, phase>> => TeamsInv'
    BY DEF TeamsInv, MatchInv, PollInv, LegacyInv, AwardsFollowTheTeams
  <1>1. CASE UNCHANGED vars
    BY <1>1, <1>a DEF vars
  <1>2. CASE Start \/ \E s \in Scores : Report(s)
    <2>1. UNCHANGED <<match, poll, scores, repairs>> /\ (phase = "over" => phase' = "over")
      BY <1>2 DEF Start, Report
    <2> QED BY <2>1 DEF TeamsInv, MatchInv, PollInv, LegacyInv, AwardsFollowTheTeams
  <1>3. CASE Voting \/ Handling
    BY <1>3, <1>a DEF Voting, Handling, Answer, RecordVote, SaveVote, RecordVoteFails, ClaimKept, Throttle
  <1>4. CASE Ending
    <2>1. /\ UNCHANGED <<match, scores, repairs, phase>>
          /\ poll'.shown = poll.shown /\ poll'.anchor = poll.anchor
          /\ poll.status # "none" /\ poll'.status # "none"
      <3>1. poll \in PollRows
        BY DEF TypeOK, PollRows
      <3> QED BY <1>4, <3>1 DEF Ending, Due, Reschedule, Close, PollRows
    <2> QED BY <2>1 DEF TeamsInv, MatchInv, PollInv, LegacyInv, AwardsFollowTheTeams
  <1>5. ASSUME NEW opponents \in Opponents, NEW results, SaveMatch(opponents, results) PROVE TeamsInv'
    <2>1. UNCHANGED <<scores, repairs, phase>> /\ match' = Stored(MapMatch(opponents, results))
      BY <1>5 DEF SaveMatch
    <2>2. /\ (match'.score = NoScore <=> match'.truth = NoScore)
          /\ (match'.score # NoScore => match'.order \in Orders /\ match'.score = InOrder(match'.truth, match'.order))
          /\ (Len(opponents) = 2 /\ match.order \in Orders => match'.order = match.order)
      BY <2>1, StoredRow
    <2>3. MatchInv'
      BY <2>2 DEF MatchInv
    <2>4. /\ poll'.anchor = poll.anchor /\ poll'.shown = poll.shown /\ poll'.status = poll.status
          \/ /\ poll'.anchor = poll'.shown /\ poll'.status = "OPEN"
             /\ poll.status = "none"
      BY <1>5 DEF SaveMatch
    <2>5. PollInv'
      BY <2>1, <2>4 DEF PollInv
    <2>6. LegacyInv'
      <3>1. CASE recorded # NoScore
        <4>1. phase = "over" /\ Len(opponents) = 2
          <5>1. Len(opponents) \in {0, 1, 2}
            BY DEF Opponents
          <5>2. phase = "over" /\ (Len(opponents) < 2 => phase = "upcoming")
            BY <1>5, <3>1 DEF SaveMatch, LegacyInv
          <5>3. ~(Len(opponents) < 2)
            BY <5>2
          <5>4. Len(opponents) = 2
            BY <5>1, <5>3
          <5> QED BY <5>2, <5>4
        <4> QED BY <2>1, <2>2, <2>4, <3>1, <4>1 DEF LegacyInv
      <3>2. CASE recorded = NoScore
        BY <2>1, <3>2 DEF LegacyInv
      <3> QED BY <3>1, <3>2
    <2>7. AwardsFollowTheTeams'
      BY <2>1, <2>4 DEF AwardsFollowTheTeams, PollInv
    <2> QED BY <2>3, <2>5, <2>6, <2>7 DEF TeamsInv
  \* The settling, with the poll anchored or the match repaired.
  <1>b. ASSUME SettlePoll, UNCHANGED <<match, poll, phase, recorded>>,
               repair' \in {repair, "idle"},
               repaired' => recorded # NoScore /\ match.order = "AB"
        PROVE  TeamsInv'
    <2>1. MatchInv' /\ PollInv'
      BY <1>b DEF MatchInv, PollInv, SettlePoll
    <2>2. LegacyInv'
      BY <1>b DEF LegacyInv
    <2>3. AwardsFollowTheTeams'
      <3> SUFFICES ASSUME poll.anchor # "unknown" \/ repaired', NEW u \in Users
                   PROVE  awards'[u] = Award(counted'[u], InOrder(basis', poll.shown))
        BY <1>b DEF AwardsFollowTheTeams
      <3>1. match.score # NoScore
        BY <1>b DEF SettlePoll
      <3>2. RealignToPollTeamOrder(match.score) = InOrder(match.truth, poll.shown)
        BY <1>b, <3>1, SettledAsShown
      <3>3. awards'[u] = Award(votes[u], RealignToPollTeamOrder(match.score))
        BY <1>b DEF SettlePoll
      <3> QED BY <1>b, <3>2, <3>3 DEF SettlePoll
    <2> QED BY <2>1, <2>2, <2>3 DEF TeamsInv
  <1>6. CASE Settle
    <2>1. repaired => recorded # NoScore /\ match.order = "AB"
      BY DEF LegacyInv
    <2> QED BY <1>6, <1>b, <2>1 DEF Settle
  <1>7. CASE BackfillSwap
    <2>1. /\ UNCHANGED <<phase, poll, scores, repaired, recorded>> /\ repair' = "saved"
          /\ recorded # NoScore /\ match.order = "BA" /\ match.score = recorded
          /\ match' = [match EXCEPT !.order = IF match.order = "BA" THEN "AB" ELSE "BA", !.score = Swap(match.score)]
      BY <1>7 DEF BackfillSwap, MatchesRecordedState
    <2>2. match \in MatchRows
      BY DEF TypeOK, MatchRows
    <2>3. match'.order = "AB" /\ match'.score = Swap(match.score) /\ match'.truth = match.truth
      BY <2>1, <2>2 DEF MatchRows
    <2>4. match.truth \in Scores /\ match.score = Swap(match.truth)
      BY <2>1, <2>2 DEF MatchInv, MatchRows, InOrder
    <2>5. match'.score = match.truth /\ match.truth # NoScore
      BY <2>3, <2>4, SwapScores, NoScoreIsNone
    <2>6. MatchInv'
      BY <2>3, <2>5 DEF MatchInv, InOrder, Orders
    <2>7. LegacyInv'
      BY <2>1, <2>3 DEF LegacyInv, Orders
    <2>8. ~repaired
      BY <2>1 DEF LegacyInv
    <2>9. PollInv' /\ AwardsFollowTheTeams'
      BY <2>1, <2>8 DEF PollInv, AwardsFollowTheTeams
    <2> QED BY <2>6, <2>7, <2>9 DEF TeamsInv
  <1>8. CASE BackfillSettle
    <2>1. recorded # NoScore /\ match.order = "AB" /\ repair' = "idle" /\ UNCHANGED <<match, poll, phase, recorded>>
      BY <1>8 DEF BackfillSettle, LegacyInv
    <2>2. CASE settled # match.score
      BY <1>8, <1>b, <2>1, <2>2 DEF BackfillSettle
    <2>3. CASE settled = match.score
      <3>1. UNCHANGED <<scores, repaired>>
        BY <1>8, <2>3 DEF BackfillSettle
      <3> QED BY <2>1, <3>1 DEF TeamsInv, MatchInv, PollInv, LegacyInv, AwardsFollowTheTeams
    <2> QED BY <2>2, <2>3
  <1>9. CASE BackfillStops
    <2>1. UNCHANGED <<match, poll, scores, phase, repaired, recorded>> /\ repair' = "idle"
      BY <1>9 DEF BackfillStops
    <2> QED BY <2>1 DEF TeamsInv, MatchInv, PollInv, LegacyInv, AwardsFollowTheTeams
  <1> QED
    BY <1>1, <1>2, <1>3, <1>4, <1>5, <1>6, <1>7, <1>8, <1>9 DEF Next, Syncing, Backfill

-----------------------------------------------------------------------------
(* The voters *)

LEMMA InitVoterInv == Init => VoterInv
  <1> SUFFICES ASSUME Init, NEW u \in Users PROVE Upheld(u)
    BY DEF VoterInv
  <1>1. votes[u] \in standing[u] /\ updates = {}
    BY DEF Init
  <1>2. settled # NoScore => counted = votes
    BY DEF Init, NewMatch, UnsortedMatch, LegacyMatch
  <1> QED BY <1>1, <1>2 DEF Upheld

\* One update is replaced by the same answer at another stage.
LEMMA Restaged ==
  ASSUME TypeOK, NEW u \in Users, Upheld(u), NEW d \in updates, NEW st \in {"sent", "read"},
         updates' = (updates \ {d}) \cup {[d EXCEPT !.stage = st]},
         d.user = u \/ votes'[u] = votes[u],
         UNCHANGED <<history, settled, counted>>
  PROVE  Upheld(u)'
  <1> DEFINE e == [d EXCEPT !.stage = st]
  <1>1. d \in Update
    BY DEF TypeOK
  <1>2. e.user = d.user /\ e.pick = d.pick
    BY <1>1 DEF Update
  <1>3. updates' = (updates \ {d}) \cup {e}
    OBVIOUS
  <1> HIDE DEF e
  <1>4. UNCHANGED <<standing, late>>
    BY DEF history
  <1>5. (\A o \in updates' : o.user # u) => (\A o \in updates : o.user # u) /\ d.user # u
    BY <1>2, <1>3
  <1>6. (\A o \in updates : o.user # u) => \A o \in updates' : o.user # u
    BY <1>2, <1>3
  <1>7. \A o \in updates' : o.user = u => o.pick \in standing[u]
    BY <1>2, <1>3 DEF Upheld
  <1> QED BY <1>4, <1>5, <1>6, <1>7 DEF Upheld

\* One update is done with, the player's vote being the pick or one that stands now.
LEMMA Removed ==
  ASSUME NEW u \in Users, Upheld(u), NEW d \in updates, updates' = updates \ {d},
         UNCHANGED <<late, settled, counted>>,
         standing[u] \subseteq standing'[u],
         IF d.user = u THEN votes'[u] = d.pick \/ votes'[u] \in standing'[u] ELSE votes'[u] = votes[u]
  PROVE  Upheld(u)'
  <1>1. d.user = u => d.pick \in standing'[u]
    BY DEF Upheld
  <1>2. d.user # u => ((\A o \in updates' : o.user # u) => \A o \in updates : o.user # u)
    OBVIOUS
  <1>3. (\A o \in updates' : o.user # u) => votes'[u] \in standing'[u]
    BY <1>1, <1>2 DEF Upheld
  <1> QED BY <1>3 DEF Upheld

LEMMA NextVoterInv == TypeOK /\ VoterInv /\ [Next]_vars => VoterInv'
  <1> SUFFICES ASSUME TypeOK, VoterInv, [Next]_vars, NEW u \in Users PROVE Upheld(u)'
    BY DEF VoterInv
  <1> USE DEF provider, telegram, history, scores, repairs
  <1>c. Upheld(u)
    BY DEF VoterInv
  <1>a. UNCHANGED <<telegram, votes, history, settled, counted>> => Upheld(u)'
    BY <1>c DEF Upheld
  <1>1. CASE UNCHANGED vars
    BY <1>1, <1>a DEF vars
  <1>2. CASE Start \/ (\E s \in Scores : Report(s)) \/ Ending
    BY <1>2, <1>a DEF Start, Report, Ending, Due, Reschedule, Close
  <1>3. ASSUME NEW w \in Users, NEW pick \in Choices, Answer(w, pick) PROVE Upheld(u)'
    <2> DEFINE new == [user |-> w, pick |-> pick, stage |-> "sent", nr |-> sent + 1]
    <2>1. /\ updates' = updates \cup {new} /\ UNCHANGED <<votes, settled, counted>>
          /\ standing' = [standing EXCEPT ![w] = {pick} \cup {d.pick : d \in InFlight(w)}]
          /\ late' = IF settled # NoScore THEN late \cup {w} ELSE late
      BY <1>3 DEF Answer
    <2>2. new.user = w /\ new.pick = pick
      OBVIOUS
    <2>3. /\ standing'[w] = {pick} \cup {d.pick : d \in InFlight(w)}
          /\ \A o \in Users \ {w} : standing'[o] = standing[o]
      BY <2>1 DEF TypeOK
    <2> HIDE DEF new
    <2>4. CASE u = w
      <3>1. \A d \in updates' : d.user = u => d.pick \in standing'[u]
        BY <2>1, <2>2, <2>3, <2>4 DEF InFlight
      <3>2. ~(\A d \in updates' : d.user # u)
        BY <2>1, <2>2, <2>4
      <3>3. ~(settled' # NoScore /\ u \notin late')
        BY <2>1, <2>4
      <3> QED BY <3>1, <3>2, <3>3 DEF Upheld
    <2>5. CASE u # w
      <3>1. standing'[u] = standing[u] /\ (u \notin late' => u \notin late)
        BY <2>1, <2>3, <2>5
      <3>2. (\A d \in updates' : d.user # u) <=> (\A d \in updates : d.user # u)
        BY <2>1, <2>2, <2>5
      <3>3. \A d \in updates' : d.user = u => d.pick \in standing'[u]
        BY <1>c, <2>1, <2>2, <2>5, <3>1 DEF Upheld
      <3> QED BY <1>c, <2>1, <3>1, <3>2, <3>3 DEF Upheld
    <2> QED BY <2>4, <2>5
  \* What a write, done or lost, leaves of the player's vote.
  <1>w. ASSUME NEW d \in updates, MayBeWritten(d) \/ votes' = Recorded(d)
        PROVE  IF d.user = u THEN votes'[u] \in {votes[u], d.pick} ELSE votes'[u] = votes[u]
    BY <1>w DEF MayBeWritten, Recorded, TypeOK
  <1>d. ASSUME NEW d \in updates, Dropped(d), MayBeWritten(d), UNCHANGED <<late, settled, counted>>
        PROVE  Upheld(u)'
    <2>1. /\ standing[u] \subseteq standing'[u]
          /\ (d.user = u => votes[u] \in standing'[u])
      BY <1>d DEF Dropped, TypeOK
    <2>2. updates' = updates \ {d}
      BY <1>d DEF Dropped
    <2> QED BY <1>c, <1>d, <1>w, <2>1, <2>2, Removed
  <1>4. ASSUME NEW d \in updates, RecordVote(d) PROVE Upheld(u)'
    <2>1. UNCHANGED <<votes, late, settled, counted>>
      BY <1>4 DEF RecordVote
    <2>2. CASE poll.status = "OPEN" /\ ~poll.due
      <3>1. updates' = (updates \ {d}) \cup {[d EXCEPT !.stage = "read"]} /\ UNCHANGED standing
        BY <1>4, <2>2 DEF RecordVote
      <3> QED BY <1>c, <2>1, <3>1, Restaged
    <2>3. CASE ~(poll.status = "OPEN" /\ ~poll.due)
      BY <1>4, <1>d, <2>1, <2>3 DEF RecordVote, MayBeWritten
    <2> QED BY <2>2, <2>3
  <1>5. ASSUME NEW d \in updates, SaveVote(d) PROVE Upheld(u)'
    <2>1. /\ votes' = Recorded(d) /\ updates' = updates \ {d}
          /\ UNCHANGED <<history, settled, counted>>
      BY <1>5 DEF SaveVote
    <2>2. IF d.user = u THEN votes'[u] = d.pick ELSE votes'[u] = votes[u]
      BY <2>1 DEF Recorded, TypeOK
    <2> QED BY <1>c, <2>1, <2>2, Removed
  <1>6. ASSUME NEW d \in updates, RecordVoteFails(d) PROVE Upheld(u)'
    <2>1. /\ updates' = (updates \ {d}) \cup {[d EXCEPT !.stage = "sent"]}
          /\ MayBeWritten(d) /\ UNCHANGED <<history, settled, counted>>
      BY <1>6 DEF RecordVoteFails
    <2>2. d.user = u \/ votes'[u] = votes[u]
      BY <1>w, <2>1
    <2> QED BY <1>c, <2>1, <2>2, Restaged
  <1>11. ASSUME NEW d \in updates, ClaimKept(d) \/ Throttle(d) PROVE Upheld(u)'
    BY <1>11, <1>d DEF ClaimKept, Throttle, MayBeWritten
  <1>7. ASSUME NEW opponents, NEW results, SaveMatch(opponents, results) PROVE Upheld(u)'
    BY <1>7, <1>a DEF SaveMatch
  <1>b. ASSUME SettlePoll, UNCHANGED <<telegram, votes, standing>> PROVE Upheld(u)'
    <2>1. counted' = votes /\ (u \notin late' => \A d \in updates : d.user # u)
      BY <1>b DEF SettlePoll
    <2> QED BY <1>b, <1>c, <2>1 DEF Upheld
  <1>8. CASE Settle
    BY <1>8, <1>b DEF Settle
  <1>9. CASE BackfillSwap \/ BackfillStops
    BY <1>9, <1>a DEF BackfillSwap, BackfillStops
  <1>10. CASE BackfillSettle
    BY <1>10, <1>a, <1>b DEF BackfillSettle
  <1> QED
    BY <1>1, <1>2, <1>3, <1>4, <1>5, <1>6, <1>11, <1>7, <1>8, <1>9, <1>10
       DEF Next, Voting, Handling, Syncing, Backfill

-----------------------------------------------------------------------------
(* The theorems *)

LEMMA InitIInv == Init => IInv
  BY InitTypeOK, InitTeamsInv, InitVoterInv DEF IInv

LEMMA NextIInv == IInv /\ [Next]_vars => IInv'
  BY NextTypeOK, NextTeamsInv, NextVoterInv DEF IInv

\* Every reachable state is well typed: a score stored is one of those a provider
\* reports, and a poll's orders are orders of its two teams.
THEOREM TypeCorrect == Spec => []TypeOK
  <1>1. IInv => TypeOK
    BY DEF IInv
  <1> QED BY <1>1, InitIInv, NextIInv, PTL DEF Spec

\* Whatever order the provider listed the teams in, and whenever the backfill ran,
\* points go by the result the score stood for, as the poll showed it
\* (realignToPollTeamOrder, backfill-team-order).
THEOREM AwardsAreTheTeams == Spec => []AwardsFollowTheTeams
  <1>1. IInv => AwardsFollowTheTeams
    BY DEF IInv, TeamsInv
  <1> QED BY <1>1, InitIInv, NextIInv, PTL DEF Spec

\* Whatever of a player's answers is sent again, saved late or dropped, the vote that
\* stays, and the one a settlement counts, is never a pick replaced before the last
\* one was given (RecordVote, SaveVote; the limiter and the claims before them).
THEOREM ReplacedPicksNeverCount == Spec => []ReplacedPicksStayReplaced
  <1>1. ASSUME IInv, NEW u \in Users
        PROVE  /\ InFlight(u) = {} => votes[u] \in standing[u]
               /\ settled # NoScore /\ u \notin late => counted[u] \in standing[u]
    <2>1. Upheld(u)
      BY <1>1 DEF IInv, VoterInv
    <2>2. InFlight(u) = {} => \A d \in updates : d.user # u
      BY DEF InFlight
    <2> QED BY <2>1, <2>2 DEF Upheld
  <1>2. IInv => ReplacedPicksStayReplaced
    BY <1>1 DEF ReplacedPicksStayReplaced
  <1> QED BY <1>2, InitIInv, NextIInv, PTL DEF Spec
=============================================================================
