--------------------------------- MODULE Votes ---------------------------------
(***************************************************************************)
(* The votes of one poll, from Telegram's poll_answer to the awards, and the *)
(* order of the two teams the poll's options are read in.                    *)
(*                                                                         *)
(* Each poll_answer is handled by a request of its own: it reads the poll's   *)
(* row, and saves or removes a vote later (prediction.Service.RecordVote), if   *)
(* the update is not dropped before (UpdateDelivery has the whole ledger).     *)
(* Meanwhile jobs move and close the poll, and synchronize-matches stores the  *)
(* provider's reports, which list the two teams in either order.             *)
(*                                                                         *)
(* A score is a pair <<first, second>>. "AB" and "BA" are the orders of the    *)
(* teams; A has the lower id at the provider. The time of day is left out:    *)
(* due says that closes_at has passed. A replaced opponent is left out.       *)
(* Closing is modelled in PredictionPolls, the settling transaction and its    *)
(* messages in Settlement; each is one step here.                            *)
(***************************************************************************)
EXTENDS Naturals, FiniteSets, Sequences

CONSTANTS Users,
          Scores,     \* the final scores of the format, as <<first, second>>
          NoVote, NoScore,
          MaxAnswers, \* how many answers Telegram sends
          MaxReports, \* how often the provider changes its report
          MaxFaults   \* how many requests or runs fail

ASSUME VotesConstants ==
    /\ Scores \subseteq Nat \X Nat
    /\ \A s \in Scores : <<s[2], s[1]>> \in Scores
    /\ NoVote \notin Scores /\ NoScore \notin Scores
    /\ MaxAnswers \in Nat /\ MaxReports \in Nat /\ MaxFaults \in Nat

Orders == {"AB", "BA"}
Choices == Scores \cup {NoVote}

VARIABLES
    result,   \* the match as the provider knows it: A's maps first, or NoScore
    phase,    \* "upcoming", "live" or "over"
    reports,
    match,    \* the stored match; truth is the result its score stands for
    poll,     \* the match_poll row, and the order shown to the players
    choice,   \* what each player has picked in Telegram
    updates,  \* the poll_answer updates sent and not yet handled
    sent,     \* how many were sent
    votes,    \* prediction_vote
    standing, \* of each player: the picks the vote may be, given the answers so far
    late,     \* players with an answer under way at the last settlement, or given after it
    counted,  \* the votes the last settlement read
    awards,   \* score_award
    settled,  \* match_settlement: the score, as stored, it was settled with
    basis,    \* the result that score stood for
    repaired, \* backfill-team-order has settled this poll again
    repair,   \* where backfill-team-order stands
    recorded, \* affectedMatches: the score the match was found with, or NoScore
    faults

provider == <<result, phase, reports>>
telegram == <<choice, updates, sent>>
history == <<standing, late>>
scores == <<counted, awards, settled, basis>>
repairs == <<repaired, repair, recorded>>
vars == <<result, phase, reports, match, poll, choice, updates, sent, votes, standing, late,
          counted, awards, settled, basis, repaired, repair, recorded, faults>>

Update == [user : Users, pick : Choices, stage : {"sent", "read"}, nr : 1 .. MaxAnswers]
Kind == {"none", "OUTCOME", "EXACT_SCORE"}

TypeOK ==
    /\ result \in Scores \cup {NoScore}
    /\ phase \in {"upcoming", "live", "over"}
    /\ reports \in 0 .. MaxReports
    /\ match \in [order : Orders \cup {"unknown"}, score : Scores \cup {NoScore},
                  truth : Scores \cup {NoScore}]
    /\ poll \in [status : {"none", "OPEN", "CLOSED"}, due : BOOLEAN,
                 shown : Orders, anchor : Orders \cup {"unknown"}]
    /\ choice \in [Users -> Choices]
    /\ updates \subseteq Update
    /\ sent \in 0 .. MaxAnswers
    /\ votes \in [Users -> Choices] /\ counted \in [Users -> Choices]
    /\ standing \in [Users -> SUBSET Choices] /\ late \subseteq Users
    /\ awards \in [Users -> Kind]
    /\ settled \in Scores \cup {NoScore} /\ basis \in Scores \cup {NoScore}
    /\ repaired \in BOOLEAN
    /\ repair \in {"idle", "saved"}
    /\ recorded \in Scores \cup {NoScore}
    /\ faults \in 0 .. MaxFaults

Swap(s) == <<s[2], s[1]>>
InOrder(s, order) == IF order = "BA" THEN Swap(s) ELSE s

Outcome(s) == CASE s[1] > s[2] -> "first" [] s[1] < s[2] -> "second" [] OTHER -> "draw"

\* scoring.Calculate
Calculate(predicted, actual) ==
    CASE predicted = actual                   -> "EXACT_SCORE"
      [] Outcome(predicted) = Outcome(actual) -> "OUTCOME"
      [] OTHER                                -> "none"

Award(pick, actual) == IF pick = NoVote THEN "none" ELSE Calculate(pick, actual)

Unstored == [order |-> "unknown", score |-> NoScore, truth |-> NoScore]
Nobody == [u \in Users |-> NoVote]
Nothing == [u \in Users |-> "none"]

\* A poll of today's code begins with the match not yet published.
NewMatch ==
    /\ result = NoScore /\ phase = "upcoming"
    /\ match = Unstored
    /\ poll = [status |-> "none", due |-> FALSE, shown |-> "AB", anchor |-> "unknown"]
    /\ votes = Nobody /\ counted = Nobody /\ awards = Nothing
    /\ settled = NoScore /\ basis = NoScore
    /\ recorded = NoScore

\* A poll with its anchor, of a match stored before the opponents were sorted.
UnsortedMatch ==
    /\ result = NoScore /\ phase = "upcoming"
    /\ match = [Unstored EXCEPT !.order = "BA"]
    /\ poll = [status |-> "OPEN", due |-> FALSE, shown |-> "BA", anchor |-> "BA"]
    /\ votes = Nobody /\ counted = Nobody /\ awards = Nothing
    /\ settled = NoScore /\ basis = NoScore
    /\ recorded = NoScore

\* A poll from before the anchor, settled with the teams the wrong way round.
LegacyMatch ==
    /\ phase = "over"
    /\ result \in Scores
    /\ match = [order |-> "BA", score |-> Swap(result), truth |-> result]
    /\ poll = [status |-> "CLOSED", due |-> TRUE, shown |-> "AB", anchor |-> "unknown"]
    /\ votes \in [Users -> Choices] /\ counted = votes
    /\ awards = [u \in Users |-> Award(votes[u], match.score)]
    /\ settled = match.score /\ basis = result
    /\ recorded = match.score

Init ==
    /\ NewMatch \/ UnsortedMatch \/ LegacyMatch
    /\ choice = votes
    /\ reports = 0
    /\ updates = {} /\ sent = 0
    /\ standing = [u \in Users |-> {choice[u]}] /\ late = {}
    /\ repaired = FALSE /\ repair = "idle"
    /\ faults = 0

Fault == faults < MaxFaults /\ faults' = faults + 1

-----------------------------------------------------------------------------
(* The provider *)

Start ==
    /\ phase = "upcoming"
    /\ phase' = "live"
    /\ UNCHANGED <<result, reports, match, poll, telegram, votes, history, scores, repairs, faults>>

\* The match ends, or its result is corrected.
Report(s) ==
    /\ phase # "upcoming"
    /\ s # result
    /\ reports < MaxReports
    /\ result' = s /\ phase' = "over" /\ reports' = reports + 1
    /\ UNCHANGED <<match, poll, telegram, votes, history, scores, repairs, faults>>

-----------------------------------------------------------------------------
(* Telegram *)

InFlight(u) == {d \in updates : d.user = u}

\* A player picks an option or retracts, while Telegram has the poll open.
Answer(u, pick) ==
    /\ poll.status = "OPEN" /\ ~poll.due
    /\ sent < MaxAnswers
    /\ pick # choice[u]
    /\ choice' = [choice EXCEPT ![u] = pick]
    /\ sent' = sent + 1
    /\ updates' = updates \cup {[user |-> u, pick |-> pick, stage |-> "sent", nr |-> sent + 1]}
    /\ standing' = [standing EXCEPT ![u] = {pick} \cup {d.pick : d \in InFlight(u)}]
    /\ late' = IF settled # NoScore THEN late \cup {u} ELSE late
    /\ UNCHANGED <<provider, match, poll, votes, scores, repairs, faults>>

-----------------------------------------------------------------------------
(* RecordVote *)

\* The answer is done with, and the vote stays what it is.
Dropped(d) ==
    /\ updates' = updates \ {d}
    /\ standing' = [standing EXCEPT ![d.user] = @ \cup {votes[d.user]}]

\* "poll not open / already past closesAt" is a silent no-op.
RecordVote(d) ==
    /\ d.stage = "sent"
    /\ IF poll.status = "OPEN" /\ ~poll.due
       THEN updates' = (updates \ {d}) \cup {[d EXCEPT !.stage = "read"]} /\ UNCHANGED standing
       ELSE Dropped(d)
    /\ UNCHANGED <<provider, match, poll, choice, sent, votes, late, scores, repairs, faults>>

Recorded(d) == [votes EXCEPT ![d.user] = d.pick]

\* Mutant of SaveVote: an empty answer leaves the vote in place.
SaveVote_keepsRetracted(d) ==
    /\ d.stage = "read"
    /\ votes' = IF d.pick = NoVote THEN votes ELSE Recorded(d)
    /\ updates' = updates \ {d}
    /\ UNCHANGED <<provider, match, poll, choice, sent, history, scores, repairs, faults>>

\* SaveVote replaces the player's vote; a retracted answer removes it. The
\* poll is not looked at again.
SaveVote(d) ==
    /\ d.stage = "read"
    /\ votes' = Recorded(d)
    /\ updates' = updates \ {d}
    /\ UNCHANGED <<provider, match, poll, choice, sent, history, scores, repairs, faults>>

\* A failed write may have been committed.
MayBeWritten(d) ==
    \/ UNCHANGED votes
    \/ d.stage = "read" /\ votes' = Recorded(d)

\* The request fails; its claim is released and Telegram sends the update again.
RecordVoteFails(d) ==
    /\ Fault
    /\ MayBeWritten(d)
    /\ updates' = (updates \ {d}) \cup {[d EXCEPT !.stage = "sent"]}
    /\ UNCHANGED <<provider, match, poll, choice, sent, history, scores, repairs>>

\* The request fails, or the process dies, and the claim stays: the update sent
\* again is taken for a duplicate.
ClaimKept(d) ==
    /\ Fault
    /\ MayBeWritten(d)
    /\ Dropped(d)
    /\ UNCHANGED <<provider, match, poll, choice, sent, late, scores, repairs>>

\* Over the player's allowance, the update is dropped with its claim.
Throttle(d) ==
    /\ d.stage = "sent"
    /\ Dropped(d)
    /\ UNCHANGED <<provider, match, poll, choice, sent, votes, late, scores, repairs, faults>>

-----------------------------------------------------------------------------
(* The jobs that end a poll *)

Due ==
    /\ poll.status = "OPEN" /\ ~poll.due
    /\ poll' = [poll EXCEPT !.due = TRUE]
    /\ UNCHANGED <<provider, match, telegram, votes, history, scores, repairs, faults>>

Reschedule ==
    /\ poll.status = "OPEN" /\ poll.due /\ phase = "upcoming"
    /\ poll' = [poll EXCEPT !.due = FALSE]
    /\ UNCHANGED <<provider, match, telegram, votes, history, scores, repairs, faults>>

\* CloseDue, or CloseForRunningMatch.
Close ==
    /\ poll.status = "OPEN"
    /\ poll.due \/ phase # "upcoming"
    /\ poll' = [poll EXCEPT !.status = "CLOSED"]
    /\ UNCHANGED <<provider, match, telegram, votes, history, scores, repairs, faults>>

-----------------------------------------------------------------------------
(* Storing a report: processMatch *)

\* What the provider lists of the opponents; results may lag behind the status.
Opponents == {<<>>, <<"A">>, <<"B">>, <<"A", "B">>, <<"B", "A">>}

\* mapMatch: the opponents sorted by id, and a score only with both teams' results.
MapMatch(opponents, results) ==
    LET known == Len(opponents) = 2
    IN  [order |-> IF known THEN "AB" ELSE "unknown",
         truth |-> IF known /\ results = {"A", "B"} THEN result ELSE NoScore]

\* A match keeps the order of the teams it was first stored with.
ReconcileTeamOrder(order) ==
    IF match.order # "unknown" /\ order # "unknown" THEN match.order ELSE order

Stored(incoming) ==
    LET order == ReconcileTeamOrder(incoming.order)
    IN  [order |-> order, truth |-> incoming.truth,
         score |-> IF incoming.truth = NoScore THEN NoScore ELSE InOrder(incoming.truth, order)]

\* The opponents may be withdrawn and published anew until the match starts.
SaveMatch(opponents, results) ==
    /\ Len(opponents) < 2 => phase = "upcoming"
    /\ match' = Stored(MapMatch(opponents, results))
    /\ IF /\ poll.status = "none" /\ phase = "upcoming"
          /\ match'.order # "unknown" /\ match.order = "unknown"
       THEN poll' = [status |-> "OPEN", due |-> FALSE, shown |-> match'.order, anchor |-> match'.order]
       ELSE UNCHANGED poll
    /\ UNCHANGED <<provider, telegram, votes, history, scores, repairs, faults>>

-----------------------------------------------------------------------------
(* Settling: ResultSettlementService.Settle and scoring.Service.Settle *)

\* Mutant of RealignToPollTeamOrder: the stored score is read as it is.
RealignToPollTeamOrder_none(s) == s

\* The score in the order the poll was created with, when that is known.
RealignToPollTeamOrder(s) ==
    IF poll.anchor # "unknown" /\ poll.anchor # match.order THEN Swap(s) ELSE s

SettlePoll ==
    /\ poll.status # "none"
    /\ match.score # NoScore
    /\ settled # match.score
    /\ counted' = votes
    /\ awards' = [u \in Users |-> Award(votes[u], RealignToPollTeamOrder(match.score))]
    /\ settled' = match.score /\ basis' = match.truth
    /\ late' = {d.user : d \in updates}

Settle ==
    /\ SettlePoll
    /\ UNCHANGED <<provider, match, poll, telegram, votes, standing, repairs, faults>>

-----------------------------------------------------------------------------
(* backfill-team-order: a reviewed list of matches, each with the state it was *)
(* found in                                                                   *)

MatchesRecordedState ==
    /\ recorded # NoScore
    /\ match.order = "BA" /\ match.score = recorded

BackfillSwap ==
    /\ repair = "idle"
    /\ MatchesRecordedState
    /\ match' = [match EXCEPT !.order = IF @ = "BA" THEN "AB" ELSE "BA", !.score = Swap(@)]
    /\ repair' = "saved"
    /\ UNCHANGED <<provider, poll, telegram, votes, history, scores, repaired, recorded, faults>>

\* A score equal to the one settled last is skipped, as ever.
BackfillSettle ==
    /\ repair = "saved"
    /\ IF settled # match.score
       THEN SettlePoll /\ repaired' = TRUE
       ELSE UNCHANGED <<scores, late, repaired>>
    /\ repair' = "idle"
    /\ UNCHANGED <<provider, match, poll, telegram, votes, standing, recorded, faults>>

\* The program stops between its two writes; run again, it skips the match.
BackfillStops ==
    /\ repair = "saved"
    /\ Fault
    /\ repair' = "idle"
    /\ UNCHANGED <<provider, match, poll, telegram, votes, history, scores, repaired, recorded>>

-----------------------------------------------------------------------------

Voting == \E u \in Users, pick \in Choices : Answer(u, pick)
Handling ==
    \E d \in updates :
        RecordVote(d) \/ SaveVote(d) \/ RecordVoteFails(d) \/ ClaimKept(d) \/ Throttle(d)
Ending == Due \/ Reschedule \/ Close
Syncing ==
    \/ \E opponents \in Opponents, results \in SUBSET {"A", "B"} : SaveMatch(opponents, results)
    \/ Settle
Backfill == BackfillSwap \/ BackfillSettle \/ BackfillStops

Next == Start \/ (\E s \in Scores : Report(s)) \/ Voting \/ Handling \/ Ending \/ Syncing \/ Backfill

Spec == Init /\ [][Next]_vars

-----------------------------------------------------------------------------
(* Properties *)

\* Points go to those who backed the team that won, whatever order the teams were
\* stored in and even when the opponents were withdrawn and published anew: for
\* every poll with an anchor (realignToPollTeamOrder,
\* scoring/service.go) and every older one the backfill has settled again.
AwardsFollowTheTeams ==
    (poll.anchor # "unknown" \/ repaired) /\ settled # NoScore =>
        \A u \in Users : awards[u] = Award(counted[u], InOrder(basis, poll.shown))

\* A player's vote is the last pick, or one still under way when that was given
\* (requests race: the older may be saved last), or the vote that stood when an
\* answer was dropped (by the limiter, with its claim, or at a closed poll): a pick
\* replaced before the last one was given never comes back, whatever was sent
\* again (RecordVote, prediction/service.go). A settlement counts such a vote,
\* unless an answer was under way then, or came after it: a finished match does not
\* close its poll (processMatch, sync.go).
ReplacedPicksStayReplaced ==
    \A u \in Users :
        /\ InFlight(u) = {} => votes[u] \in standing[u]
        /\ settled # NoScore /\ u \notin late => counted[u] \in standing[u]

=============================================================================
