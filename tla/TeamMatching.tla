----------------------------- MODULE TeamMatching -----------------------------
(***************************************************************************)
(* How one name of a ranking feed finds its local team: the feed's job        *)
(* (app.RankingSync), the match job that searches the feed for an unranked    *)
(* team (app.TeamMatchService), the chat members who are asked about it, and  *)
(* the operators who decide (telegram/team_match.go).                         *)
(*                                                                         *)
(* Handlers are concurrent: each reads the request outside a transaction and  *)
(* writes later. Only RecordResponse is a transaction, and it locks the       *)
(* candidates. The match job and the feed's job each run one at a time.       *)
(* Score[t] stands for FuzzyNameScore of team t's name and the feed's.         *)
(* Left out: best_team_id and best_score, which only label the operators'      *)
(* queue, and the operators' ping.                                            *)
(***************************************************************************)
EXTENDS Integers, Sequences, FiniteSets, FiniteSetsExt

CONSTANTS Teams, Helpers, Operators,
          Roots,          \* the operators fixed by the configuration
          NoTeam, NoOne,
          Score,          \* [Teams -> 0..100]
          SameName,       \* teams whose name is the feed's after NormalizeTeamName
          AutoAccept, Floor, MaxCandidates,
          YesBoost, NoPenalty, Cap,
          MaxAsks, AskBatch, MaxLifetime,
          MaxRounds,      \* bounds the matches handled, the chats asked and the feeds read
          MaxAnswers,     \* bounds the helpers' taps
          MaxTaps,        \* bounds the operators' taps
          MaxFailures     \* bounds the failing statements and crashes

ASSUME TeamMatchingConstants ==
    /\ NoTeam \notin Teams /\ NoOne \notin Helpers
    /\ Roots \subseteq Operators /\ SameName \subseteq Teams
    /\ Score \in [Teams -> 0..100]
    /\ \A n \in {AutoAccept, Floor, MaxCandidates, YesBoost, NoPenalty, Cap, MaxAsks,
                 AskBatch, MaxLifetime, MaxRounds, MaxAnswers, MaxTaps, MaxFailures} : n \in Nat
    /\ Floor <= AutoAccept /\ Cap < AutoAccept

VARIABLES
    snapshot,  \* ranking_snapshot holds the name
    identity,  \* team_external_identity: the team the name stands for
    aliases,   \* team_alias: the teams that have the name as an alias
    ranked,    \* team_ranking: the teams that show the name's ranking
    request,   \* team_match_request: its status and crowd_asks_sent, or none
    scores,    \* team_match_candidate
    answered,  \* team_match_response: who has answered
    asked,     \* team_match_helper_pref.asked_count
    optedOut,
    questions, \* the questions sent to each helper
    posted,    \* and to all of them
    appointed, \* team_match_operator
    job,       \* the match job
    feed,      \* the feed's job: the teams its names and rosters point to
    answering, \* the answer each helper's request is recording
    locker,    \* whose transaction holds the candidates
    card,      \* the last card of each operator: its order, and whether it is current
    deciding,  \* the decision each operator's request is carrying out
    tally,     \* the scores if every recorded answer counts in turn
    manual,    \* the teams operators have mapped the name to
    muddled,   \* two decisions overlapped, or one was cut short after its mapping
    rounds, answers, taps, failures

crowd == <<answered, asked, optedOut, questions, posted>>
review == <<card, deciding, manual, muddled, appointed>>
names == <<identity, aliases>>
budgets == <<rounds, answers, taps>>
matchingVars == <<snapshot, names, ranked, request, scores, crowd, job, feed, answering,
                  locker, review, tally, budgets, failures>>

-----------------------------------------------------------------------------
(* The scores of a request's candidates. *)

\* CrowdAdjustedScore: one more answer moves the score, within 0..Cap.
CrowdAdjusted(score, answer) ==
    LET next == IF answer = "yes" THEN score + YesBoost ELSE score - NoPenalty
    IN Max({0, Min({Cap, next})})

Candidates == DOMAIN scores

\* Mutant: the order is left to the database.
Orders_any == {order \in [1..Cardinality(Candidates) -> Candidates] :
                 \A i, j \in DOMAIN order : i < j => order[i] # order[j]}

\* FindRequest's ORDER BY score DESC: candidates with equal scores come in any order.
Orders == {order \in [1..Cardinality(Candidates) -> Candidates] :
             \A i, j \in DOMAIN order : i < j => /\ order[i] # order[j]
                                                 /\ scores[order[i]] >= scores[order[j]]}

Tops == {t \in Candidates : \A u \in Candidates : scores[u] <= scores[t]}
Distinct == \A t, u \in Candidates : scores[t] = scores[u] => t = u

NoRequest == [status |-> "none", asks |-> 0]
Pending == request.status = "pending"

\* The candidates are rescored or added to: no card shows them any more.
Rescored(new) == /\ scores' = new
                 /\ card' = [o \in Operators |-> [card[o] EXCEPT !.current = FALSE]]

Failure == failures < MaxFailures /\ failures' = failures + 1

-----------------------------------------------------------------------------
(* The match job: ensureTeamsMatched, then fanOutNewPolls. *)

Idle == [step |-> "idle", team |-> NoTeam, to |-> {}, left |-> 0, sent |-> 0]

\* ensureRequest's reads, for a team of a newly discovered match (its two teams are two
\* arrivals here). It ends there for a ranked team, and without a name close enough.
MatchArrives(t) ==
    /\ job = Idle /\ rounds < MaxRounds
    /\ t \notin ranked /\ snapshot /\ Score[t] >= Floor
    /\ rounds' = rounds + 1
    /\ job' = [Idle EXCEPT !.team = t,
                           !.step = IF Score[t] >= AutoAccept THEN "accept"
                                    ELSE IF Pending THEN "offer" ELSE "create"]
    /\ UNCHANGED <<snapshot, names, ranked, request, scores, crowd, feed, answering, locker,
                   review, tally, answers, taps, failures>>

\* SaveIdentity: an upsert by name, so a later team takes the name over.
SaveIdentity(t) == identity' = t /\ aliases' = aliases \cup {t}

\* autoAccept saves the mapping and the ranking in two statements.
AutoAcceptName ==
    /\ job.step = "accept"
    /\ SaveIdentity(job.team)
    /\ job' = [job EXCEPT !.step = "rank"]
    /\ UNCHANGED <<snapshot, ranked, request, scores, crowd, feed, answering, locker,
                   review, tally, budgets, failures>>

AutoAcceptRanking ==
    /\ job.step = "rank"
    /\ ranked' = ranked \cup {job.team}
    /\ job' = Idle
    /\ UNCHANGED <<snapshot, names, request, scores, crowd, feed, answering, locker,
                   review, tally, budgets, failures>>

\* addCompetingCandidate, for a request that was pending when the job looked.
OfferCandidate ==
    /\ job.step = "offer"
    /\ job' = [job EXCEPT !.step = "ask"]
    /\ IF job.team \in Candidates \/ Cardinality(Candidates) >= MaxCandidates
       THEN UNCHANGED <<scores, card, tally>>
       ELSE LET new == [t \in Candidates \cup {job.team} |->
                          IF t = job.team THEN Score[t] ELSE scores[t]]
            IN /\ Rescored(new)
               /\ tally' = [t \in DOMAIN new |-> IF t = job.team THEN Score[t] ELSE tally[t]]
    /\ UNCHANGED <<snapshot, names, ranked, request, crowd, feed, answering, locker,
                   deciding, manual, muddled, appointed, budgets, failures>>

\* CreateRequest: a name that had a request before, resolved or not, has none again.
CreateRequest ==
    /\ job.step = "create"
    /\ IF request = NoRequest
       THEN /\ request' = [status |-> "pending", asks |-> 0]
            /\ Rescored([t \in {job.team} |-> Score[t]])
            /\ tally' = [t \in {job.team} |-> Score[t]]
            /\ job' = [job EXCEPT !.step = "ask"]
       ELSE job' = Idle /\ UNCHANGED <<request, scores, card, tally>>
    /\ UNCHANGED <<snapshot, names, ranked, crowd, feed, answering, locker,
                   deciding, manual, muddled, appointed, budgets, failures>>

\* Mutant: the questions already sent are forgotten.
Remaining_forgets(sent) == Min({MaxAsks, AskBatch})

\* How many people one call of AskChatHelpers may ask.
Remaining(sent) == Min({MaxAsks - sent, AskBatch})

\* EligibleHelpers
Eligible(voters) == {h \in voters : ~optedOut[h] /\ asked[h] < MaxLifetime}

\* AskChatHelpers for one chat, whose recent and reachable voters are given; without an
\* eligible one it does nothing.
AskChatHelpers(voters) ==
    /\ job.step = "ask" /\ rounds < MaxRounds
    /\ Pending /\ Remaining(request.asks) > 0
    /\ Eligible(voters) # {}
    /\ rounds' = rounds + 1
    /\ job' = [job EXCEPT !.step = "asking", !.to = Eligible(voters),
                          !.left = Remaining(request.asks), !.sent = 0]
    /\ UNCHANGED <<snapshot, names, ranked, request, scores, crowd, feed, answering,
                   locker, review, tally, answers, taps, failures>>

\* One round of its loop. A failed RecordAsk leaves a question that is not counted.
Ask(h) ==
    /\ job.step = "asking" /\ h \in job.to /\ job.left > 0
    /\ \/ /\ h \in answered
          /\ job' = [job EXCEPT !.to = @ \ {h}]
          /\ UNCHANGED <<asked, questions, posted, failures>>
       \/ /\ h \notin answered
          /\ questions' = [questions EXCEPT ![h] = @ + 1] /\ posted' = posted + 1
          /\ \/ /\ asked' = [asked EXCEPT ![h] = @ + 1]
                /\ job' = [job EXCEPT !.to = @ \ {h}, !.left = @ - 1, !.sent = @ + 1]
                /\ UNCHANGED failures
             \/ /\ Failure
                /\ job' = [job EXCEPT !.to = @ \ {h}]
                /\ UNCHANGED asked
       \/ /\ h \notin answered /\ Failure   \* Enqueue fails
          /\ job' = [job EXCEPT !.to = @ \ {h}]
          /\ UNCHANGED <<asked, questions, posted>>
    /\ UNCHANGED <<snapshot, names, ranked, request, scores, answered, optedOut, feed,
                   answering, locker, review, tally, budgets>>

\* IncrementCrowdAsksSent; the next chat may follow.
CountAsks ==
    /\ job.step = "asking" /\ (job.to = {} \/ job.left = 0)
    /\ request' = [request EXCEPT !.asks = @ + job.sent]
    /\ job' = [Idle EXCEPT !.step = "ask"]
    /\ UNCHANGED <<snapshot, names, ranked, scores, crowd, feed, answering, locker,
                   review, tally, budgets, failures>>

\* No chat is left to ask.
JobEnds ==
    /\ job.step = "ask"
    /\ job' = Idle
    /\ UNCHANGED <<snapshot, names, ranked, request, scores, crowd, feed, answering,
                   locker, review, tally, budgets, failures>>

\* A statement of the job fails, or the process stops: what it has done stays.
JobFails ==
    /\ job # Idle /\ Failure
    /\ job' = Idle
    /\ UNCHANGED <<snapshot, names, ranked, request, scores, crowd, feed, answering,
                   locker, review, tally, budgets>>

-----------------------------------------------------------------------------
(* The feed's job: RankingSync.apply, for the one name. *)

Asleep == [step |-> "asleep", name |-> {}, team |-> NoTeam]

\* MatchTeam: the name itself, then an alias, then the one team with its players.
\* Only a team that shows this name's ranking has the players of its row.
MatchTeam == IF SameName # {} THEN SameName
             ELSE IF aliases # {} THEN aliases
             ELSE IF Cardinality(ranked) = 1 THEN ranked ELSE {}

\* SaveSnapshot, whose failure is only logged, and buildCandidates.
FeedArrives ==
    /\ feed = Asleep /\ rounds < MaxRounds
    /\ rounds' = rounds + 1
    /\ \/ snapshot' = TRUE /\ UNCHANGED failures
       \/ Failure /\ UNCHANGED snapshot
    /\ feed' = [Asleep EXCEPT !.step = "match", !.name = MatchTeam]
    /\ UNCHANGED <<names, ranked, request, scores, crowd, job, answering, locker,
                   review, tally, answers, taps>>

\* resolveTeam: the mapping if there is one, a new one otherwise. A lookup that fails
\* falls back to the match, and a failed save does not keep the ranking from being saved.
ResolveTeam ==
    /\ feed.step = "match"
    /\ \/ /\ identity # NoTeam
          /\ feed' = [feed EXCEPT !.step = "rank", !.team = identity]
          /\ UNCHANGED <<names, failures>>
       \/ \E t \in feed.name :
            /\ \/ identity = NoTeam /\ SaveIdentity(t) /\ UNCHANGED failures
               \/ Failure /\ SaveIdentity(t)
               \/ identity = NoTeam /\ Failure /\ UNCHANGED names
            /\ feed' = [feed EXCEPT !.step = "rank", !.team = t]
       \/ /\ identity = NoTeam /\ feed.name = {}
          /\ feed' = Asleep
          /\ UNCHANGED <<names, failures>>
    /\ UNCHANGED <<snapshot, ranked, request, scores, crowd, job, answering, locker,
                   review, tally, budgets>>

\* SaveRanking, whose failure is only logged.
SaveRanking ==
    /\ feed.step = "rank"
    /\ \/ ranked' = ranked \cup {feed.team} /\ UNCHANGED failures
       \/ Failure /\ UNCHANGED ranked
    /\ feed' = Asleep
    /\ UNCHANGED <<snapshot, names, request, scores, crowd, job, answering, locker,
                   review, tally, budgets>>

-----------------------------------------------------------------------------
(* The chat members. *)

NotAnswering == [team |-> NoTeam, answer |-> "none", seen |-> <<>>]

\* answerTeamMatchAsk: the answer goes to the candidate that is on top now.
AnswerAsk(h, answer) ==
    /\ questions[h] > 0 /\ answering[h] = NotAnswering /\ answers < MaxAnswers
    /\ Pending
    /\ answers' = answers + 1
    /\ \E t \in Tops : answering' = [answering EXCEPT ![h] = [NotAnswering EXCEPT !.team = t, !.answer = answer]]
    /\ UNCHANGED <<snapshot, names, ranked, request, scores, crowd, job, feed, locker,
                   review, tally, rounds, taps, failures>>

\* Mutant: a plain SELECT.
Unlocked_plainSelect == TRUE

\* SELECT ... FOR UPDATE waits for the other transaction.
Unlocked == locker = NoOne

\* RecordResponse, up to its read of the scores.
ReadScores(h) ==
    /\ answering[h].team # NoTeam /\ answering[h].seen = <<>>
    /\ Unlocked
    /\ locker' = h
    /\ answering' = [answering EXCEPT ![h].seen = <<scores[answering[h].team]>>]
    /\ UNCHANGED <<snapshot, names, ranked, request, scores, crowd, job, feed, review,
                   tally, budgets, failures>>

\* The rest of RecordResponse. It does not look at the request's status.
RecordResponse(h) ==
    /\ answering[h].seen # <<>>
    /\ LET a == answering[h]
       IN /\ Rescored([scores EXCEPT ![a.team] = CrowdAdjusted(a.seen[1], a.answer)])
          /\ tally' = [tally EXCEPT ![a.team] = CrowdAdjusted(@, a.answer)]
    /\ answered' = answered \cup {h}
    /\ answering' = [answering EXCEPT ![h] = NotAnswering]
    /\ locker' = NoOne
    /\ UNCHANGED <<snapshot, names, ranked, request, asked, optedOut, questions, posted, job,
                   feed, deciding, manual, muddled, appointed, budgets, failures>>

\* The transaction is rolled back, or the request never reached it.
ResponseFails(h) ==
    /\ answering[h] # NotAnswering /\ Failure
    /\ answering' = [answering EXCEPT ![h] = NotAnswering]
    /\ locker' = IF locker = h THEN NoOne ELSE locker
    /\ UNCHANGED <<snapshot, names, ranked, request, scores, crowd, job, feed, review,
                   tally, budgets>>

\* setTeamMatchHelperOptOut, from the buttons under the thanks.
OptOut(h, out) ==
    /\ h \in answered /\ optedOut[h] # out /\ answers < MaxAnswers
    /\ answers' = answers + 1
    /\ optedOut' = [optedOut EXCEPT ![h] = out]
    /\ UNCHANGED <<snapshot, names, ranked, request, scores, answered, asked,
                   questions, posted, job, feed, answering, locker, review, tally, rounds,
                   taps, failures>>

-----------------------------------------------------------------------------
(* The operators. A tap on a card is checked when it is handled, as any tap. *)

NoCard == [order |-> <<>>, current |-> FALSE]
Undecided == [step |-> "none", team |-> NoTeam, shown |-> NoTeam, current |-> FALSE]

IsOperator(o) == o \in Roots \cup appointed

Taps(o) == /\ IsOperator(o) /\ deciding[o] = Undecided
           /\ taps < MaxTaps /\ taps' = taps + 1

\* appointTeamMatchOperator, removeTeamMatchOperator. To appoint one of the Roots, or
\* somebody again, changes nothing for anyone.
Appoint(root, o) ==
    /\ root \in Roots /\ Taps(root) /\ o \notin appointed \cup Roots
    /\ appointed' = appointed \cup {o}
    /\ UNCHANGED <<snapshot, names, ranked, request, scores, crowd, job, feed, answering,
                   locker, card, deciding, manual, muddled, tally, rounds, answers, failures>>

Remove(root, o) ==
    /\ root \in Roots /\ Taps(root) /\ o \in appointed
    /\ appointed' = appointed \ {o}
    /\ UNCHANGED <<snapshot, names, ranked, request, scores, crowd, job, feed, answering,
                   locker, card, deciding, manual, muddled, tally, rounds, answers, failures>>

\* teamMatchCardMenu: one button per candidate, which carries its place only.
OpenCard(o) ==
    /\ Taps(o) /\ request # NoRequest
    /\ \E order \in Orders : card' = [card EXCEPT ![o] = [order |-> order, current |-> TRUE]]
    /\ UNCHANGED <<snapshot, names, ranked, request, scores, crowd, job, feed, answering,
                   locker, deciding, manual, muddled, appointed, tally, rounds, answers, failures>>

\* Mutant: buttons of old cards still work.
Open_always(status) == status # "none"

\* The request's status, as the decision finds it.
Open(status) == status = "pending"

Decides(o, decision) ==
    /\ Taps(o) /\ card[o] # NoCard
    /\ Open(request.status)
    /\ deciding' = [deciding EXCEPT ![o] = decision]
    /\ muddled' = (muddled \/ \E p \in Operators : deciding[p] # Undecided)
    /\ UNCHANGED <<snapshot, names, ranked, request, scores, crowd, job, feed, answering,
                   locker, card, manual, appointed, tally, rounds, answers, failures>>

\* confirmTeamMatch: the place is looked up in the candidates as they are ordered now.
Confirm(o, i) ==
    /\ i \in DOMAIN card[o].order /\ i \in 1..Cardinality(Candidates)
    /\ \E order \in Orders :
        Decides(o, [step |-> "map", team |-> order[i], shown |-> card[o].order[i],
                     current |-> card[o].current /\ Distinct])

\* rejectTeamMatch
Reject(o) == Decides(o, [Undecided EXCEPT !.step = "resolve"])

\* confirmTeamMatch's SaveIdentity.
MapName(o) ==
    /\ deciding[o].step = "map"
    /\ SaveIdentity(deciding[o].team)
    /\ manual' = manual \cup {deciding[o].team}
    /\ deciding' = [deciding EXCEPT ![o].step = "rank"]
    /\ UNCHANGED <<snapshot, ranked, request, scores, crowd, job, feed, answering,
                   locker, card, muddled, appointed, tally, budgets, failures>>

\* applyCachedRanking, whose failure is only logged.
ApplyCachedRanking(o) ==
    /\ deciding[o].step = "rank"
    /\ \/ ranked' = ranked \cup {deciding[o].team} /\ UNCHANGED failures
       \/ Failure /\ UNCHANGED ranked
    /\ deciding' = [deciding EXCEPT ![o].step = "resolve"]
    /\ UNCHANGED <<snapshot, names, request, scores, crowd, job, feed, answering,
                   locker, card, manual, muddled, appointed, tally, budgets>>

\* Resolve updates the row whatever its status.
Resolve(o) ==
    /\ deciding[o].step = "resolve"
    /\ request' = [request EXCEPT !.status = IF deciding[o].team = NoTeam THEN "rejected" ELSE "confirmed"]
    /\ deciding' = [deciding EXCEPT ![o] = Undecided]
    /\ UNCHANGED <<snapshot, names, ranked, scores, crowd, job, feed, answering,
                   locker, card, manual, muddled, appointed, tally, budgets, failures>>

\* The handler fails or dies on the way.
DecisionFails(o) ==
    /\ deciding[o] # Undecided /\ Failure
    /\ deciding' = [deciding EXCEPT ![o] = Undecided]
    /\ muddled' = (muddled \/ (deciding[o].team # NoTeam /\ deciding[o].step # "map"))
    /\ UNCHANGED <<snapshot, names, ranked, request, scores, crowd, job, feed, answering,
                   locker, card, manual, appointed, tally, budgets>>

-----------------------------------------------------------------------------
MatchingInit ==
    /\ snapshot \in BOOLEAN /\ identity = NoTeam /\ aliases = {} /\ ranked = {}
    /\ request = NoRequest /\ scores = <<>> /\ tally = <<>>
    /\ answered = {} /\ asked = [h \in Helpers |-> 0]
    /\ optedOut = [h \in Helpers |-> FALSE] /\ questions = [h \in Helpers |-> 0] /\ posted = 0
    /\ appointed = {} /\ job = Idle /\ feed = Asleep
    /\ answering = [h \in Helpers |-> NotAnswering] /\ locker = NoOne
    /\ card = [o \in Operators |-> NoCard] /\ deciding = [o \in Operators |-> Undecided]
    /\ manual = {} /\ muddled = FALSE
    /\ rounds = 0 /\ answers = 0 /\ taps = 0 /\ failures = 0

Match == \/ \E t \in Teams : MatchArrives(t)
         \/ AutoAcceptName \/ AutoAcceptRanking \/ OfferCandidate \/ CreateRequest
         \/ \E voters \in SUBSET Helpers : AskChatHelpers(voters)
         \/ \E h \in Helpers : Ask(h)
         \/ CountAsks \/ JobEnds \/ JobFails

Feed == FeedArrives \/ ResolveTeam \/ SaveRanking

Crowd == \E h \in Helpers :
           \/ \E answer \in {"yes", "no"} : AnswerAsk(h, answer)
           \/ ReadScores(h) \/ RecordResponse(h) \/ ResponseFails(h)
           \/ \E out \in BOOLEAN : OptOut(h, out)

Review == \E o \in Operators :
            \/ OpenCard(o) \/ Reject(o) \/ MapName(o) \/ ApplyCachedRanking(o) \/ Resolve(o)
            \/ DecisionFails(o)
            \/ \E i \in 1..MaxCandidates : Confirm(o, i)
            \/ \E root \in Roots : Appoint(root, o) \/ Remove(root, o)

MatchingNext == Match \/ Feed \/ Crowd \/ Review

MatchingSpec == MatchingInit /\ [][MatchingNext]_matchingVars

-----------------------------------------------------------------------------
(* Properties. *)

\* Every recorded answer counts: two people who answer at once do not overwrite each
\* other's effect on a candidate (RecordResponse's FOR UPDATE).
NoAnswerIsLost == scores = tally

\* However many matches and chats the name comes up in, and whatever overlaps, at most
\* MaxAsks questions are sent about it and at most MaxLifetime to one person; a statement
\* that fails or a crash leaves at most a call's questions uncounted (AskChatHelpers).
AsksStayWithinCaps ==
    /\ posted <= MaxAsks + AskBatch * failures
    /\ \A h \in Helpers : questions[h] <= MaxLifetime + failures

\* Decisions that neither overlap nor stop half way leave the name as the request says:
\* mapped by no operator while it is pending or rejected, to one team once confirmed.
\* Old cards and second taps do not undo a decision.
DecisionsStand ==
    muddled \/ (\E o \in Operators : deciding[o] # Undecided)
      \/ Cardinality(manual) = (IF request.status = "confirmed" THEN 1 ELSE 0)

\* The operator confirms the team whose button was tapped, as long as no answer and no
\* new candidate has come since the card was drawn, and no two candidates score alike
\* (a button carries its place in the order, not its team).
ConfirmsWhatWasShown ==
    \A o \in Operators : deciding[o].current => deciding[o].team = deciding[o].shown
=============================================================================
