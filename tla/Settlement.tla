------------------------------- MODULE Settlement -------------------------------
(***************************************************************************)
(* Settling the polls of finished matches.                                  *)
(*                                                                         *)
(* synchronize-matches stores what the provider reports of a match and, for  *)
(* a finished one, settles each chat's poll in a transaction of its own:      *)
(* awards replaced, messages enqueued, milestones claimed, and the score      *)
(* recorded as settled, so that an unchanged score is skipped and a corrected  *)
(* one settled anew. PostgreSQL refuses every statement after a failed one,    *)
(* COMMIT included, whatever the code made of the failure.                     *)
(*                                                                         *)
(* Left out: team order, wording, the time of an award, and chats that did     *)
(* not ask for recaps or milestones.                                         *)
(***************************************************************************)
EXTENDS Naturals, FiniteSets, Sequences

CONSTANTS Chats, Matches, Players,
          Scores,          \* the final scores a match may have
          Winner,          \* the side each score is a win for
          Vote,            \* what each player of each chat predicted
          NoVote,
          NoScore,         \* not finished, or not settled
          Void,            \* cancelled or forfeited
          Milestones,      \* scoring.ExactMilestones
          MaxCorrections,  \* how often the provider may correct a result
          MaxFaults        \* how many statements fail or runs are cut short

ASSUME SettlementConstants ==
    /\ IsFiniteSet(Chats) /\ IsFiniteSet(Matches) /\ IsFiniteSet(Players)
    /\ NoVote \notin Scores /\ NoScore \notin Scores /\ Void \notin Scores /\ NoScore # Void
    /\ Vote \in [Chats -> [Matches -> [Players -> Scores \cup {NoVote}]]]
    /\ Milestones \subseteq Nat \ {0}
    /\ MaxCorrections \in Nat /\ MaxFaults \in Nat

VARIABLES
    reported,    \* what the provider says of each match
    stored,      \* what the catalog does
    corrections,
    awards,      \* score_award: what each poll's votes earned
    settled,     \* match_settlement: the score each poll was last settled with
    results,     \* the scores announced for each poll, in order
    claimed,     \* prediction_milestone
    told,        \* how often each milestone was announced
    pc, match, todo, chat,  \* the run: its stage, its match, the polls left, the poll in hand
    aborted,     \* a statement of the open transaction has failed
    undone,      \* the polls whose last settlement failed in nothing but a courtesy
    faults

catalog == <<reported, stored, corrections>>
scoreboard == <<awards, settled, results, claimed, told>>
run == <<pc, match, todo, chat, aborted>>
vars == <<reported, stored, corrections, awards, settled, results, claimed, told,
          pc, match, todo, chat, aborted, undone, faults>>

Outcomes == Scores \cup {NoScore, Void}
Kind == {"none", "OUTCOME", "EXACT_SCORE"}

TypeOK ==
    /\ reported \in [Matches -> Outcomes]
    /\ stored \in [Matches -> Outcomes]
    /\ corrections \in 0 .. MaxCorrections
    /\ awards \in [Chats -> [Matches -> [Players -> Kind]]]
    /\ settled \in [Chats -> [Matches -> Scores \cup {NoScore}]]
    /\ results \in [Chats -> [Matches -> Seq(Scores)]]
    /\ claimed \in [Chats -> SUBSET (Players \X Milestones)]
    /\ told \in [Chats -> [Players \X Milestones -> {0, 1}]]
    /\ pc \in {"idle", "settle", "courtesies", "mark", "complete"}
    /\ match \in Matches
    /\ todo \subseteq Chats
    /\ chat \in Chats
    /\ aborted \in BOOLEAN
    /\ undone \subseteq Chats \X Matches
    /\ faults \in 0 .. MaxFaults

Init ==
    /\ reported = [m \in Matches |-> NoScore]
    /\ stored = [m \in Matches |-> NoScore]
    /\ corrections = 0
    /\ awards = [c \in Chats |-> [m \in Matches |-> [p \in Players |-> "none"]]]
    /\ settled = [c \in Chats |-> [m \in Matches |-> NoScore]]
    /\ results = [c \in Chats |-> [m \in Matches |-> <<>>]]
    /\ claimed = [c \in Chats |-> {}]
    /\ told = [c \in Chats |-> [r \in Players \X Milestones |-> 0]]
    /\ pc = "idle"
    /\ match \in Matches
    /\ todo = {}
    /\ chat \in Chats
    /\ aborted = FALSE
    /\ undone = {}
    /\ faults = 0

Fault == faults < MaxFaults /\ faults' = faults + 1

-----------------------------------------------------------------------------
(* The provider *)

Report(m, s) ==
    /\ reported[m] = NoScore
    /\ reported' = [reported EXCEPT ![m] = s]
    /\ UNCHANGED <<stored, corrections, scoreboard, run, undone, faults>>

\* A result that was wrong at first.
Correct(m, s) ==
    /\ reported[m] \in Scores \ {s}
    /\ corrections < MaxCorrections
    /\ corrections' = corrections + 1
    /\ reported' = [reported EXCEPT ![m] = s]
    /\ UNCHANGED <<stored, scoreboard, run, undone, faults>>

-----------------------------------------------------------------------------
(* CompetitionSynchronization.processMatch, for a match that is over *)

\* Store the match, and settle its polls if it has a score.
ProcessMatch(m) ==
    /\ pc = "idle"
    /\ reported[m] # NoScore
    /\ stored' = [stored EXCEPT ![m] = reported[m]]
    /\ IF reported[m] = Void
       THEN UNCHANGED run
       ELSE /\ pc' = "settle" /\ match' = m /\ todo' = Chats
            /\ UNCHANGED <<chat, aborted>>
    /\ UNCHANGED <<reported, corrections, scoreboard, undone, faults>>

\* Mutant of NeedsSettling: the stored result hash is not compared.
NeedsSettling_always(c) == stored[match] # NoScore

\* Mutant of NeedsSettling: a settled poll is never looked at again.
NeedsSettling_once(c) == settled[c][match] = NoScore

NeedsSettling(c) == settled[c][match] # stored[match]

SkipSettled(c) ==
    /\ pc = "settle"
    /\ c \in todo
    /\ ~NeedsSettling(c)
    /\ todo' = todo \ {c}
    /\ UNCHANGED <<catalog, scoreboard, pc, match, chat, aborted, undone, faults>>

\* settleOne begins: the awards are replaced and the result enqueued, to be
\* seen once the transaction commits.
Begin(c) ==
    /\ pc = "settle"
    /\ c \in todo
    /\ NeedsSettling(c)
    /\ pc' = "courtesies" /\ chat' = c /\ aborted' = FALSE
    /\ UNCHANGED <<catalog, scoreboard, match, todo, undone, faults>>

\* enqueueRecaps and MilestoneService.Record swallow what goes wrong in them,
\* but the transaction they run in is past saving.
Courtesies ==
    /\ pc = "courtesies"
    /\ \/ UNCHANGED <<aborted, faults>>
       \/ Fault /\ aborted' = TRUE
    /\ pc' = "mark"
    /\ UNCHANGED <<catalog, scoreboard, match, todo, chat, undone>>

\* The run gives up on this match: Settle returns at the first error.
GiveUp == pc' = "idle" /\ todo' = {} /\ UNCHANGED <<match, chat, aborted>>

\* A statement whose error is not swallowed, the commit, or the whole run fails.
SettleFails ==
    /\ pc \in {"settle", "courtesies", "mark", "complete"}
    /\ Fault
    /\ GiveUp
    /\ UNCHANGED <<catalog, scoreboard, undone>>

Calculate(predicted, actual) ==
    CASE predicted = NoVote                 -> "none"
      [] predicted = actual                 -> "EXACT_SCORE"
      [] Winner[predicted] = Winner[actual] -> "OUTCOME"
      [] OTHER                              -> "none"

\* What the votes on m's poll in c earn under this score.
AwardsFor(c, m, score) ==
    [p \in Players |-> IF Vote[c][m][p] = NoVote THEN "none" ELSE Calculate(Vote[c][m][p], score)]

ExactCount(aw, p) == Cardinality({m \in Matches : aw[m][p] = "EXACT_SCORE"})

\* Mutant of CrossedMilestone: reaching it exactly does not count.
CrossedMilestone_past(before, after) ==
    LET crossed == {k \in Milestones : before < k /\ after > k}
    IN  {k \in crossed : \A other \in crossed : other <= k}

\* The highest milestone passed by going from before to after, if any.
CrossedMilestone(before, after) ==
    LET crossed == {k \in Milestones : before < k /\ after >= k}
    IN  {k \in crossed : \A other \in crossed : other <= k}

\* The milestones this settlement claims: those its exact scores crossed that
\* nobody has claimed for them before.
MilestonesOf(c, aw) ==
    {r \in Players \X Milestones :
        /\ aw[match][r[1]] = "EXACT_SCORE"
        /\ r[2] \in CrossedMilestone(ExactCount(aw, r[1]) - 1, ExactCount(aw, r[1]))}
    \ claimed[c]

\* Mutant of ReplaceAwards: the old awards are not deleted first.
ReplaceAwards_adds(c, new) ==
    [awards[c] EXCEPT ![match] = [p \in Players |-> IF @[p] # "none" THEN @[p] ELSE new[p]]]

\* The chat's awards once those of this poll are replaced.
ReplaceAwards(c, new) == [awards[c] EXCEPT ![match] = new]

\* MarkSettled succeeds and the transaction commits, all of it at once.
MarkSettled ==
    LET aw == ReplaceAwards(chat, AwardsFor(chat, match, stored[match]))
        new == MilestonesOf(chat, aw)
    IN  /\ pc = "mark"
        /\ ~aborted
        /\ awards' = [awards EXCEPT ![chat] = aw]
        /\ settled' = [settled EXCEPT ![chat][match] = stored[match]]
        /\ results' = [results EXCEPT ![chat][match] = Append(@, stored[match])]
        /\ claimed' = [claimed EXCEPT ![chat] = @ \cup new]
        /\ told' = [told EXCEPT ![chat] = [r \in DOMAIN @ |-> IF r \in new THEN @[r] + 1 ELSE @[r]]]
        /\ undone' = undone \ {<<chat, match>>}
        /\ pc' = "settle" /\ todo' = todo \ {chat}
        /\ UNCHANGED <<catalog, match, chat, aborted, faults>>

\* MarkSettled meets the aborted transaction: everything is rolled back.
MarkRefused ==
    /\ pc = "mark"
    /\ aborted
    /\ undone' = undone \cup {<<chat, match>>}
    /\ GiveUp
    /\ UNCHANGED <<catalog, scoreboard, faults>>

Settled ==
    /\ pc = "settle"
    /\ todo = {}
    /\ pc' = "complete"
    /\ UNCHANGED <<catalog, scoreboard, match, todo, chat, aborted, undone, faults>>

\* processMatch returns, having completed the event (see EventCompletion).
EndRun ==
    /\ pc = "complete"
    /\ pc' = "idle"
    /\ UNCHANGED <<catalog, scoreboard, match, todo, chat, aborted, undone, faults>>

-----------------------------------------------------------------------------

Provider == \E m \in Matches : (\E s \in Scores \cup {Void} : Report(m, s)) \/ \E s \in Scores : Correct(m, s)

SettleOne == Courtesies \/ MarkSettled \/ MarkRefused

Settle == Settled \/ SettleOne \/ \E c \in Chats : SkipSettled(c) \/ Begin(c)

Next == Provider \/ (\E m \in Matches : ProcessMatch(m)) \/ Settle \/ SettleFails \/ EndRun

\* Every match the provider lists is processed again and again.
Fairness == WF_vars(Settle) /\ WF_vars(EndRun) /\ \A m \in Matches : SF_vars(ProcessMatch(m))

Spec == Init /\ [][Next]_vars
FairSpec == Spec /\ Fairness

-----------------------------------------------------------------------------
(* Properties *)

\* The scoreboard is what the recorded settlement says, through corrections,
\* failed statements and aborted runs: whatever score a poll is marked settled
\* with, its awards are that score's and nobody else's (scoring.Service.Settle:
\* "old awards for this poll are wiped even if the freshly computed set is empty").
AwardsMatchSettlement ==
    \A c \in Chats, m \in Matches :
        awards[c][m] = IF settled[c][m] = NoScore
                       THEN [p \in Players |-> "none"]
                       ELSE AwardsFor(c, m, settled[c][m])

\* A result is announced when it is new or corrected, never again unchanged
\* ("re-processing an unchanged final score is a no-op", app/settlement.go).
NoResultTwice ==
    \A c \in Chats, m \in Matches :
        \A i \in 1 .. Len(results[c][m]) - 1 : results[c][m][i] # results[c][m][i + 1]

\* Whoever has a milestone's worth of exact scores holds the milestone, and was
\* congratulated exactly once, even if a correction took the score away and
\* another gave it back (MilestoneService.Record, ClaimMilestone).
MilestonesAreToldOnce ==
    \A c \in Chats, p \in Players, k \in Milestones :
        /\ ExactCount(awards[c], p) >= k => <<p, k>> \in claimed[c]
        /\ told[c][<<p, k>>] = IF <<p, k>> \in claimed[c] THEN 1 ELSE 0

\* Once the provider's result stands and failures end, every poll of the match
\* is settled with it.
EveryPollIsSettled ==
    \A c \in Chats, m \in Matches :
        <>[](reported[m] \in Scores => settled[c][m] = reported[m])

-----------------------------------------------------------------------------
(* What the source says, and the code does not do: no run checks it (README, 5). *)

\* "failing to work out who wants one must not roll back the settlement it
\* describes" (enqueueRecaps, app/settlement.go): no settlement is undone by a
\* failure in its courtesies alone.
CourtesiesUndoNothing == undone = {}
=============================================================================
