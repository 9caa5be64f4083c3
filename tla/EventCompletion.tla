---------------------------- MODULE EventCompletion ----------------------------
(***************************************************************************)
(* Completing an event: medals, and a recap for every chat subscribed to it. *)
(*                                                                         *)
(* Composed with Settlement, whose matches are those of one event. Three     *)
(* jobs under three cluster locks may complete the event: synchronize-matches *)
(* after settling a match, the reconciliation sweep at any time, and event     *)
(* discovery once, when the provider first lists the event as finished. Each    *)
(* does nothing until every stored match is over; then it completes one chat     *)
(* after the other, in a transaction that holds an advisory lock on the chat's     *)
(* event and compares the standings with those last recorded.                     *)
(*                                                                         *)
(* Left out: nominations, personal recaps, topics, the cap on the leaderboard,  *)
(* and chats that did not ask for a recap.                                      *)
(***************************************************************************)
EXTENDS Settlement

CONSTANTS ExactPoints,     \* what an exact score earns; the right winner earns 1
          MedalPlaces,     \* the ranks that win a medal: 3 in the code
          Broken,          \* chats whose completion always fails
          NotCompleted     \* no standings recorded yet

Tables == [Players -> [points : Nat, row : Nat]]

ASSUME CompletionConstants ==
    /\ Players \subseteq Nat     \* user ids: they break ties
    /\ ExactPoints \in Nat \ {0}
    /\ MedalPlaces \in Nat
    /\ Broken \subseteq Chats
    /\ NotCompleted \notin [chat : Chats, table : Tables]

VARIABLES
    hash,       \* event_chat_completion: the standings last recorded
    medals,     \* event_medal
    recaps,     \* the standings each chat was told, in order
    stage,      \* each job's place in Complete
    left,       \* the chats it has yet to complete
    open,       \* the chat whose transaction it has open and the standings read there
    lock,       \* the job holding the advisory lock of each chat's event, or "none"
    discovered  \* the event was stored as FINISHED

settlementButFaults == <<reported, stored, corrections, awards, settled, results, claimed, told,
                         pc, match, todo, chat, aborted, undone>>
settlementVars == <<settlementButFaults, faults>>
record == <<hash, medals, recaps>>
jobs == <<stage, left, open, lock>>
completionVars == <<settlementVars, record, jobs, discovered>>

Jobs == {"sync", "reconcile", "discover"}

\* Leaderboard(chat, event) of these awards: everybody who voted on a finished
\* match; a vote that is not settled yet is worth nothing.
Standings(c) ==
    LET polls(p) == {m \in Matches : stored[m] \in Scores /\ Vote[c][m][p] # NoVote}
        of(p, kind) == Cardinality({m \in polls(p) : awards[c][m][p] = kind})
        points(p) == ExactPoints * of(p, "EXACT_SCORE") + of(p, "OUTCOME")
        rows == {p \in Players : polls(p) # {}}
        Ahead(p, q) ==
            \/ points(p) > points(q)
            \/ points(p) = points(q) /\ of(p, "EXACT_SCORE") > of(q, "EXACT_SCORE")
            \/ /\ points(p) = points(q) /\ of(p, "EXACT_SCORE") = of(q, "EXACT_SCORE")
               /\ \/ Cardinality(polls(p)) > Cardinality(polls(q))
                  \/ Cardinality(polls(p)) = Cardinality(polls(q)) /\ p < q
    IN  [p \in Players |->
            IF p \in rows
            THEN [points |-> points(p), row |-> Cardinality({q \in rows : Ahead(q, p)}) + 1]
            ELSE [points |-> 0, row |-> 0]]

\* The players in the table: those with a row.
Rows(st) == {p \in Players : st[p].row # 0}

\* A row's rank: only a difference in points advances it.
DenseRank(st, p) ==
    LET better == {q \in Rows(st) : st[q].points > st[p].points}
    IN  Cardinality({st[q].points : q \in better}) + 1

\* The medals these standings win.
MedalsFor(st) ==
    LET winners == {p \in Rows(st) : DenseRank(st, p) <= MedalPlaces}
    IN  {<<p, DenseRank(st, p)>> : p \in winners}

CompletionTypeOK ==
    /\ hash \in [Chats -> Tables \cup {NotCompleted}]
    /\ medals \in [Chats -> SUBSET (Players \X (1 .. MedalPlaces))]
    /\ recaps \in [Chats -> Seq(Tables)]
    /\ stage \in [Jobs -> {"off", "next", "open"}]
    /\ left \in [Jobs -> SUBSET Chats]
    /\ open \in [Jobs -> [chat : Chats, table : Tables] \cup {NotCompleted}]
    /\ \A j \in Jobs : stage[j] = "open" => open[j] # NotCompleted
    /\ lock \in [Chats -> Jobs \cup {"none"}]
    /\ discovered \in BOOLEAN

CompletionInit ==
    /\ Init
    /\ hash = [c \in Chats |-> NotCompleted]
    /\ medals = [c \in Chats |-> {}]
    /\ recaps = [c \in Chats |-> <<>>]
    /\ stage = [j \in Jobs |-> "off"]
    /\ left = [j \in Jobs |-> {}]
    /\ open = [j \in Jobs |-> NotCompleted]
    /\ lock = [c \in Chats |-> "none"]
    /\ discovered = FALSE

\* FindMatches: every match of the event has reached a terminal state.
Over == \A m \in Matches : stored[m] # NoScore

-----------------------------------------------------------------------------
(* Who completes the event, and when *)

\* Complete begins: the subscribed chats are read.
BeginCompletion(j) ==
    /\ stage[j] = "off"
    /\ Over
    /\ stage' = [stage EXCEPT ![j] = "next"]
    /\ left' = [left EXCEPT ![j] = Chats]
    /\ UNCHANGED <<record, open, lock>>

\* processMatch, once Settle has returned.
SyncBegins == pc = "complete" /\ BeginCompletion("sync") /\ UNCHANGED <<settlementVars, discovered>>

\* ReconcileEventCompletions, on every run of it.
ReconcileBegins == BeginCompletion("reconcile") /\ UNCHANGED <<settlementVars, discovered>>

\* discoverOneEvent stores the event as FINISHED and, this once, completes it.
DiscoverFinished ==
    /\ ~discovered
    /\ discovered' = TRUE
    /\ IF Over THEN BeginCompletion("discover") ELSE UNCHANGED <<record, jobs>>
    /\ UNCHANGED settlementVars

-----------------------------------------------------------------------------
(* EventCompletionService.completeForChat *)

Done(j, c) == left' = [left EXCEPT ![j] = @ \ {c}]

\* Mutant of Lock: the event is not locked.
Lock_none(j, c) == lock' = [lock EXCEPT ![c] = j]

\* LockEventCompletion: waits for whoever holds it.
Lock(j, c) == lock[c] = "none" /\ lock' = [lock EXCEPT ![c] = j]

\* The lock is taken, and the standings differ from those recorded.
Open(j, c) ==
    /\ stage[j] = "next"
    /\ c \in left[j]
    /\ Lock(j, c)
    /\ hash[c] # Standings(c)
    /\ stage' = [stage EXCEPT ![j] = "open"]
    /\ open' = [open EXCEPT ![j] = [chat |-> c, table |-> Standings(c)]]
    /\ Done(j, c)
    /\ UNCHANGED <<settlementVars, record, discovered>>

\* Nothing changed since the last completion.
Unchanged(j, c) ==
    /\ stage[j] = "next"
    /\ c \in left[j]
    /\ lock[c] = "none"
    /\ hash[c] = Standings(c)
    /\ Done(j, c)
    /\ UNCHANGED <<settlementVars, record, stage, open, lock, discovered>>

\* The transaction ends and the job goes on to the next chat.
Close(j) ==
    /\ stage' = [stage EXCEPT ![j] = "next"]
    /\ open' = [open EXCEPT ![j] = NotCompleted]
    /\ lock' = [lock EXCEPT ![open[j].chat] = "none"]
    /\ UNCHANGED <<settlementButFaults, discovered>>

\* Mutant of AwardMedals: the medals of an earlier completion are not deleted.
AwardMedals_adds(c, st) == medals[c] \cup MedalsFor(st)

\* The chat's medals after this completion.
AwardMedals(c, st) == MedalsFor(st)

\* MarkEventCompleted and the commit, with the medals and the recap: neither
\* for a chat where nobody predicted anything.
Commit(j) ==
    LET c == open[j].chat
        st == open[j].table
    IN  /\ stage[j] = "open"
        /\ c \notin Broken
        /\ hash' = [hash EXCEPT ![c] = st]
        /\ IF Rows(st) = {}
           THEN UNCHANGED <<medals, recaps>>
           ELSE /\ medals' = [medals EXCEPT ![c] = AwardMedals(c, st)]
                /\ recaps' = [recaps EXCEPT ![c] = Append(@, st)]
        /\ Close(j)
        /\ UNCHANGED <<left, faults>>

\* Mutant of AfterFailure: one chat's failure ends the run.
AfterFailure_stops(j) == {}

\* The chats a job goes on with after one has failed.
AfterFailure(j) == left[j]

\* Some statement of a chat's completion fails: it is rolled back and logged.
RollBack(j) ==
    /\ stage[j] = "open"
    /\ left' = [left EXCEPT ![j] = AfterFailure(j)]
    /\ Close(j)
    /\ UNCHANGED record

\* It always does for a broken chat, and may for any other.
BrokenChatFails(j) == RollBack(j) /\ open[j].chat \in Broken /\ UNCHANGED faults

ChatFails(j) == RollBack(j) /\ open[j].chat \notin Broken /\ Fault

\* Complete returns.
Finish(j) ==
    /\ j # "sync"
    /\ stage[j] = "next"
    /\ left[j] = {}
    /\ stage' = [stage EXCEPT ![j] = "off"]
    /\ UNCHANGED <<settlementVars, record, left, open, lock, discovered>>

\* processMatch returns, having completed the event if it is over.
SyncFinishes ==
    /\ EndRun
    /\ Over => stage["sync"] = "next" /\ left["sync"] = {}
    /\ stage' = [stage EXCEPT !["sync"] = "off"]
    /\ UNCHANGED <<record, left, open, lock, discovered>>

\* synchronize-matches is cut short, in a settlement or in a completion.
SyncCutShort ==
    /\ SettleFails
    /\ stage' = [stage EXCEPT !["sync"] = "off"]
    /\ left' = [left EXCEPT !["sync"] = {}]
    /\ open' = [open EXCEPT !["sync"] = NotCompleted]
    /\ lock' = [c \in Chats |-> IF lock[c] = "sync" THEN "none" ELSE lock[c]]
    /\ UNCHANGED <<record, discovered>>

-----------------------------------------------------------------------------

SettlementStep ==
    /\ Provider \/ (\E m \in Matches : ProcessMatch(m)) \/ Settle
    /\ UNCHANGED <<record, jobs, discovered>>

JobStep(j) ==
    \/ \E c \in Chats : Open(j, c) \/ Unchanged(j, c)
    \/ Commit(j)
    \/ BrokenChatFails(j)
    \/ Finish(j)

CompletionNext ==
    \/ SettlementStep
    \/ SyncBegins \/ ReconcileBegins \/ DiscoverFinished
    \/ \E j \in Jobs : JobStep(j) \/ ChatFails(j)
    \/ SyncFinishes \/ SyncCutShort

\* Settlement's fairness; a job that runs goes on, and the sweep is scheduled
\* for ever.
CompletionFairness ==
    /\ WF_completionVars(Settle /\ UNCHANGED <<record, jobs, discovered>>)
    /\ \A m \in Matches : SF_completionVars(ProcessMatch(m) /\ UNCHANGED <<record, jobs, discovered>>)
    /\ WF_completionVars(SyncBegins) /\ WF_completionVars(SyncFinishes) /\ WF_completionVars(ReconcileBegins)
    /\ \A j \in Jobs : WF_completionVars(JobStep(j))

CompletionSpec == CompletionInit /\ [][CompletionNext]_completionVars
FairCompletionSpec == CompletionSpec /\ CompletionFairness

-----------------------------------------------------------------------------
(* Properties *)

\* No chat is sent the same final table twice in a row, whichever jobs race to
\* complete the event (the comment on completeForChat).
NoRecapTwice ==
    \A c \in Chats : \A i \in 1 .. Len(recaps[c]) - 1 : recaps[c][i] # recaps[c][i + 1]

\* The medals on a chat's shelf are those of the last table it was sent, also
\* after a correction took somebody out of the medal places.
MedalsMatchLastRecap ==
    \A c \in Chats :
        medals[c] = IF recaps[c] = <<>> THEN {} ELSE MedalsFor(recaps[c][Len(recaps[c])])

\* Once every match is over and failures end, every chat that can be completed
\* is: its standings on record are the final ones, whatever job was cut short
\* and however long another chat keeps failing (Complete: "must not stop every
\* other subscribed chat's completion").
EveryChatIsCompleted ==
    \A c \in Chats \ Broken :
        <>[]((\A m \in Matches : reported[m] # NoScore) => hash[c] = Standings(c))

-----------------------------------------------------------------------------
(* What the source says, and the code does not do: no run checks it (README, 5). *)

\* "event completion only fires once, not per-match" (Complete): without a
\* corrected result a chat is told of the end of an event once.
CompletedOnce == corrections = 0 => \A c \in Chats : Len(recaps[c]) <= 1
=============================================================================
