---------------------------- MODULE PredictionPolls ----------------------------
(***************************************************************************)
(* The prediction polls of ONE match, one poll per subscribed chat.        *)
(*                                                                         *)
(* Two scheduled jobs write the same match_poll rows, and nothing orders    *)
(* them: each runs under a cluster lock of its own name.                    *)
(*   "sync"    synchronize-matches: stores what the provider reports and     *)
(*             reacts (CompetitionSynchronization.processMatch);             *)
(*   "closer"  close-due-polls (prediction.Service.CloseDue).                *)
(* Both read rows, talk to Telegram, and then save the WHOLE row they read.  *)
(* Telegram itself closes a poll sent with a close_date.                     *)
(*                                                                         *)
(* Left out: the question's wording and topics; Votes has the answers, and   *)
(* Subscribing the chats that join meanwhile, and the fairness.              *)
(***************************************************************************)
EXTENDS Naturals

CONSTANTS Chats,       \* the chats subscribed to the match's event
          StreamChats, \* those that asked for broadcast links
          NoChat,      \* "no chat is being handled"
          NoRow,       \* the (match, chat) pair has no match_poll row
          MaxTime,     \* the clock's bound
          MaxReports,  \* how often the provider may change its report
          MaxFaults,   \* how many calls may fail or jobs be cut short
          MinLead      \* minPollCloseDateLead, in clock units

ASSUME PollConstants ==
    /\ NoChat \notin Chats
    /\ StreamChats \subseteq Chats
    /\ MaxTime \in Nat /\ MaxReports \in Nat /\ MaxFaults \in Nat /\ MinLead \in Nat

Jobs == {"sync", "closer"}
Times == 0 .. MaxTime
NoTime == MaxTime + 1            \* a nil scheduled_at, or a poll sent without close_date

MatchStatus == {"NOT_STARTED", "RUNNING", "FINISHED", "POSTPONED", "CANCELLED", "FORFEIT"}
Match == [status : MatchStatus, at : Times \cup {NoTime}, known : BOOLEAN]

PollStatus == {"OPEN", "CLOSED", "CANCELLED"}
\* sent: the Telegram ids are stored; stream: the broadcast link was marked as given.
Poll == [status : PollStatus, closesAt : Times, sent : BOOLEAN, stream : BOOLEAN]
ASSUME NoRowIsNoPoll == NoRow \notin Poll

\* timer: when Telegram closes the poll by itself (sendPoll's close_date).
TelegramPoll == [state : {"none", "open", "closed"}, timer : Times \cup {NoTime}]

VARIABLES
    now,      \* the clock both jobs and Telegram read
    report,   \* what the provider currently says of the match
    reports,  \* how often it changed its mind (bound)
    match,    \* the stored match
    fresh,    \* the stored match had no known participants before this run
    row,      \* the match_poll row of each chat
    tg,       \* the poll as Telegram holds it
    sends,    \* how many Telegram polls a chat received
    posts,    \* how often a chat received the broadcast link (capped at PostCap)
    pc,       \* where each job stands
    cur,      \* the chat whose poll a job is handling
    todo,     \* the chats whose polls the job's run still has to handle
    snap,     \* the rows as the job read them
    missed,   \* the chats whose poll the last sync run failed on
    faults    \* failures so far (bound)

env == <<now, report, reports>>
db == <<match, fresh, row>>
telegram == <<tg, sends, posts>>
job == <<pc, cur, todo, snap, missed>>
vars == <<now, report, reports, match, fresh, row, tg, sends, posts, pc, cur, todo, snap, missed, faults>>

PostCap == 2
NothingRead == [c \in Chats |-> NoRow]
Unplayed == [status |-> "NOT_STARTED", at |-> NoTime, known |-> FALSE]

TypeOK ==
    /\ now \in Times
    /\ report \in Match
    /\ reports \in 0 .. MaxReports
    /\ match \in Match
    /\ fresh \in BOOLEAN
    /\ row \in [Chats -> Poll \cup {NoRow}]
    /\ tg \in [Chats -> TelegramPoll]
    /\ sends \in [Chats -> Nat]
    /\ posts \in [Chats -> 0 .. PostCap]
    /\ pc \in [Jobs -> {"idle", "react", "polls", "send", "sent", "announce", "save"}]
    /\ cur \in [Jobs -> Chats \cup {NoChat}]
    /\ todo \in [Jobs -> SUBSET Chats]
    /\ snap \in [Jobs -> [Chats -> Poll \cup {NoRow}]]
    /\ missed \subseteq Chats
    /\ faults \in 0 .. MaxFaults

Init ==
    /\ now = 0
    /\ report \in {m \in Match : m.status = "NOT_STARTED"}
    /\ reports = 0
    /\ match = Unplayed
    /\ fresh = FALSE
    /\ row = NothingRead
    /\ tg = [c \in Chats |-> [state |-> "none", timer |-> NoTime]]
    /\ sends = [c \in Chats |-> 0]
    /\ posts = [c \in Chats |-> 0]
    /\ pc = [j \in Jobs |-> "idle"]
    /\ cur = [j \in Jobs |-> NoChat]
    /\ todo = [j \in Jobs |-> {}]
    /\ snap = [j \in Jobs |-> NothingRead]
    /\ missed = {}
    /\ faults = 0

-----------------------------------------------------------------------------
(* The environment: time, the provider and Telegram's own timer. *)

Tick ==
    /\ now < MaxTime
    /\ now' = now + 1
    /\ UNCHANGED <<report, reports, db, telegram, job, faults>>

\* A match is played, called off, or moved; until it starts its opponents and
\* its time may be published, changed or withdrawn.
MayBecome(from, to) ==
    CASE from = "NOT_STARTED" -> TRUE
      [] from = "POSTPONED"   -> to # "FINISHED"
      [] from = "RUNNING"     -> to \in {"FINISHED", "CANCELLED", "FORFEIT"}
      [] OTHER                -> FALSE

ProviderReports(m) ==
    /\ reports < MaxReports
    /\ m # report
    /\ MayBecome(report.status, m.status)
    /\ m.status \in {"RUNNING", "FINISHED", "CANCELLED", "FORFEIT"} =>
          m.at = report.at /\ m.known = report.known
    /\ m.status \in {"RUNNING", "FINISHED"} => m.known
    /\ report' = m
    /\ reports' = reports + 1
    /\ UNCHANGED <<now, db, telegram, job, faults>>

\* A closed poll takes no more answers, and its timer is gone with it.
CloseTelegramPoll(c) == tg' = [tg EXCEPT ![c] = [state |-> "closed", timer |-> NoTime]]

\* Telegram closes a poll on its close_date, whatever this process does.
TelegramCloses(c) ==
    /\ tg[c].state = "open"
    /\ tg[c].timer <= now
    /\ CloseTelegramPoll(c)
    /\ UNCHANGED <<env, db, sends, posts, job, faults>>

-----------------------------------------------------------------------------
(* What both jobs share: handling one poll out of the run's batch. *)

\* Where a job stands with these polls left in its batch.
AtPolls(chats) == IF chats = {} THEN "idle" ELSE "polls"

\* The job goes back to its loop with c's poll done.
Handled(j, c) ==
    /\ pc' = [pc EXCEPT ![j] = AtPolls(todo[j] \ {c})]
    /\ cur' = [cur EXCEPT ![j] = NoChat]
    /\ todo' = [todo EXCEPT ![j] = @ \ {c}]
    /\ snap' = [snap EXCEPT ![j][c] = NoRow]

\* One poll's failure is joined to the run's error; the batch goes on.
Failed(j, c) ==
    /\ Handled(j, c)
    /\ missed' = IF j = "sync" THEN missed \cup {c} ELSE missed

Fault == faults < MaxFaults /\ faults' = faults + 1

SavePoll(c, poll) == row' = [row EXCEPT ![c] = poll]

ShouldCancelPrediction(m) == m.status \in {"CANCELLED", "FORFEIT"}

\* The runs that end polls, and the status they leave behind.
EndsPolls(j) == j = "closer" \/ match.status = "RUNNING" \/ ShouldCancelPrediction(match)
EndStatus(j) == IF j = "sync" /\ ShouldCancelPrediction(match) THEN "CANCELLED" ELSE "CLOSED"

\* Mutant of StopAccepted: "already closed" is taken for a failure.
StopAccepted_onlyOpen(c) == tg[c].state = "open"

\* stopPoll succeeds on a poll Telegram has already closed by itself.
StopAccepted(c) == tg[c].state \in {"open", "closed"}

\* Mutant of StopPoll: the missing message id is not checked for.
StopPoll_unchecked(j, c) ==
    /\ pc[j] = "polls"
    /\ c \in todo[j]
    /\ EndsPolls(j)
    /\ CloseTelegramPoll(c)
    /\ pc' = [pc EXCEPT ![j] = "save"]
    /\ cur' = [cur EXCEPT ![j] = c]
    /\ UNCHANGED <<env, db, sends, posts, todo, snap, missed, faults>>

\* PollGateway.Close / Cancel, up to Telegram's answer. A cancelled poll is
\* not told about the broadcast.
StopPoll(j, c) ==
    /\ pc[j] = "polls"
    /\ c \in todo[j]
    /\ EndsPolls(j)
    /\ snap[j][c].sent
    /\ StopAccepted(c)
    /\ CloseTelegramPoll(c)
    /\ pc' = [pc EXCEPT ![j] = IF EndStatus(j) = "CANCELLED" THEN "save" ELSE "announce"]
    /\ cur' = [cur EXCEPT ![j] = c]
    /\ UNCHANGED <<env, db, sends, posts, todo, snap, missed, faults>>

\* ErrPollMissingTelegramMessage: there is no message to stop.
StopRefused(j, c) ==
    /\ pc[j] = "polls"
    /\ c \in todo[j]
    /\ EndsPolls(j)
    /\ ~(snap[j][c].sent /\ StopAccepted(c))
    /\ Failed(j, c)
    /\ UNCHANGED <<env, db, telegram, faults>>

\* Mutant of StopFails: the error is dropped and the row saved as ended.
StopFails_ignored(j, c) ==
    /\ pc[j] = "polls"
    /\ c \in todo[j]
    /\ EndsPolls(j)
    /\ snap[j][c].sent
    /\ Fault
    /\ pc' = [pc EXCEPT ![j] = "save"]
    /\ cur' = [cur EXCEPT ![j] = c]
    /\ UNCHANGED <<env, db, telegram, todo, snap, missed>>

\* The call fails; Telegram may or may not have carried it out.
StopFails(j, c) ==
    /\ pc[j] = "polls"
    /\ c \in todo[j]
    /\ EndsPolls(j)
    /\ snap[j][c].sent
    /\ Fault
    /\ CloseTelegramPoll(c) \/ UNCHANGED tg
    /\ Failed(j, c)
    /\ UNCHANGED <<env, db, sends, posts>>

\* announceStream: the link goes out unless the row the job read says it did,
\* and the mark is set on the row in the database, which may fail. No listed
\* stream, a chat that did not opt in and a failed post leave all as it was.
Announce(j) ==
    /\ pc[j] = "announce"
    /\ \/ UNCHANGED <<row, posts, faults>>
       \/ /\ cur[j] \in StreamChats
          /\ ~snap[j][cur[j]].stream
          /\ posts' = [posts EXCEPT ![cur[j]] = IF @ < PostCap THEN @ + 1 ELSE @]
          /\ \/ row' = [row EXCEPT ![cur[j]].stream = TRUE] /\ UNCHANGED faults
             \/ Fault /\ UNCHANGED row
    /\ pc' = [pc EXCEPT ![j] = "save"]
    /\ UNCHANGED <<env, match, fresh, tg, sends, cur, todo, snap, missed>>

\* The row a job saves: the poll it read, ended, or its draft with the ids.
Saved(j) ==
    LET poll == snap[j][cur[j]]
    IN  IF pc[j] = "sent" THEN [poll EXCEPT !.sent = TRUE] ELSE [poll EXCEPT !.status = EndStatus(j)]

SaveEnded(j) ==
    /\ pc[j] = "save"
    /\ SavePoll(cur[j], Saved(j))
    /\ Handled(j, cur[j])
    /\ UNCHANGED <<env, match, fresh, telegram, missed, faults>>

\* SavePoll's second statement, or the answer to its first, fails; the loop
\* goes on with the next poll.
SaveFails(j) ==
    /\ pc[j] \in {"save", "sent"}
    /\ Fault
    /\ SavePoll(cur[j], Saved(j)) \/ UNCHANGED row
    /\ Failed(j, cur[j])
    /\ UNCHANGED <<env, match, fresh, telegram>>

\* The run's context expires, a query fails or the process dies: whatever the
\* job held in memory is gone. missed then names everything it had not handled.
RunAborted(j) ==
    /\ pc[j] # "idle"
    /\ Fault
    /\ pc' = [pc EXCEPT ![j] = "idle"]
    /\ cur' = [cur EXCEPT ![j] = NoChat]
    /\ todo' = [todo EXCEPT ![j] = {}]
    /\ snap' = [snap EXCEPT ![j] = NothingRead]
    /\ missed' = CASE j = "closer"     -> missed
                  [] pc[j] = "react" -> Chats
                  [] OTHER            -> missed \cup todo[j]
    /\ fresh' = IF j = "sync" THEN FALSE ELSE fresh
    /\ UNCHANGED <<env, match, row, telegram>>

Read(j, chats) ==
    /\ todo' = [todo EXCEPT ![j] = chats]
    /\ snap' = [snap EXCEPT ![j] = [c \in Chats |-> IF c \in chats THEN row[c] ELSE NoRow]]

-----------------------------------------------------------------------------
(* close-due-polls *)

OpenPollsDue(at) == {c \in Chats : row[c] # NoRow /\ row[c].status = "OPEN" /\ row[c].closesAt <= at}

CloseDue ==
    /\ pc["closer"] = "idle"
    /\ OpenPollsDue(now) # {}
    /\ Read("closer", OpenPollsDue(now))
    /\ pc' = [pc EXCEPT !["closer"] = "polls"]
    /\ UNCHANGED <<env, db, telegram, cur, missed, faults>>

-----------------------------------------------------------------------------
(* synchronize-matches *)

\* Mutant of OpenPollsForMatch: a poll without its message is not looked at.
OpenPollsForMatch_withIds == {c \in Chats : row[c] # NoRow /\ row[c].status = "OPEN" /\ row[c].sent}

OpenPollsForMatch == {c \in Chats : row[c] # NoRow /\ row[c].status = "OPEN"}

\* processMatch up to and including SaveMatch.
SaveMatch ==
    /\ pc["sync"] = "idle"
    /\ match' = report
    /\ fresh' = ~match.known
    /\ pc' = [pc EXCEPT !["sync"] = "react"]
    /\ missed' = {}
    /\ UNCHANGED <<env, row, telegram, cur, todo, snap, faults>>

\* A postponed match moves its polls once the new time is known.
MovesPolls == match.status = "POSTPONED" /\ match.at # NoTime

StillAhead == match.at # NoTime /\ match.at > now

\* A poll is created once: when the opponents of an upcoming match become known.
CreatesPolls ==
    /\ match.status = "NOT_STARTED"
    /\ match.known
    /\ StillAhead
    /\ fresh

ReadOpenPolls ==
    /\ pc["sync"] = "react"
    /\ EndsPolls("sync") \/ MovesPolls
    /\ Read("sync", OpenPollsForMatch)
    /\ pc' = [pc EXCEPT !["sync"] = AtPolls(OpenPollsForMatch)]
    /\ fresh' = FALSE
    /\ UNCHANGED <<env, match, row, telegram, cur, missed, faults>>

FanOutNewPolls ==
    /\ pc["sync"] = "react"
    /\ CreatesPolls
    /\ todo' = [todo EXCEPT !["sync"] = Chats]
    /\ pc' = [pc EXCEPT !["sync"] = AtPolls(Chats)]
    /\ fresh' = FALSE
    /\ UNCHANGED <<env, match, row, telegram, cur, snap, missed, faults>>

NothingToDo ==
    /\ pc["sync"] = "react"
    /\ ~(EndsPolls("sync") \/ MovesPolls \/ CreatesPolls)
    /\ pc' = [pc EXCEPT !["sync"] = "idle"]
    /\ fresh' = FALSE
    /\ UNCHANGED <<env, match, row, telegram, cur, todo, snap, missed, faults>>

Reschedule(c) ==
    /\ pc["sync"] = "polls"
    /\ c \in todo["sync"]
    /\ MovesPolls
    /\ SavePoll(c, [snap["sync"][c] EXCEPT !.closesAt = match.at])
    /\ Handled("sync", c)
    /\ UNCHANGED <<env, match, fresh, telegram, missed, faults>>

\* The fan-out loop reaches chat c.
Creating(c) ==
    /\ pc["sync"] = "polls"
    /\ c \in todo["sync"]
    /\ match.status = "NOT_STARTED"

\* Create is idempotent per (match, chat): an existing poll is left alone.
KeepExisting(c) ==
    /\ Creating(c)
    /\ StillAhead
    /\ row[c] # NoRow
    /\ Handled("sync", c)
    /\ UNCHANGED <<env, db, telegram, missed, faults>>

\* The match may have started while the loop was at another chat.
CreateTooLate(c) ==
    /\ Creating(c)
    /\ ~StillAhead
    /\ Failed("sync", c)
    /\ UNCHANGED <<env, db, telegram, faults>>

\* The chat or its topic could not be looked up.
SkipChat(c) ==
    /\ Creating(c)
    /\ Fault
    /\ Failed("sync", c)
    /\ UNCHANGED <<env, db, telegram>>

Draft == [status |-> "OPEN", closesAt |-> match.at, sent |-> FALSE, stream |-> FALSE]

\* Mutant of CreateDraft: an existing poll is not looked for.
CreateDraft_unconditional(c) ==
    /\ Creating(c)
    /\ StillAhead
    /\ SavePoll(c, Draft)
    /\ snap' = [snap EXCEPT !["sync"][c] = Draft]
    /\ cur' = [cur EXCEPT !["sync"] = c]
    /\ pc' = [pc EXCEPT !["sync"] = "send"]
    /\ UNCHANGED <<env, match, fresh, telegram, todo, missed, faults>>

CreateDraft(c) ==
    /\ Creating(c)
    /\ StillAhead
    /\ row[c] = NoRow
    /\ SavePoll(c, Draft)
    /\ snap' = [snap EXCEPT !["sync"][c] = Draft]
    /\ cur' = [cur EXCEPT !["sync"] = c]
    /\ pc' = [pc EXCEPT !["sync"] = "send"]
    /\ UNCHANGED <<env, match, fresh, telegram, todo, missed, faults>>

\* sendPoll carries a close_date when there is enough time left before it.
PostPoll(c, closesAt) ==
    /\ tg' = [tg EXCEPT ![c] = [state |-> "open",
                                timer |-> IF closesAt >= now + MinLead THEN closesAt ELSE NoTime]]
    /\ sends' = [sends EXCEPT ![c] = @ + 1]

SendPoll ==
    /\ pc["sync"] = "send"
    /\ PostPoll(cur["sync"], snap["sync"][cur["sync"]].closesAt)
    /\ pc' = [pc EXCEPT !["sync"] = "sent"]
    /\ UNCHANGED <<env, db, posts, cur, todo, snap, missed, faults>>

\* The send fails, or it succeeds and the answer is lost; neither is retried.
SendFails ==
    /\ pc["sync"] = "send"
    /\ Fault
    /\ \/ PostPoll(cur["sync"], snap["sync"][cur["sync"]].closesAt)
       \/ UNCHANGED <<tg, sends>>
    /\ Failed("sync", cur["sync"])
    /\ UNCHANGED <<env, db, posts>>

SaveSent ==
    /\ pc["sync"] = "sent"
    /\ SavePoll(cur["sync"], Saved("sync"))
    /\ Handled("sync", cur["sync"])
    /\ UNCHANGED <<env, match, fresh, telegram, missed, faults>>

-----------------------------------------------------------------------------

EndPolls(j) ==
    \/ \E c \in Chats : StopPoll(j, c) \/ StopRefused(j, c)
    \/ Announce(j) \/ SaveEnded(j)

Closer == CloseDue \/ EndPolls("closer")

CreatePolls ==
    \/ \E c \in Chats : KeepExisting(c) \/ CreateTooLate(c) \/ CreateDraft(c)
    \/ SendPoll \/ SaveSent

Sync ==
    \/ SaveMatch \/ ReadOpenPolls \/ FanOutNewPolls \/ NothingToDo
    \/ EndPolls("sync") \/ CreatePolls
    \/ \E c \in Chats : Reschedule(c)

Failures ==
    \/ \E j \in Jobs : SaveFails(j) \/ RunAborted(j) \/ \E c \in Chats : StopFails(j, c)
    \/ \E c \in Chats : SkipChat(c)
    \/ SendFails

Environment ==
    \/ Tick
    \/ \E m \in Match : ProviderReports(m)
    \/ \E c \in Chats : TelegramCloses(c)

Next == Sync \/ Closer \/ Failures \/ Environment

Spec == Init /\ [][Next]_vars

-----------------------------------------------------------------------------
(* Properties *)

\* A row that says the poll is over is never ahead of Telegram: whoever wrote
\* it had stopped the Telegram poll first, even when both jobs end the poll and
\* overwrite each other ("only marks the poll CLOSED in the repository if the
\* gateway call succeeded", prediction/service.go).
EndedRowMeansEndedPoll ==
    \A c \in Chats : row[c] # NoRow /\ row[c].status # "OPEN" => tg[c].state = "closed"

\* A chat gets at most one Telegram poll for the match, however often the
\* opponents are published and withdrawn and whatever fails in between
\* (Create is idempotent per match and chat, prediction/service.go).
OnePollPerChat == \A c \in Chats : sends[c] <= 1

-----------------------------------------------------------------------------
(* What the repository's documents say, and the code does not do: no run checks it (README, 5). *)

\* "void outright on cancellation/forfeit" (README.md): a voided poll stays so.
VoidStaysVoid ==
    [][\A c \in Chats : row[c] # NoRow /\ row[c].status = "CANCELLED" => row'[c].status = "CANCELLED"]_vars

\* "unless the chat has already been given that exact link" (announceStream,
\* telegram/poll_gateway.go).
StreamGivenOnce == \A c \in Chats : posts[c] <= 1
=============================================================================
