-------------------------- MODULE PredictionPollsProofs --------------------------
(***************************************************************************)
(* Machine-checked proofs about PredictionPolls, for any set of chats and   *)
(* any bounds: type correctness, "a row that says the poll is over is never *)
(* ahead of Telegram" and "one Telegram poll per chat"; and about Subscribing, *)
(* where the handler of a subscription is a third writer: both still hold, no   *)
(* chat is passed over, a live match leaves no open poll but those the run      *)
(* reports and the one it overtook, and what can take a row's ids away.        *)
(***************************************************************************)
EXTENDS Subscribing, TLAPS

\* Snapshots are of open polls: both jobs read WHERE status = 'OPEN', and a
\* draft is created open.
SnapshotsAreOpen ==
    \A j \in Jobs, c \in Chats : snap[j][c] # NoRow => snap[j][c].status = "OPEN"

\* Nothing was sent to a chat that has no row, and whoever read a row with
\* Telegram ids read it after the poll was sent.
SentMeansSent ==
    \A c \in Chats :
        /\ row[c] = NoRow => tg[c].state = "none"
        /\ row[c] # NoRow /\ row[c].sent => tg[c].state # "none"
        /\ \A j \in Jobs : snap[j][c] # NoRow /\ snap[j][c].sent => tg[c].state # "none"

\* Where a job stands says what Telegram already knows of the poll in hand.
StageMatchesTelegram ==
    /\ pc["sync"] = "send" => tg[cur["sync"]].state = "none"
    /\ \A j \in Jobs : pc[j] = "sent" => tg[cur[j]].state # "none"
    /\ \A j \in Jobs : pc[j] \in {"announce", "save"} => tg[cur[j]].state = "closed"

\* A job that is past its loop's head has a poll in hand, its row and its snapshot.
InHand ==
    \A j \in Jobs : pc[j] \in {"send", "sent", "announce", "save"} =>
        cur[j] \in Chats /\ row[cur[j]] # NoRow /\ snap[j][cur[j]] # NoRow

\* What is left in a batch that moves or ends polls has been read, and a job
\* between runs has nothing left.
BatchIsRead ==
    \A j \in Jobs :
        /\ pc[j] \in {"idle", "react"} => todo[j] = {}
        /\ EndsPolls(j) \/ MovesPolls => \A c \in todo[j] : snap[j][c] # NoRow

\* A Telegram poll is counted when it is posted, and is posted once.
SendsCounted == \A c \in Chats : sends[c] = IF tg[c].state = "none" THEN 0 ELSE 1
IInv ==
    /\ TypeOK
    /\ SnapshotsAreOpen
    /\ SentMeansSent
    /\ StageMatchesTelegram
    /\ InHand
    /\ BatchIsRead
    /\ SendsCounted
    /\ EndedRowMeansEndedPoll

LEMMA InitIInv == Init => IInv
  <1> SUFFICES ASSUME Init PROVE IInv
    OBVIOUS
  <1> USE PollConstants, NoRowIsNoPoll DEF Init, NothingRead, Unplayed, Jobs
  <1>1. now \in Times /\ report \in Match /\ match \in Match /\ reports \in 0 .. MaxReports /\ faults \in 0 .. MaxFaults
    BY DEF Match, MatchStatus, Times, NoTime
  <1>2. tg \in [Chats -> TelegramPoll] /\ posts \in [Chats -> 0 .. PostCap]
    BY DEF TelegramPoll, Times, NoTime, PostCap
  <1>3. TypeOK
    BY <1>1, <1>2 DEF TypeOK
  <1>4. SnapshotsAreOpen /\ SentMeansSent /\ StageMatchesTelegram /\ InHand /\ BatchIsRead
    BY DEF SnapshotsAreOpen, SentMeansSent, StageMatchesTelegram, InHand, BatchIsRead
  <1>5. SendsCounted /\ EndedRowMeansEndedPoll
    BY DEF SendsCounted, EndedRowMeansEndedPoll
  <1> QED BY <1>3, <1>4, <1>5 DEF IInv

\* What a job saves agrees with what Telegram knows of the poll.
LEMMA SavedPoll ==
  ASSUME IInv, NEW j \in Jobs, pc[j] \in {"save", "sent"}
  PROVE  /\ cur[j] \in Chats
         /\ Saved(j) \in Poll
         /\ tg[cur[j]].state # "none"
         /\ Saved(j).status # "OPEN" => tg[cur[j]].state = "closed"
  <1> DEFINE poll == snap[j][cur[j]]
  <1>1. cur[j] \in Chats /\ poll \in Poll /\ poll.status = "OPEN"
    BY DEF IInv, TypeOK, InHand, SnapshotsAreOpen
  <1>2. CASE pc[j] = "sent"
    <2>1. Saved(j) = [poll EXCEPT !.sent = TRUE]
      BY <1>2 DEF Saved
    <2> HIDE DEF poll
    <2>2. Saved(j) \in Poll /\ Saved(j).status = "OPEN"
      BY <1>1, <2>1 DEF Poll
    <2> QED BY <1>1, <1>2, <2>2 DEF IInv, StageMatchesTelegram
  <1>3. CASE pc[j] = "save"
    <2>1. Saved(j) = [poll EXCEPT !.status = EndStatus(j)]
      BY <1>3 DEF Saved
    <2> HIDE DEF poll
    <2>2. Saved(j) \in Poll
      BY <1>1, <2>1 DEF Poll, PollStatus, EndStatus
    <2>3. tg[cur[j]].state = "closed"
      BY <1>3 DEF IInv, StageMatchesTelegram
    <2> QED BY <1>1, <2>2, <2>3
  <1> QED BY <1>2, <1>3

\* Every step of either job and of the environment preserves the invariant.
LEMMA NextIInv == IInv /\ [Next]_vars => IInv'
  <1> SUFFICES ASSUME IInv, [Next]_vars PROVE IInv'
    OBVIOUS
  <1>0. TypeOK /\ SnapshotsAreOpen /\ SentMeansSent /\ StageMatchesTelegram /\ InHand /\ BatchIsRead
        /\ SendsCounted /\ EndedRowMeansEndedPoll
    BY DEF IInv
  <1> USE PollConstants, NoRowIsNoPoll, <1>0
  <1> USE DEF Jobs, env, db, telegram, job, CloseTelegramPoll, Handled, Failed, AtPolls, Fault, SavePoll, NothingRead
  <1>1. CASE UNCHANGED vars
    <2> USE <1>1 DEF vars
    <2>1. TypeOK'
      BY DEF TypeOK, Poll, PollStatus, TelegramPoll, Times, NoTime
    <2>2. SnapshotsAreOpen'
      BY DEF TypeOK, SnapshotsAreOpen
    <2>3. SentMeansSent'
      BY DEF TypeOK, SentMeansSent, StageMatchesTelegram, InHand
    <2>4. StageMatchesTelegram'
      BY DEF TypeOK, StageMatchesTelegram, SentMeansSent, InHand
    <2>5. InHand'
      BY DEF TypeOK, InHand
    <2>6. BatchIsRead'
      BY DEF TypeOK, BatchIsRead, EndsPolls, MovesPolls, ShouldCancelPrediction
    <2>7. SendsCounted'
      BY DEF TypeOK, SendsCounted, StageMatchesTelegram, SentMeansSent, InHand
    <2>8. EndedRowMeansEndedPoll'
      BY DEF TypeOK, EndedRowMeansEndedPoll, StageMatchesTelegram, SentMeansSent, InHand
    <2> QED BY <2>1, <2>2, <2>3, <2>4, <2>5, <2>6, <2>7, <2>8 DEF IInv
  <1>2. CASE Tick
    <2> USE <1>2 DEF Tick
    <2>1. TypeOK'
      BY DEF TypeOK, Poll, PollStatus, TelegramPoll, Times, NoTime
    <2>2. SnapshotsAreOpen'
      BY DEF TypeOK, SnapshotsAreOpen
    <2>3. SentMeansSent'
      BY DEF TypeOK, SentMeansSent, StageMatchesTelegram, InHand
    <2>4. StageMatchesTelegram'
      BY DEF TypeOK, StageMatchesTelegram, SentMeansSent, InHand
    <2>5. InHand'
      BY DEF TypeOK, InHand
    <2>6. BatchIsRead'
      BY DEF TypeOK, BatchIsRead, EndsPolls, MovesPolls, ShouldCancelPrediction
    <2>7. SendsCounted'
      BY DEF TypeOK, SendsCounted, StageMatchesTelegram, SentMeansSent, InHand
    <2>8. EndedRowMeansEndedPoll'
      BY DEF TypeOK, EndedRowMeansEndedPoll, StageMatchesTelegram, SentMeansSent, InHand
    <2> QED BY <2>1, <2>2, <2>3, <2>4, <2>5, <2>6, <2>7, <2>8 DEF IInv
  <1>3. ASSUME NEW m \in Match, ProviderReports(m) PROVE IInv'
    <2> USE <1>3 DEF ProviderReports
    <2>1. TypeOK'
      BY DEF TypeOK, Poll, PollStatus, TelegramPoll, Times, NoTime
    <2>2. SnapshotsAreOpen'
      BY DEF TypeOK, SnapshotsAreOpen
    <2>3. SentMeansSent'
      BY DEF TypeOK, SentMeansSent, StageMatchesTelegram, InHand
    <2>4. StageMatchesTelegram'
      BY DEF TypeOK, StageMatchesTelegram, SentMeansSent, InHand
    <2>5. InHand'
      BY DEF TypeOK, InHand
    <2>6. BatchIsRead'
      BY DEF TypeOK, BatchIsRead, EndsPolls, MovesPolls, ShouldCancelPrediction
    <2>7. SendsCounted'
      BY DEF TypeOK, SendsCounted, StageMatchesTelegram, SentMeansSent, InHand
    <2>8. EndedRowMeansEndedPoll'
      BY DEF TypeOK, EndedRowMeansEndedPoll, StageMatchesTelegram, SentMeansSent, InHand
    <2> QED BY <2>1, <2>2, <2>3, <2>4, <2>5, <2>6, <2>7, <2>8 DEF IInv
  <1>4. ASSUME NEW c \in Chats, TelegramCloses(c) PROVE IInv'
    <2> USE <1>4 DEF TelegramCloses
    <2>1. TypeOK'
      BY DEF TypeOK, Poll, PollStatus, TelegramPoll, Times, NoTime
    <2>2. SnapshotsAreOpen'
      BY DEF TypeOK, SnapshotsAreOpen
    <2>3. SentMeansSent'
      BY DEF TypeOK, SentMeansSent, StageMatchesTelegram, InHand
    <2>4. StageMatchesTelegram'
      BY DEF TypeOK, StageMatchesTelegram, SentMeansSent, InHand
    <2>5. InHand'
      BY DEF TypeOK, InHand
    <2>6. BatchIsRead'
      BY DEF TypeOK, BatchIsRead, EndsPolls, MovesPolls, ShouldCancelPrediction
    <2>7. SendsCounted'
      BY DEF TypeOK, SendsCounted, StageMatchesTelegram, SentMeansSent, InHand
    <2>8. EndedRowMeansEndedPoll'
      BY DEF TypeOK, EndedRowMeansEndedPoll, StageMatchesTelegram, SentMeansSent, InHand
    <2> QED BY <2>1, <2>2, <2>3, <2>4, <2>5, <2>6, <2>7, <2>8 DEF IInv
  <1>5. ASSUME NEW j \in Jobs, NEW c \in Chats, StopPoll(j, c) PROVE IInv'
    <2> USE <1>5 DEF StopPoll, StopAccepted
    <2>a. snap[j][c] \in Poll /\ tg[c].state # "none" /\ row[c] # NoRow
      BY DEF TypeOK, BatchIsRead, SentMeansSent, EndsPolls, Poll
    <2>1. TypeOK'
      BY <2>a DEF TypeOK, Poll, PollStatus, TelegramPoll, Times, NoTime, EndStatus
    <2>2. SnapshotsAreOpen'
      BY DEF TypeOK, SnapshotsAreOpen
    <2>3. SentMeansSent'
      BY <2>a DEF TypeOK, SentMeansSent, StageMatchesTelegram, InHand
    <2>4. StageMatchesTelegram'
      BY <2>a DEF TypeOK, StageMatchesTelegram, SentMeansSent, InHand, EndStatus
    <2>5. InHand'
      BY <2>a DEF TypeOK, InHand, EndStatus
    <2>6. BatchIsRead'
      BY DEF TypeOK, BatchIsRead, EndsPolls, MovesPolls, ShouldCancelPrediction, EndStatus
    <2>7. SendsCounted'
      BY <2>a DEF TypeOK, SendsCounted, StageMatchesTelegram, SentMeansSent, InHand
    <2>8. EndedRowMeansEndedPoll'
      BY <2>a DEF TypeOK, EndedRowMeansEndedPoll, StageMatchesTelegram, SentMeansSent, InHand
    <2> QED BY <2>1, <2>2, <2>3, <2>4, <2>5, <2>6, <2>7, <2>8 DEF IInv
  <1>6. ASSUME NEW j \in Jobs, NEW c \in Chats, StopRefused(j, c) PROVE IInv'
    <2> USE <1>6 DEF StopRefused
    <2>1. TypeOK'
      BY DEF TypeOK, Poll, PollStatus, TelegramPoll, Times, NoTime
    <2>2. SnapshotsAreOpen'
      BY DEF TypeOK, SnapshotsAreOpen
    <2>3. SentMeansSent'
      BY DEF TypeOK, SentMeansSent, StageMatchesTelegram, InHand
    <2>4. StageMatchesTelegram'
      BY DEF TypeOK, StageMatchesTelegram, SentMeansSent, InHand
    <2>5. InHand'
      BY DEF TypeOK, InHand
    <2>6. BatchIsRead'
      BY DEF TypeOK, BatchIsRead, EndsPolls, MovesPolls, ShouldCancelPrediction
    <2>7. SendsCounted'
      BY DEF TypeOK, SendsCounted, StageMatchesTelegram, SentMeansSent, InHand
    <2>8. EndedRowMeansEndedPoll'
      BY DEF TypeOK, EndedRowMeansEndedPoll, StageMatchesTelegram, SentMeansSent, InHand
    <2> QED BY <2>1, <2>2, <2>3, <2>4, <2>5, <2>6, <2>7, <2>8 DEF IInv
  <1>7. ASSUME NEW j \in Jobs, NEW c \in Chats, StopFails(j, c) PROVE IInv'
    <2> USE <1>7 DEF StopFails
    <2>a. snap[j][c] \in Poll /\ tg[c].state # "none"
      BY DEF TypeOK, BatchIsRead, SentMeansSent, EndsPolls, Poll
    <2>b. tg' \in [Chats -> TelegramPoll]
      <3>1. [state |-> "closed", timer |-> NoTime] \in TelegramPoll
        BY DEF TelegramPoll
      <3>2. CASE CloseTelegramPoll(c)
        BY <3>1, <3>2 DEF TypeOK
      <3>3. CASE UNCHANGED tg
        BY <3>3 DEF TypeOK
      <3> QED BY <3>2, <3>3
    <2>c. \A d \in Chats : tg'[d].state = tg[d].state \/ (d = c /\ tg'[d].state = "closed")
      BY DEF TypeOK
    <2>1. TypeOK'
      BY <2>b DEF TypeOK, Poll, PollStatus, TelegramPoll, Times, NoTime
    <2>2. SnapshotsAreOpen'
      BY DEF TypeOK, SnapshotsAreOpen
    <2>3. SentMeansSent'
      BY <2>a, <2>c DEF TypeOK, SentMeansSent, StageMatchesTelegram, InHand
    <2>4. StageMatchesTelegram'
      <3>1. \A k \in Jobs : pc'[k] \in {"idle", "polls"} \/ (pc'[k] = pc[k] /\ cur'[k] = cur[k])
        BY DEF TypeOK, Failed, Handled, AtPolls
      <3>2. \A k \in Jobs : pc[k] \in {"send", "sent", "announce", "save"} => cur[k] \in Chats
        BY DEF InHand
      <3> QED BY <2>a, <2>c, <3>1, <3>2 DEF StageMatchesTelegram, Jobs
    <2>5. InHand'
      BY DEF TypeOK, InHand
    <2>6. BatchIsRead'
      BY DEF TypeOK, BatchIsRead, EndsPolls, MovesPolls, ShouldCancelPrediction
    <2>7. SendsCounted'
      BY <2>a, <2>c DEF TypeOK, SendsCounted, StageMatchesTelegram, SentMeansSent, InHand
    <2>8. EndedRowMeansEndedPoll'
      BY <2>c DEF TypeOK, EndedRowMeansEndedPoll, StageMatchesTelegram, SentMeansSent, InHand
    <2> QED BY <2>1, <2>2, <2>3, <2>4, <2>5, <2>6, <2>7, <2>8 DEF IInv
  <1>8. ASSUME NEW j \in Jobs, Announce(j) PROVE IInv'
    <2> USE <1>8 DEF Announce
    <2>a. cur[j] \in Chats /\ row[cur[j]] \in Poll
      BY DEF TypeOK, InHand, StageMatchesTelegram, SentMeansSent
    <2>b. ASSUME NEW d \in Chats
          PROVE \/ row'[d] = row[d]
                \/ /\ d = cur[j] /\ row[d] \in Poll /\ row'[d] \in Poll
                   /\ row'[d].sent = row[d].sent /\ row'[d].status = row[d].status
      <3>1. [row[cur[j]] EXCEPT !.stream = TRUE] \in Poll
        BY <2>a DEF Poll
      <3>2. CASE row' = [row EXCEPT ![cur[j]].stream = TRUE]
        BY <3>1, <3>2, <2>a DEF TypeOK, Poll
      <3>3. CASE UNCHANGED row
        BY <3>3
      <3> QED BY <3>2, <3>3
    <2>c. row' \in [Chats -> Poll \cup {NoRow}]
      BY <2>b DEF TypeOK
    <2>d. posts' \in [Chats -> 0 .. PostCap]
      <3>1. CASE UNCHANGED posts
        BY <3>1 DEF TypeOK
      <3>2. CASE posts' = [posts EXCEPT ![cur[j]] = IF @ < PostCap THEN @ + 1 ELSE @]
        BY <2>a, <3>2 DEF TypeOK, PostCap
      <3> QED BY <3>1, <3>2
    <2>e. faults' \in 0 .. MaxFaults
      BY DEF TypeOK
    <2>1. TypeOK'
      BY <2>c, <2>d, <2>e DEF TypeOK, Poll, PollStatus, TelegramPoll, Times, NoTime
    <2>2. SnapshotsAreOpen'
      BY DEF TypeOK, SnapshotsAreOpen
    <2>3. SentMeansSent'
      BY <2>b DEF TypeOK, SentMeansSent, StageMatchesTelegram, InHand
    <2>4. StageMatchesTelegram'
      BY DEF TypeOK, StageMatchesTelegram, SentMeansSent, InHand
    <2>5. InHand'
      <3>1. \A d \in Chats : row[d] # NoRow => row'[d] # NoRow
        BY <2>b
      <3> QED BY <3>1 DEF TypeOK, InHand
    <2>6. BatchIsRead'
      BY DEF TypeOK, BatchIsRead, EndsPolls, MovesPolls, ShouldCancelPrediction
    <2>7. SendsCounted'
      BY DEF TypeOK, SendsCounted, StageMatchesTelegram, SentMeansSent, InHand
    <2>8. EndedRowMeansEndedPoll'
      BY <2>b DEF TypeOK, EndedRowMeansEndedPoll, StageMatchesTelegram, SentMeansSent, InHand
    <2> QED BY <2>1, <2>2, <2>3, <2>4, <2>5, <2>6, <2>7, <2>8 DEF IInv
  <1>9. ASSUME NEW j \in Jobs, SaveEnded(j) PROVE IInv'
    <2> USE <1>9 DEF SaveEnded
    <2>a. cur[j] \in Chats /\ Saved(j) \in Poll /\ tg[cur[j]].state # "none"
          /\ (Saved(j).status # "OPEN" => tg[cur[j]].state = "closed")
      BY SavedPoll
    <2>b. row' = [row EXCEPT ![cur[j]] = Saved(j)]
      OBVIOUS
    <2>c. row' \in [Chats -> Poll \cup {NoRow}]
      BY <2>a, <2>b DEF TypeOK
    <2>d. \A d \in Chats : row'[d] = row[d] \/ (d = cur[j] /\ row'[d] = Saved(j))
      BY <2>a, <2>b DEF TypeOK
    <2>e. \A d \in Chats : row[d] # NoRow => row'[d] # NoRow
      BY <2>a, <2>d
    <2>1. TypeOK'
      BY <2>a, <2>c DEF TypeOK
    <2>2. SnapshotsAreOpen'
      BY DEF TypeOK, SnapshotsAreOpen
    <2>3. SentMeansSent'
      <3>1. \A k \in Jobs, d \in Chats : snap'[k][d] = snap[k][d] \/ snap'[k][d] = NoRow
        BY DEF TypeOK
      <3> QED BY <2>a, <2>d, <3>1 DEF SentMeansSent
    <2>4. StageMatchesTelegram'
      BY DEF TypeOK, StageMatchesTelegram
    <2>5. InHand'
      BY <2>e DEF TypeOK, InHand
    <2>6. BatchIsRead'
      BY DEF TypeOK, BatchIsRead, EndsPolls, MovesPolls, ShouldCancelPrediction
    <2>7. SendsCounted'
      BY DEF SendsCounted
    <2>8. EndedRowMeansEndedPoll'
      BY <2>a, <2>d DEF EndedRowMeansEndedPoll
    <2> QED BY <2>1, <2>2, <2>3, <2>4, <2>5, <2>6, <2>7, <2>8 DEF IInv
  <1>10. ASSUME NEW j \in Jobs, RunAborted(j) PROVE IInv'
    <2> USE <1>10 DEF RunAborted
    <2>a. missed' \subseteq Chats /\ fresh' \in BOOLEAN
      BY DEF TypeOK
    <2>b. faults' \in 0 .. MaxFaults
      BY DEF TypeOK
    <2>c. /\ pc' \in [Jobs -> {"idle", "react", "polls", "send", "sent", "announce", "save"}]
          /\ cur' \in [Jobs -> Chats \cup {NoChat}]
          /\ todo' \in [Jobs -> SUBSET Chats]
      BY DEF TypeOK
    <2>d. snap' \in [Jobs -> [Chats -> Poll \cup {NoRow}]]
      <3>1. NothingRead \in [Chats -> Poll \cup {NoRow}]
        OBVIOUS
      <3> QED BY <3>1 DEF TypeOK
    <2>1. TypeOK'
      BY <2>a, <2>b, <2>c, <2>d DEF TypeOK
    <2>2. SnapshotsAreOpen'
      BY DEF TypeOK, SnapshotsAreOpen
    <2>3. SentMeansSent'
      BY DEF TypeOK, SentMeansSent, StageMatchesTelegram, InHand
    <2>4. StageMatchesTelegram'
      BY DEF TypeOK, StageMatchesTelegram, SentMeansSent, InHand
    <2>5. InHand'
      BY DEF TypeOK, InHand
    <2>6. BatchIsRead'
      BY DEF TypeOK, BatchIsRead, EndsPolls, MovesPolls, ShouldCancelPrediction
    <2>7. SendsCounted'
      BY DEF TypeOK, SendsCounted, StageMatchesTelegram, SentMeansSent, InHand
    <2>8. EndedRowMeansEndedPoll'
      BY DEF TypeOK, EndedRowMeansEndedPoll, StageMatchesTelegram, SentMeansSent, InHand
    <2> QED BY <2>1, <2>2, <2>3, <2>4, <2>5, <2>6, <2>7, <2>8 DEF IInv
  <1>11. CASE CloseDue
    <2> USE <1>11 DEF CloseDue, OpenPollsDue, Read
    <2>1. TypeOK'
      BY DEF TypeOK, Poll, PollStatus, TelegramPoll, Times, NoTime
    <2>2. SnapshotsAreOpen'
      BY DEF TypeOK, SnapshotsAreOpen
    <2>3. SentMeansSent'
      BY DEF TypeOK, SentMeansSent, StageMatchesTelegram, InHand
    <2>4. StageMatchesTelegram'
      BY DEF TypeOK, StageMatchesTelegram, SentMeansSent, InHand
    <2>5. InHand'
      BY DEF TypeOK, InHand
    <2>6. BatchIsRead'
      BY DEF TypeOK, BatchIsRead, EndsPolls, MovesPolls, ShouldCancelPrediction
    <2>7. SendsCounted'
      BY DEF TypeOK, SendsCounted, StageMatchesTelegram, SentMeansSent, InHand
    <2>8. EndedRowMeansEndedPoll'
      BY DEF TypeOK, EndedRowMeansEndedPoll, StageMatchesTelegram, SentMeansSent, InHand
    <2> QED BY <2>1, <2>2, <2>3, <2>4, <2>5, <2>6, <2>7, <2>8 DEF IInv
  <1>12. CASE SaveMatch
    <2> USE <1>12 DEF SaveMatch
    <2>1. TypeOK'
      BY DEF TypeOK, Poll, PollStatus, TelegramPoll, Times, NoTime
    <2>2. SnapshotsAreOpen'
      BY DEF TypeOK, SnapshotsAreOpen
    <2>3. SentMeansSent'
      BY DEF TypeOK, SentMeansSent, StageMatchesTelegram, InHand
    <2>4. StageMatchesTelegram'
      BY DEF TypeOK, StageMatchesTelegram, SentMeansSent, InHand
    <2>5. InHand'
      BY DEF TypeOK, InHand
    <2>6. BatchIsRead'
      BY DEF TypeOK, BatchIsRead, EndsPolls, MovesPolls, ShouldCancelPrediction
    <2>7. SendsCounted'
      BY DEF TypeOK, SendsCounted, StageMatchesTelegram, SentMeansSent, InHand
    <2>8. EndedRowMeansEndedPoll'
      BY DEF TypeOK, EndedRowMeansEndedPoll, StageMatchesTelegram, SentMeansSent, InHand
    <2> QED BY <2>1, <2>2, <2>3, <2>4, <2>5, <2>6, <2>7, <2>8 DEF IInv
  <1>13. CASE ReadOpenPolls
    <2> USE <1>13 DEF ReadOpenPolls, OpenPollsForMatch, Read
    <2>1. TypeOK'
      BY DEF TypeOK, Poll, PollStatus, TelegramPoll, Times, NoTime
    <2>2. SnapshotsAreOpen'
      BY DEF TypeOK, SnapshotsAreOpen
    <2>3. SentMeansSent'
      BY DEF TypeOK, SentMeansSent, StageMatchesTelegram, InHand
    <2>4. StageMatchesTelegram'
      BY DEF TypeOK, StageMatchesTelegram, SentMeansSent, InHand
    <2>5. InHand'
      BY DEF TypeOK, InHand
    <2>6. BatchIsRead'
      BY DEF TypeOK, BatchIsRead, EndsPolls, MovesPolls, ShouldCancelPrediction
    <2>7. SendsCounted'
      BY DEF TypeOK, SendsCounted, StageMatchesTelegram, SentMeansSent, InHand
    <2>8. EndedRowMeansEndedPoll'
      BY DEF TypeOK, EndedRowMeansEndedPoll, StageMatchesTelegram, SentMeansSent, InHand
    <2> QED BY <2>1, <2>2, <2>3, <2>4, <2>5, <2>6, <2>7, <2>8 DEF IInv
  <1>14. CASE FanOutNewPolls
    <2> USE <1>14 DEF FanOutNewPolls
    <2>1. TypeOK'
      BY DEF TypeOK, Poll, PollStatus, TelegramPoll, Times, NoTime
    <2>2. SnapshotsAreOpen'
      BY DEF TypeOK, SnapshotsAreOpen
    <2>3. SentMeansSent'
      BY DEF TypeOK, SentMeansSent, StageMatchesTelegram, InHand
    <2>4. StageMatchesTelegram'
      BY DEF TypeOK, StageMatchesTelegram, SentMeansSent, InHand
    <2>5. InHand'
      BY DEF TypeOK, InHand
    <2>6. BatchIsRead'
      BY DEF TypeOK, BatchIsRead, EndsPolls, MovesPolls, ShouldCancelPrediction, CreatesPolls
    <2>7. SendsCounted'
      BY DEF TypeOK, SendsCounted, StageMatchesTelegram, SentMeansSent, InHand
    <2>8. EndedRowMeansEndedPoll'
      BY DEF TypeOK, EndedRowMeansEndedPoll, StageMatchesTelegram, SentMeansSent, InHand
    <2> QED BY <2>1, <2>2, <2>3, <2>4, <2>5, <2>6, <2>7, <2>8 DEF IInv
  <1>15. CASE NothingToDo
    <2> USE <1>15 DEF NothingToDo
    <2>1. TypeOK'
      BY DEF TypeOK, Poll, PollStatus, TelegramPoll, Times, NoTime
    <2>2. SnapshotsAreOpen'
      BY DEF TypeOK, SnapshotsAreOpen
    <2>3. SentMeansSent'
      BY DEF TypeOK, SentMeansSent, StageMatchesTelegram, InHand
    <2>4. StageMatchesTelegram'
      BY DEF TypeOK, StageMatchesTelegram, SentMeansSent, InHand
    <2>5. InHand'
      BY DEF TypeOK, InHand
    <2>6. BatchIsRead'
      BY DEF TypeOK, BatchIsRead, EndsPolls, MovesPolls, ShouldCancelPrediction
    <2>7. SendsCounted'
      BY DEF TypeOK, SendsCounted, StageMatchesTelegram, SentMeansSent, InHand
    <2>8. EndedRowMeansEndedPoll'
      BY DEF TypeOK, EndedRowMeansEndedPoll, StageMatchesTelegram, SentMeansSent, InHand
    <2> QED BY <2>1, <2>2, <2>3, <2>4, <2>5, <2>6, <2>7, <2>8 DEF IInv
  <1>16. ASSUME NEW c \in Chats, Reschedule(c) PROVE IInv'
    <2> USE <1>16 DEF Reschedule
    <2> DEFINE moved == [snap["sync"][c] EXCEPT !.closesAt = match.at]
    <2>a. snap["sync"][c] \in Poll /\ snap["sync"][c].status = "OPEN"
      BY DEF TypeOK, BatchIsRead, SnapshotsAreOpen
    <2>b. moved \in Poll /\ moved.sent = snap["sync"][c].sent /\ moved.status = "OPEN"
      BY <2>a DEF Poll, Times, NoTime, TypeOK, Match, MovesPolls
    <2>c. row' = [row EXCEPT ![c] = moved]
      OBVIOUS
    <2> HIDE DEF moved
    <2>1. TypeOK'
      BY <2>a, <2>b, <2>c DEF TypeOK
    <2>2. SnapshotsAreOpen'
      BY DEF TypeOK, SnapshotsAreOpen
    <2>3. SentMeansSent'
      <3> SUFFICES ASSUME NEW d \in Chats
                   PROVE  /\ row'[d] = NoRow => tg'[d].state = "none"
                          /\ row'[d] # NoRow /\ row'[d].sent => tg'[d].state # "none"
                          /\ \A k \in Jobs : snap'[k][d] # NoRow /\ snap'[k][d].sent => tg'[d].state # "none"
        BY DEF SentMeansSent
      <3>1. \A k \in Jobs : snap'[k][d] = snap[k][d] \/ snap'[k][d] = NoRow
        BY DEF TypeOK
      <3>2. tg' = tg
        BY DEF telegram
      <3>3. CASE d = c
        <4>1. row'[d] = moved /\ moved # NoRow
          BY <2>b, <2>c, <3>3, NoRowIsNoPoll DEF TypeOK
        <4>2. snap["sync"][d] # NoRow /\ row'[d].sent = snap["sync"][d].sent
          BY <2>a, <2>b, <3>3, <4>1, NoRowIsNoPoll
        <4> QED BY <3>1, <3>2, <4>1, <4>2 DEF SentMeansSent
      <3>4. CASE d # c
        <4>1. row'[d] = row[d]
          BY <2>c, <3>4 DEF TypeOK
        <4> QED BY <3>1, <3>2, <4>1 DEF SentMeansSent
      <3> QED BY <3>3, <3>4
    <2>4. StageMatchesTelegram'
      BY DEF TypeOK, StageMatchesTelegram, SentMeansSent, InHand
    <2>5. InHand'
      <3>1. \A d \in Chats : row[d] # NoRow => row'[d] # NoRow
        BY <2>a, <2>b, <2>c DEF TypeOK
      <3> QED BY <3>1 DEF TypeOK, InHand
    <2>6. BatchIsRead'
      BY DEF TypeOK, BatchIsRead, EndsPolls, MovesPolls, ShouldCancelPrediction
    <2>7. SendsCounted'
      BY DEF TypeOK, SendsCounted, StageMatchesTelegram, SentMeansSent, InHand
    <2>8. EndedRowMeansEndedPoll'
      BY <2>a, <2>b, <2>c DEF TypeOK, EndedRowMeansEndedPoll, StageMatchesTelegram, SentMeansSent, InHand
    <2> QED BY <2>1, <2>2, <2>3, <2>4, <2>5, <2>6, <2>7, <2>8 DEF IInv
  <1>17. ASSUME NEW c \in Chats, KeepExisting(c) PROVE IInv'
    <2> USE <1>17 DEF KeepExisting, Creating
    <2>1. TypeOK'
      BY DEF TypeOK, Poll, PollStatus, TelegramPoll, Times, NoTime
    <2>2. SnapshotsAreOpen'
      BY DEF TypeOK, SnapshotsAreOpen
    <2>3. SentMeansSent'
      BY DEF TypeOK, SentMeansSent, StageMatchesTelegram, InHand
    <2>4. StageMatchesTelegram'
      BY DEF TypeOK, StageMatchesTelegram, SentMeansSent, InHand
    <2>5. InHand'
      BY DEF TypeOK, InHand
    <2>6. BatchIsRead'
      BY DEF TypeOK, BatchIsRead, EndsPolls, MovesPolls, ShouldCancelPrediction
    <2>7. SendsCounted'
      BY DEF TypeOK, SendsCounted, StageMatchesTelegram, SentMeansSent, InHand
    <2>8. EndedRowMeansEndedPoll'
      BY DEF TypeOK, EndedRowMeansEndedPoll, StageMatchesTelegram, SentMeansSent, InHand
    <2> QED BY <2>1, <2>2, <2>3, <2>4, <2>5, <2>6, <2>7, <2>8 DEF IInv
  <1>18. ASSUME NEW c \in Chats, CreateTooLate(c) PROVE IInv'
    <2> USE <1>18 DEF CreateTooLate, Creating
    <2>1. TypeOK'
      BY DEF TypeOK, Poll, PollStatus, TelegramPoll, Times, NoTime
    <2>2. SnapshotsAreOpen'
      BY DEF TypeOK, SnapshotsAreOpen
    <2>3. SentMeansSent'
      BY DEF TypeOK, SentMeansSent, StageMatchesTelegram, InHand
    <2>4. StageMatchesTelegram'
      BY DEF TypeOK, StageMatchesTelegram, SentMeansSent, InHand
    <2>5. InHand'
      BY DEF TypeOK, InHand
    <2>6. BatchIsRead'
      BY DEF TypeOK, BatchIsRead, EndsPolls, MovesPolls, ShouldCancelPrediction
    <2>7. SendsCounted'
      BY DEF TypeOK, SendsCounted, StageMatchesTelegram, SentMeansSent, InHand
    <2>8. EndedRowMeansEndedPoll'
      BY DEF TypeOK, EndedRowMeansEndedPoll, StageMatchesTelegram, SentMeansSent, InHand
    <2> QED BY <2>1, <2>2, <2>3, <2>4, <2>5, <2>6, <2>7, <2>8 DEF IInv
  <1>19. ASSUME NEW c \in Chats, SkipChat(c) PROVE IInv'
    <2> USE <1>19 DEF SkipChat, Creating
    <2>1. TypeOK'
      BY DEF TypeOK, Poll, PollStatus, TelegramPoll, Times, NoTime
    <2>2. SnapshotsAreOpen'
      BY DEF TypeOK, SnapshotsAreOpen
    <2>3. SentMeansSent'
      BY DEF TypeOK, SentMeansSent, StageMatchesTelegram, InHand
    <2>4. StageMatchesTelegram'
      BY DEF TypeOK, StageMatchesTelegram, SentMeansSent, InHand
    <2>5. InHand'
      BY DEF TypeOK, InHand
    <2>6. BatchIsRead'
      BY DEF TypeOK, BatchIsRead, EndsPolls, MovesPolls, ShouldCancelPrediction
    <2>7. SendsCounted'
      BY DEF TypeOK, SendsCounted, StageMatchesTelegram, SentMeansSent, InHand
    <2>8. EndedRowMeansEndedPoll'
      BY DEF TypeOK, EndedRowMeansEndedPoll, StageMatchesTelegram, SentMeansSent, InHand
    <2> QED BY <2>1, <2>2, <2>3, <2>4, <2>5, <2>6, <2>7, <2>8 DEF IInv
  <1>20. ASSUME NEW c \in Chats, CreateDraft(c) PROVE IInv'
    <2> USE <1>20 DEF CreateDraft, Creating
    <2>a. Draft \in Poll /\ Draft.status = "OPEN" /\ ~Draft.sent
      <3>1. match.at \in Times
        BY DEF TypeOK, Match, StillAhead
      <3> QED BY <3>1 DEF Draft, Poll, PollStatus
    <2>1. TypeOK'
      BY <2>a DEF TypeOK, Poll, PollStatus, TelegramPoll, Times, NoTime
    <2>2. SnapshotsAreOpen'
      BY <2>a DEF TypeOK, SnapshotsAreOpen
    <2>3. SentMeansSent'
      BY <2>a DEF TypeOK, SentMeansSent, StageMatchesTelegram, InHand
    <2>4. StageMatchesTelegram'
      BY <2>a DEF TypeOK, StageMatchesTelegram, SentMeansSent, InHand
    <2>5. InHand'
      BY <2>a DEF TypeOK, InHand
    <2>6. BatchIsRead'
      BY <2>a DEF TypeOK, BatchIsRead, EndsPolls, MovesPolls, ShouldCancelPrediction
    <2>7. SendsCounted'
      BY DEF TypeOK, SendsCounted, StageMatchesTelegram, SentMeansSent, InHand
    <2>8. EndedRowMeansEndedPoll'
      BY <2>a DEF TypeOK, EndedRowMeansEndedPoll, StageMatchesTelegram, SentMeansSent, InHand
    <2> QED BY <2>1, <2>2, <2>3, <2>4, <2>5, <2>6, <2>7, <2>8 DEF IInv
  <1>21. CASE SendPoll
    <2> USE <1>21 DEF SendPoll, PostPoll
    <2> DEFINE c == cur["sync"]
               posted == [state |-> "open",
                          timer |-> IF snap["sync"][c].closesAt >= now + MinLead THEN snap["sync"][c].closesAt ELSE NoTime]
    <2>a. c \in Chats /\ snap["sync"][c] \in Poll /\ tg[c].state = "none"
      BY DEF TypeOK, InHand, StageMatchesTelegram
    <2>b. posted \in TelegramPoll /\ posted.state = "open"
      BY <2>a DEF TelegramPoll, Poll
    <2>c. tg' = [tg EXCEPT ![c] = posted] /\ sends' = [sends EXCEPT ![c] = @ + 1]
      OBVIOUS
    <2> HIDE DEF posted
    <2>d. tg' \in [Chats -> TelegramPoll] /\ sends' \in [Chats -> Nat]
      BY <2>a, <2>b, <2>c DEF TypeOK
    <2>e. \A d \in Chats :
            \/ tg'[d] = tg[d] /\ sends'[d] = sends[d]
            \/ d = c /\ tg'[d].state = "open" /\ sends'[d] = sends[d] + 1
      BY <2>a, <2>b, <2>c DEF TypeOK
    <2>1. TypeOK'
      BY <2>a, <2>d DEF TypeOK, Poll, PollStatus, TelegramPoll, Times, NoTime
    <2>2. SnapshotsAreOpen'
      BY DEF TypeOK, SnapshotsAreOpen
    <2>3. SentMeansSent'
      <3> SUFFICES ASSUME NEW d \in Chats
                   PROVE  /\ row'[d] = NoRow => tg'[d].state = "none"
                          /\ row'[d] # NoRow /\ row'[d].sent => tg'[d].state # "none"
                          /\ \A k \in Jobs : snap'[k][d] # NoRow /\ snap'[k][d].sent => tg'[d].state # "none"
        BY DEF SentMeansSent
      <3>1. \A k \in Jobs : snap'[k][d] = snap[k][d] \/ snap'[k][d] = NoRow
        BY DEF TypeOK
      <3>2. tg'[d] = tg[d] \/ (d = c /\ tg'[d].state = "open")
        BY <2>e
      <3>5. row'[d] = row[d]
        OBVIOUS
      <3>3. d = c => row[d] # NoRow
        BY DEF InHand
      <3>4. "open" # "none"
        OBVIOUS
      <3> QED BY <3>1, <3>2, <3>3, <3>4, <3>5 DEF SentMeansSent
    <2>4. StageMatchesTelegram'
      BY <2>a, <2>b, <2>c, <2>e DEF TypeOK, StageMatchesTelegram, SentMeansSent, InHand
    <2>5. InHand'
      BY DEF TypeOK, InHand
    <2>6. BatchIsRead'
      BY DEF TypeOK, BatchIsRead, EndsPolls, MovesPolls, ShouldCancelPrediction
    <2>7. SendsCounted'
      BY <2>a, <2>e DEF TypeOK, SendsCounted, StageMatchesTelegram, SentMeansSent, InHand
    <2>8. EndedRowMeansEndedPoll'
      BY <2>a, <2>e DEF TypeOK, EndedRowMeansEndedPoll, StageMatchesTelegram, SentMeansSent, InHand
    <2> QED BY <2>1, <2>2, <2>3, <2>4, <2>5, <2>6, <2>7, <2>8 DEF IInv
  <1>22. CASE SendFails
    <2> USE <1>22 DEF SendFails, PostPoll
    <2> DEFINE c == cur["sync"]
               posted == [state |-> "open",
                          timer |-> IF snap["sync"][c].closesAt >= now + MinLead THEN snap["sync"][c].closesAt ELSE NoTime]
    <2>a. c \in Chats /\ snap["sync"][c] \in Poll /\ tg[c].state = "none"
      BY DEF TypeOK, InHand, StageMatchesTelegram
    <2>b. posted \in TelegramPoll /\ posted.state = "open"
      BY <2>a DEF TelegramPoll, Poll
    <2>c. \/ tg' = [tg EXCEPT ![c] = posted] /\ sends' = [sends EXCEPT ![c] = @ + 1]
          \/ UNCHANGED <<tg, sends>>
      OBVIOUS
    <2> HIDE DEF posted
    <2>d. tg' \in [Chats -> TelegramPoll] /\ sends' \in [Chats -> Nat]
      BY <2>a, <2>b, <2>c DEF TypeOK
    <2>e. \A d \in Chats :
            \/ tg'[d] = tg[d] /\ sends'[d] = sends[d]
            \/ d = c /\ tg'[d].state = "open" /\ sends'[d] = sends[d] + 1
      BY <2>a, <2>b, <2>c DEF TypeOK
    <2>1. TypeOK'
      BY <2>a, <2>d DEF TypeOK, Poll, PollStatus, TelegramPoll, Times, NoTime
    <2>2. SnapshotsAreOpen'
      BY DEF TypeOK, SnapshotsAreOpen
    <2>3. SentMeansSent'
      <3> SUFFICES ASSUME NEW d \in Chats
                   PROVE  /\ row'[d] = NoRow => tg'[d].state = "none"
                          /\ row'[d] # NoRow /\ row'[d].sent => tg'[d].state # "none"
                          /\ \A k \in Jobs : snap'[k][d] # NoRow /\ snap'[k][d].sent => tg'[d].state # "none"
        BY DEF SentMeansSent
      <3>1. \A k \in Jobs : snap'[k][d] = snap[k][d] \/ snap'[k][d] = NoRow
        BY DEF TypeOK
      <3>2. tg'[d] = tg[d] \/ (d = c /\ tg'[d].state = "open")
        BY <2>e
      <3>5. row'[d] = row[d]
        OBVIOUS
      <3>3. d = c => row[d] # NoRow
        BY DEF InHand
      <3>4. "open" # "none"
        OBVIOUS
      <3> QED BY <3>1, <3>2, <3>3, <3>4, <3>5 DEF SentMeansSent
    <2>4. StageMatchesTelegram'
      BY <2>a, <2>b, <2>c, <2>e DEF TypeOK, StageMatchesTelegram, SentMeansSent, InHand
    <2>5. InHand'
      BY DEF TypeOK, InHand
    <2>6. BatchIsRead'
      BY DEF TypeOK, BatchIsRead, EndsPolls, MovesPolls, ShouldCancelPrediction
    <2>7. SendsCounted'
      BY <2>a, <2>e DEF TypeOK, SendsCounted, StageMatchesTelegram, SentMeansSent, InHand
    <2>8. EndedRowMeansEndedPoll'
      BY <2>a, <2>e DEF TypeOK, EndedRowMeansEndedPoll, StageMatchesTelegram, SentMeansSent, InHand
    <2> QED BY <2>1, <2>2, <2>3, <2>4, <2>5, <2>6, <2>7, <2>8 DEF IInv
  <1>23. ASSUME SaveSent PROVE IInv'
    <2> USE <1>23 DEF SaveSent
    <2>a. cur["sync"] \in Chats /\ Saved("sync") \in Poll /\ tg[cur["sync"]].state # "none"
          /\ (Saved("sync").status # "OPEN" => tg[cur["sync"]].state = "closed")
      BY SavedPoll
    <2>b. row' = [row EXCEPT ![cur["sync"]] = Saved("sync")]
      OBVIOUS
    <2>c. row' \in [Chats -> Poll \cup {NoRow}]
      BY <2>a, <2>b DEF TypeOK
    <2>d. \A d \in Chats : row'[d] = row[d] \/ (d = cur["sync"] /\ row'[d] = Saved("sync"))
      BY <2>a, <2>b DEF TypeOK
    <2>e. \A d \in Chats : row[d] # NoRow => row'[d] # NoRow
      BY <2>a, <2>d
    <2>1. TypeOK'
      BY <2>a, <2>c DEF TypeOK
    <2>2. SnapshotsAreOpen'
      BY DEF TypeOK, SnapshotsAreOpen
    <2>3. SentMeansSent'
      <3>1. \A k \in Jobs, d \in Chats : snap'[k][d] = snap[k][d] \/ snap'[k][d] = NoRow
        BY DEF TypeOK
      <3> QED BY <2>a, <2>d, <3>1 DEF SentMeansSent
    <2>4. StageMatchesTelegram'
      BY DEF TypeOK, StageMatchesTelegram
    <2>5. InHand'
      BY <2>e DEF TypeOK, InHand
    <2>6. BatchIsRead'
      BY DEF TypeOK, BatchIsRead, EndsPolls, MovesPolls, ShouldCancelPrediction
    <2>7. SendsCounted'
      BY DEF SendsCounted
    <2>8. EndedRowMeansEndedPoll'
      BY <2>a, <2>d DEF EndedRowMeansEndedPoll
    <2> QED BY <2>1, <2>2, <2>3, <2>4, <2>5, <2>6, <2>7, <2>8 DEF IInv
  <1>24. ASSUME NEW j \in Jobs, SaveFails(j) PROVE IInv'
    <2> USE <1>24 DEF SaveFails
    <2>a. cur[j] \in Chats /\ Saved(j) \in Poll /\ tg[cur[j]].state # "none"
          /\ (Saved(j).status # "OPEN" => tg[cur[j]].state = "closed")
      BY SavedPoll
    <2>b. row' = row \/ row' = [row EXCEPT ![cur[j]] = Saved(j)]
      OBVIOUS
    <2>c. row' \in [Chats -> Poll \cup {NoRow}]
      BY <2>a, <2>b DEF TypeOK
    <2>d. \A d \in Chats : row'[d] = row[d] \/ (d = cur[j] /\ row'[d] = Saved(j))
      BY <2>a, <2>b DEF TypeOK
    <2>e. \A d \in Chats : row[d] # NoRow => row'[d] # NoRow
      BY <2>a, <2>d
    <2>1. TypeOK'
      BY <2>a, <2>c DEF TypeOK
    <2>2. SnapshotsAreOpen'
      BY DEF TypeOK, SnapshotsAreOpen
    <2>3. SentMeansSent'
      <3>1. \A k \in Jobs, d \in Chats : snap'[k][d] = snap[k][d] \/ snap'[k][d] = NoRow
        BY DEF TypeOK
      <3> QED BY <2>a, <2>d, <3>1 DEF SentMeansSent
    <2>4. StageMatchesTelegram'
      BY DEF TypeOK, StageMatchesTelegram
    <2>5. InHand'
      BY <2>e DEF TypeOK, InHand
    <2>6. BatchIsRead'
      BY DEF TypeOK, BatchIsRead, EndsPolls, MovesPolls, ShouldCancelPrediction
    <2>7. SendsCounted'
      BY DEF SendsCounted
    <2>8. EndedRowMeansEndedPoll'
      BY <2>a, <2>d DEF EndedRowMeansEndedPoll
    <2> QED BY <2>1, <2>2, <2>3, <2>4, <2>5, <2>6, <2>7, <2>8 DEF IInv
  <1> QED
    BY <1>1, <1>2, <1>3, <1>4, <1>5, <1>6, <1>7, <1>8, <1>9, <1>10, <1>11, <1>12, <1>13, <1>14, <1>15,
       <1>16, <1>17, <1>18, <1>19, <1>20, <1>21, <1>22, <1>23, <1>24
       DEF Next, Sync, Closer, Failures, Environment, EndPolls, CreatePolls

\* Every reachable state is well typed.
THEOREM TypeCorrect == Spec => []TypeOK
  <1>1. IInv => TypeOK
    BY DEF IInv
  <1> QED BY <1>1, InitIInv, NextIInv, PTL DEF Spec

\* No row ever says a poll is over before Telegram has closed it.
THEOREM EndedRowsAreEnded == Spec => []EndedRowMeansEndedPoll
  <1>1. IInv => EndedRowMeansEndedPoll
    BY DEF IInv
  <1> QED BY <1>1, InitIInv, NextIInv, PTL DEF Spec

\* A chat never receives a second Telegram poll for the match.
THEOREM NeverTwoPolls == Spec => []OnePollPerChat
  <1>1. IInv => OnePollPerChat
    <2> SUFFICES ASSUME IInv, NEW c \in Chats PROVE sends[c] <= 1
      BY DEF OnePollPerChat
    <2> QED BY DEF IInv, SendsCounted
  <1> QED BY <1>1, InitIInv, NextIInv, PTL DEF Spec

-----------------------------------------------------------------------------
(* The reaction to a match that is live or called off. Between the run's read *)
(* of the open polls and its end no row turns open: only a poll that is posted *)
(* or moved is saved as open, by the sync job and for a match still ahead.     *)

Live == match.status = "RUNNING" \/ ShouldCancelPrediction(match)

\* Polls are posted for a match that has not started, and by the sync job alone.
PostsAreAhead ==
    /\ pc["sync"] \in {"send", "sent"} => match.status = "NOT_STARTED"
    /\ pc["closer"] \notin {"react", "send", "sent"}

\* Once the run has reacted, the open polls are those reported, yet to handle, or in S.
LeavesOnly(S) == pc["sync"] # "react" /\ Live => OpenPollsForMatch \subseteq todo["sync"] \cup missed \cup S

LiveInv(S) == PostsAreAhead /\ LeavesOnly(S)

LEMMA InitLiveInv == \A S : Init => LiveInv(S)
  BY DEF Init, LiveInv, PostsAreAhead, LeavesOnly, Live, OpenPollsForMatch, NothingRead,
         Unplayed, ShouldCancelPrediction, Jobs

\* No job saves an open row while the match is live.
LEMMA LiveRowsEnd ==
  ASSUME IInv, PostsAreAhead, Live, NEW j \in Jobs, pc[j] \in {"save", "sent"}
  PROVE  Saved(j) \in Poll /\ Saved(j).status # "OPEN"
  <1>1. pc[j] = "save"
    BY DEF PostsAreAhead, Live, ShouldCancelPrediction, Jobs
  <1>2. cur[j] \in Chats /\ snap[j][cur[j]] \in Poll
    BY <1>1 DEF IInv, TypeOK, InHand
  <1> DEFINE poll == snap[j][cur[j]]
  <1>3. Saved(j) = [poll EXCEPT !.status = EndStatus(j)]
    BY <1>1 DEF Saved
  <1>4. EndStatus(j) \in {"CANCELLED", "CLOSED"}
    BY DEF EndStatus
  <1> HIDE DEF poll
  <1>5. Saved(j).status = EndStatus(j)
    BY <1>2, <1>3 DEF poll, Poll
  <1> QED BY <1>4, <1>5, SavedPoll

\* A step that opens no row, and drops from the batch only what it reports or what
\* is no longer open, leaves nothing behind.
LEMMA NothingSlipsThrough ==
  ASSUME NEW S, LeavesOnly(S), match' = match, pc["sync"] # "react",
         Live => /\ OpenPollsForMatch' \subseteq OpenPollsForMatch
                 /\ missed \subseteq missed'
                 /\ todo["sync"] \subseteq todo'["sync"] \cup missed' \cup (Chats \ OpenPollsForMatch')
  PROVE  LeavesOnly(S)'
  <1> SUFFICES ASSUME pc'["sync"] # "react", Live', NEW c \in OpenPollsForMatch'
               PROVE  c \in todo'["sync"] \cup missed' \cup S
    BY DEF LeavesOnly, Live, ShouldCancelPrediction
  <1>1. Live
    BY DEF Live, ShouldCancelPrediction
  <1>2. c \in todo["sync"] \cup missed \cup S
    BY <1>1 DEF LeavesOnly
  <1> QED BY <1>1, <1>2

LEMMA NextLiveInv ==
  ASSUME NEW S, IInv, LiveInv(S), [Next]_vars
  PROVE  LiveInv(S)'
  <1>0. TypeOK /\ InHand /\ PostsAreAhead /\ LeavesOnly(S)
    BY DEF IInv, LiveInv
  <1> USE <1>0 DEF Jobs, env, db, telegram, job
  \* Steps that leave rows, match, batches and reports alone.
  <1>a. ASSUME UNCHANGED <<match, row, todo, missed>>,
               pc'["sync"] # pc["sync"] => pc["sync"] # "react"
        PROVE  LeavesOnly(S)'
    BY <1>a DEF LiveInv, LeavesOnly, Live, OpenPollsForMatch, ShouldCancelPrediction
  <1>1. CASE UNCHANGED vars
    BY <1>1, <1>a DEF vars, LiveInv, PostsAreAhead
  <1>2. CASE Environment
    <2>1. UNCHANGED <<match, row, todo, missed, pc>>
      BY <1>2 DEF Environment, Tick, ProviderReports, TelegramCloses
    <2> QED BY <2>1, <1>a DEF LiveInv, PostsAreAhead
  <1>3. ASSUME NEW j \in Jobs, NEW c \in Chats, StopPoll(j, c) PROVE LiveInv(S)'
    <2>1. UNCHANGED <<match, row, todo, missed>> /\ pc[j] = "polls"
      BY <1>3 DEF StopPoll
    <2>2. pc' = [pc EXCEPT ![j] = IF EndStatus(j) = "CANCELLED" THEN "save" ELSE "announce"]
      BY <1>3 DEF StopPoll
    <2>3. PostsAreAhead'
      BY <2>1, <2>2 DEF PostsAreAhead, TypeOK
    <2>4. LeavesOnly(S)'
      BY <2>1, <2>2, <1>a DEF TypeOK
    <2> QED BY <2>3, <2>4 DEF LiveInv
  \* A job done with c's poll: where it stands, and what it has left.
  <1>b. ASSUME NEW j \in Jobs, NEW c \in Chats, Handled(j, c), match' = match, pc[j] # "react",
               missed \subseteq missed',
               Live => /\ OpenPollsForMatch' \subseteq OpenPollsForMatch
                       /\ (j = "sync" => c \in missed' \/ c \notin OpenPollsForMatch')
        PROVE  LiveInv(S)'
    <2>1. pc' = [pc EXCEPT ![j] = AtPolls(todo[j] \ {c})] /\ todo' = [todo EXCEPT ![j] = @ \ {c}]
      BY <1>b DEF Handled
    <2>2. PostsAreAhead'
      BY <1>b, <2>1 DEF PostsAreAhead, TypeOK, AtPolls
    <2>3. j = "closer" => pc'["sync"] = pc["sync"] /\ todo'["sync"] = todo["sync"]
      BY <2>1 DEF TypeOK
    <2>4. j = "sync" => todo'["sync"] = todo["sync"] \ {c}
      BY <2>1 DEF TypeOK
    <2>5. todo["sync"] \subseteq Chats
      BY DEF TypeOK
    <2>6. CASE pc["sync"] = "react"
      BY <1>b, <2>2, <2>3, <2>6 DEF LeavesOnly, Live, LiveInv
    <2>7. CASE pc["sync"] # "react"
      <3>1. Live => todo["sync"] \subseteq todo'["sync"] \cup missed' \cup (Chats \ OpenPollsForMatch')
        BY <1>b, <2>3, <2>4, <2>5
      <3> QED BY <1>b, <2>2, <2>7, <3>1, NothingSlipsThrough DEF LiveInv
    <2> QED BY <2>6, <2>7
  <1>4. ASSUME NEW j \in Jobs, NEW c \in Chats, StopRefused(j, c) \/ StopFails(j, c) PROVE LiveInv(S)'
    <2>1. UNCHANGED <<match, row>> /\ Failed(j, c) /\ pc[j] = "polls"
      BY <1>4 DEF StopRefused, StopFails
    <2>2. OpenPollsForMatch' = OpenPollsForMatch
      BY <2>1 DEF OpenPollsForMatch
    <2> QED BY <1>b, <2>1, <2>2 DEF Failed
  <1>5. ASSUME NEW j \in Jobs, Announce(j) PROVE LiveInv(S)'
    <2>1. UNCHANGED <<match, todo, missed>> /\ pc[j] = "announce" /\ pc' = [pc EXCEPT ![j] = "save"]
      BY <1>5 DEF Announce
    <2>2. cur[j] \in Chats /\ row[cur[j]] \in Poll
      BY <2>1 DEF InHand, TypeOK
    <2>3. OpenPollsForMatch' = OpenPollsForMatch
      <3>1. CASE row' = row
        BY <3>1 DEF OpenPollsForMatch
      <3>2. CASE row' = [row EXCEPT ![cur[j]].stream = TRUE]
        <4>1. \A d \in Chats : d # cur[j] => row'[d] = row[d]
          BY <3>2 DEF TypeOK
        <4>2. [row[cur[j]] EXCEPT !.stream = TRUE] \in Poll
          BY <2>2 DEF Poll
        <4>3. row'[cur[j]] # NoRow /\ row[cur[j]] # NoRow /\ row'[cur[j]].status = row[cur[j]].status
          BY <2>2, <3>2, <4>2, NoRowIsNoPoll DEF TypeOK, Poll
        <4> QED BY <4>1, <4>3 DEF OpenPollsForMatch
      <3> QED BY <1>5, <3>1, <3>2 DEF Announce
    <2>4. PostsAreAhead'
      BY <2>1 DEF PostsAreAhead, TypeOK
    <2>5. pc'["sync"] # "react" => pc["sync"] # "react"
      BY <2>1 DEF TypeOK
    <2>6. LeavesOnly(S)'
      BY <2>1, <2>3, <2>5 DEF LiveInv, LeavesOnly, Live, ShouldCancelPrediction
    <2> QED BY <2>4, <2>6 DEF LiveInv
  <1>6. ASSUME NEW j \in Jobs, SaveEnded(j) \/ SaveFails(j) \/ (j = "sync" /\ SaveSent) PROVE LiveInv(S)'
    <2>1. /\ pc[j] \in {"save", "sent"} /\ match' = match /\ Handled(j, cur[j]) /\ missed \subseteq missed'
          /\ \/ row' = [row EXCEPT ![cur[j]] = Saved(j)]
             \/ row' = row /\ (j = "sync" => cur[j] \in missed')
      BY <1>6 DEF SaveEnded, SaveFails, SaveSent, SavePoll, Failed
    <2>2. cur[j] \in Chats
      BY <2>1 DEF InHand
    <2>3. ASSUME Live PROVE /\ OpenPollsForMatch' \subseteq OpenPollsForMatch
                            /\ (j = "sync" => cur[j] \in missed' \/ cur[j] \notin OpenPollsForMatch')
      <3>1. CASE row' = [row EXCEPT ![cur[j]] = Saved(j)]
        <4>1. row'[cur[j]].status # "OPEN" /\ \A d \in Chats : d # cur[j] => row'[d] = row[d]
          BY <2>1, <2>2, <2>3, <3>1, LiveRowsEnd DEF TypeOK
        <4> QED BY <4>1 DEF OpenPollsForMatch
      <3>2. CASE row' = row /\ (j = "sync" => cur[j] \in missed')
        BY <3>2 DEF OpenPollsForMatch
      <3> QED BY <2>1, <3>1, <3>2
    <2>4. pc[j] # "react"
      BY <2>1
    <2> QED BY <1>b, <2>1, <2>2, <2>3, <2>4
  <1>7. ASSUME NEW j \in Jobs, RunAborted(j) PROVE LiveInv(S)'
    <2>1. /\ UNCHANGED <<match, row>> /\ pc' = [pc EXCEPT ![j] = "idle"] /\ todo' = [todo EXCEPT ![j] = {}]
          /\ missed' = CASE j = "closer"     -> missed
                        [] pc[j] = "react" -> Chats
                        [] OTHER            -> missed \cup todo[j]
      BY <1>7 DEF RunAborted
    <2>2. PostsAreAhead'
      BY <2>1 DEF PostsAreAhead, TypeOK
    <2>3. OpenPollsForMatch' = OpenPollsForMatch /\ OpenPollsForMatch \subseteq Chats
      BY <2>1 DEF OpenPollsForMatch
    <2>4. LeavesOnly(S)'
      <3>1. CASE j = "closer"
        <4>1. missed' = missed /\ pc'["sync"] = pc["sync"] /\ todo'["sync"] = todo["sync"]
          BY <2>1, <3>1 DEF TypeOK, PostsAreAhead
        <4> QED BY <2>1, <2>3, <4>1 DEF LiveInv, LeavesOnly, Live, ShouldCancelPrediction
      <3>2. CASE j = "sync" /\ pc[j] = "react"
        <4>1. missed' = Chats
          BY <2>1, <3>2
        <4> QED BY <2>3, <4>1 DEF LeavesOnly, Live
      <3>3. CASE j = "sync" /\ pc[j] # "react"
        <4>1. missed' = missed \cup todo["sync"]
          BY <2>1, <3>3
        <4> QED BY <2>1, <2>3, <3>3, <4>1 DEF LiveInv, LeavesOnly, Live, ShouldCancelPrediction
      <3> QED BY <3>1, <3>2, <3>3
    <2> QED BY <2>2, <2>4 DEF LiveInv
  <1>8. CASE CloseDue
    <2>1. /\ UNCHANGED <<match, row, missed>> /\ pc' = [pc EXCEPT !["closer"] = "polls"]
          /\ todo' = [todo EXCEPT !["closer"] = OpenPollsDue(now)]
      BY <1>8 DEF CloseDue, Read
    <2>2. pc'["sync"] = pc["sync"] /\ todo'["sync"] = todo["sync"] /\ pc'["closer"] = "polls"
      BY <2>1 DEF TypeOK
    <2> QED BY <2>1, <2>2 DEF LiveInv, PostsAreAhead, LeavesOnly, Live, OpenPollsForMatch,
                              ShouldCancelPrediction
  <1>9. CASE SaveMatch
    <2>1. pc' = [pc EXCEPT !["sync"] = "react"]
      BY <1>9 DEF SaveMatch
    <2>2. pc'["sync"] = "react" /\ pc'["closer"] = pc["closer"]
      BY <2>1 DEF TypeOK
    <2> QED BY <2>2 DEF LiveInv, PostsAreAhead, LeavesOnly, Live
  <1>10. CASE ReadOpenPolls
    <2>1. /\ UNCHANGED <<match, row>> /\ pc' = [pc EXCEPT !["sync"] = AtPolls(OpenPollsForMatch)]
          /\ todo' = [todo EXCEPT !["sync"] = OpenPollsForMatch]
      BY <1>10 DEF ReadOpenPolls, Read
    <2>2. pc'["sync"] \in {"idle", "polls"} /\ pc'["closer"] = pc["closer"] /\ todo'["sync"] = OpenPollsForMatch
      BY <2>1 DEF TypeOK, AtPolls
    <2> QED BY <2>1, <2>2 DEF LiveInv, PostsAreAhead, LeavesOnly, Live, OpenPollsForMatch
  <1>11. CASE FanOutNewPolls \/ NothingToDo
    <2>1. /\ match' = match /\ ~Live
          /\ pc'["sync"] \in {"idle", "polls"} /\ pc'["closer"] = pc["closer"]
      BY <1>11 DEF FanOutNewPolls, NothingToDo, CreatesPolls, EndsPolls, Live, ShouldCancelPrediction,
                   AtPolls, TypeOK
    <2> QED BY <2>1 DEF LiveInv, PostsAreAhead, LeavesOnly, Live, ShouldCancelPrediction
  <1>12. ASSUME NEW c \in Chats, Reschedule(c) \/ KeepExisting(c) \/ CreateTooLate(c) \/ SkipChat(c)
         PROVE  LiveInv(S)'
    <2>1. match' = match /\ Handled("sync", c) /\ pc["sync"] = "polls" /\ missed \subseteq missed' /\ ~Live
      BY <1>12 DEF Reschedule, KeepExisting, CreateTooLate, SkipChat, Creating, Failed, MovesPolls, Live,
                   ShouldCancelPrediction
    <2> QED BY <1>b, <2>1
  <1>13. ASSUME NEW c \in Chats, CreateDraft(c) PROVE LiveInv(S)'
    <2>1. /\ match' = match /\ match.status = "NOT_STARTED"
          /\ pc'["sync"] = "send" /\ pc'["closer"] = pc["closer"]
      BY <1>13 DEF CreateDraft, Creating, TypeOK
    <2> QED BY <2>1 DEF LiveInv, PostsAreAhead, LeavesOnly, Live, ShouldCancelPrediction
  <1>14. CASE SendPoll
    <2>1. match' = match /\ pc["sync"] = "send" /\ pc'["sync"] = "sent" /\ pc'["closer"] = pc["closer"]
      BY <1>14 DEF SendPoll, TypeOK
    <2> QED BY <2>1 DEF LiveInv, PostsAreAhead, LeavesOnly, Live, ShouldCancelPrediction
  <1>15. CASE SendFails
    <2>1. match' = match /\ pc["sync"] = "send" /\ Failed("sync", cur["sync"])
      BY <1>15 DEF SendFails
    <2>2. cur["sync"] \in Chats /\ ~Live
      BY <2>1 DEF InHand, PostsAreAhead, Live, ShouldCancelPrediction
    <2> QED BY <1>b, <2>1, <2>2 DEF Failed
  <1> QED
    BY <1>1, <1>2, <1>3, <1>4, <1>5, <1>6, <1>7, <1>8, <1>9, <1>10, <1>11, <1>12, <1>13, <1>14, <1>15
       DEF Next, Sync, Closer, Failures, EndPolls, CreatePolls

-----------------------------------------------------------------------------
(* With the handler of a subscription as a third writer (Subscribing). Its     *)
(* steps meet the jobs' on one row: a draft has one author, since the row is    *)
(* there when the second one looks, and only its author posts it.             *)

\* What the handler holds is an open draft without ids, and its own row is there
\* from the insert on; no job posts to the chat it is about to post to.
HandlerInHand ==
    /\ (handler.stage # "idle" => handler.chat \in Chats)
    /\ (handler.stage \in {"create", "send", "sent"} =>
            handler.poll \in Poll /\ handler.poll.status = "OPEN" /\ ~handler.poll.sent)
    /\ (handler.stage \in {"send", "sent"} => row[handler.chat] # NoRow)
    /\ (handler.stage = "sent" => tg[handler.chat].state # "none")
    /\ (handler.stage = "send" =>
            tg[handler.chat].state = "none" /\ ~(pc["sync"] = "send" /\ cur["sync"] = handler.chat))

\* A poll being ended was read with its ids (Close and Cancel refuse it otherwise).
EndsWithIds == \A j \in Jobs : (pc[j] \in {"announce", "save"} => snap[j][cur[j]].sent)

\* The sync run is about to fan out, or has c still in its batch.
Owes(c) ==
    \/ pc["sync"] = "react" /\ fresh /\ match.status = "NOT_STARTED" /\ match.known /\ match.at # NoTime
    \/ pc["sync"] \in {"polls", "send", "sent"} /\ match.status = "NOT_STARTED" /\ c \in todo["sync"]

\* A chat that somebody owes a poll has it, or one of the two creators still has it to do.
Served(c) == row[c] # NoRow \/ (handler.stage \in {"read", "create"} /\ handler.chat = c) \/ Owes(c)

OwedAreServed == owed \subseteq subscribed /\ (faults = 0 => \A c \in owed : Served(c))

HandlerTypes ==
    /\ subscribed \subseteq Chats
    /\ handler \in [chat : Chats \cup {NoChat}, stage : {"idle", "read", "create", "send", "sent"},
                    poll : Poll \cup {NoRow}]

SubscribingInv == HandlerTypes /\ HandlerInHand /\ EndsWithIds /\ OwedAreServed

\* What a step of the jobs, of a failure or of the environment does to one row: it
\* stays, and its ids go only where Reschedule saves a snapshot without them.
LEMMA RowStep ==
  ASSUME IInv, EndsWithIds, [Next]_vars, NEW c \in Chats, row[c] # NoRow
  PROVE  /\ row'[c] # NoRow
         /\ (row[c].sent /\ ~row'[c].sent => MovesPolls /\ ~snap["sync"][c].sent /\ c \in todo["sync"])
  <1>0. TypeOK /\ InHand /\ BatchIsRead
    BY DEF IInv
  <1> USE <1>0 DEF Jobs
  <1>1. CASE row' = row
    BY <1>1
  <1>2. ASSUME NEW j \in Jobs, pc[j] \in {"save", "sent"}, row' = [row EXCEPT ![cur[j]] = Saved(j)]
        PROVE  row'[c] # NoRow /\ (row[c].sent => row'[c].sent)
    <2>1. cur[j] \in Chats /\ Saved(j) \in Poll
      BY <1>2, SavedPoll
    <2>2. Saved(j).sent
      <3> DEFINE poll == snap[j][cur[j]]
      <3>1. poll \in Poll
        BY <1>2, <2>1 DEF TypeOK, InHand
      <3>2. CASE pc[j] = "sent"
        <4>1. Saved(j) = [poll EXCEPT !.sent = TRUE]
          BY <3>2 DEF Saved
        <4> HIDE DEF poll
        <4> QED BY <3>1, <4>1 DEF Poll
      <3>3. CASE pc[j] = "save"
        <4>1. Saved(j) = [poll EXCEPT !.status = EndStatus(j)] /\ poll.sent
          BY <3>3 DEF Saved, EndsWithIds
        <4> HIDE DEF poll
        <4> QED BY <3>1, <4>1 DEF Poll
      <3> QED BY <1>2, <3>2, <3>3
    <2> QED BY <1>2, <2>1, <2>2, NoRowIsNoPoll DEF TypeOK
  <1>3. ASSUME NEW j \in Jobs, Announce(j) PROVE row'[c] # NoRow /\ (row[c].sent => row'[c].sent)
    <2>1. CASE row' = [row EXCEPT ![cur[j]].stream = TRUE]
      <3>1. cur[j] \in Chats /\ row[cur[j]] \in Poll
        BY <1>3 DEF Announce, TypeOK, InHand
      <3>2. [row[cur[j]] EXCEPT !.stream = TRUE] \in Poll
            /\ [row[cur[j]] EXCEPT !.stream = TRUE].sent = row[cur[j]].sent
        BY <3>1 DEF Poll
      <3> QED BY <2>1, <3>1, <3>2, NoRowIsNoPoll DEF TypeOK
    <2> QED BY <1>1, <1>3, <2>1 DEF Announce
  <1>4. ASSUME NEW d \in Chats, Reschedule(d)
        PROVE  /\ row'[c] # NoRow
               /\ (row[c].sent /\ ~row'[c].sent => MovesPolls /\ ~snap["sync"][c].sent /\ c \in todo["sync"])
    <2> DEFINE moved == [snap["sync"][d] EXCEPT !.closesAt = match.at]
    <2>1. MovesPolls /\ d \in todo["sync"] /\ row' = [row EXCEPT ![d] = moved]
      BY <1>4 DEF Reschedule, SavePoll
    <2>2. snap["sync"][d] \in Poll
      BY <2>1 DEF TypeOK, BatchIsRead
    <2>3. moved \in Poll /\ moved.sent = snap["sync"][d].sent
      BY <2>1, <2>2 DEF Poll, Times, NoTime, TypeOK, Match, MovesPolls
    <2> HIDE DEF moved
    <2> QED BY <2>1, <2>3, NoRowIsNoPoll DEF TypeOK
  <1>5. ASSUME NEW d \in Chats, CreateDraft(d) PROVE row'[c] = row[c]
    BY <1>5 DEF CreateDraft, SavePoll, TypeOK
  <1>6. CASE UNCHANGED vars \/ Environment
    BY <1>1, <1>6 DEF vars, db, Environment, Tick, ProviderReports, TelegramCloses
  <1>7. CASE Closer
    BY <1>1, <1>2, <1>3, <1>7 DEF Closer, CloseDue, EndPolls, StopPoll, StopRefused, SaveEnded, SavePoll, db
  <1>8. CASE Failures
    BY <1>1, <1>2, <1>8 DEF Failures, SaveFails, RunAborted, StopFails, SkipChat, SendFails, SavePoll, db
  <1>9. CASE Sync
    BY <1>1, <1>2, <1>3, <1>4, <1>5, <1>9
       DEF Sync, SaveMatch, ReadOpenPolls, FanOutNewPolls, NothingToDo, EndPolls, CreatePolls, StopPoll,
           StopRefused, SaveEnded, SavePoll, db, KeepExisting, CreateTooLate, SendPoll, SaveSent
  <1> QED BY <1>6, <1>7, <1>8, <1>9 DEF Next

\* What such a step does to the poll at Telegram: it is posted by the sync job
\* alone, and whoever begins to post to a chat has found no row of it.
LEMMA PostStep ==
  ASSUME IInv, [Next]_vars, NEW c \in Chats
  PROVE  /\ (tg[c].state # "none" => tg'[c].state # "none")
         /\ (tg[c].state = "none" /\ tg'[c].state # "none" => pc["sync"] = "send" /\ cur["sync"] = c)
         /\ (pc'["sync"] = "send" /\ cur'["sync"] = c =>
                 row[c] = NoRow \/ (pc["sync"] = "send" /\ cur["sync"] = c))
  <1> DEFINE Kept == /\ (tg[c].state # "none" => tg'[c].state # "none")
                     /\ (tg[c].state = "none" => tg'[c].state = "none")
             Posts == pc["sync"] = "send" /\ cur["sync"] = c
             Same == Kept /\ (pc'["sync"] = "send" /\ cur'["sync"] = c => Posts)
  <1> SUFFICES \/ Same
               \/ Kept /\ row[c] = NoRow
               \/ Posts /\ (tg[c].state # "none" => tg'[c].state # "none")
    OBVIOUS
  <1>0. TypeOK /\ SentMeansSent /\ InHand /\ BatchIsRead /\ StageMatchesTelegram
    BY DEF IInv
  <1> USE <1>0 DEF Jobs
  <1>2. ASSUME NEW j \in Jobs, NEW d \in Chats, snap[j][d] # NoRow, snap[j][d].sent, CloseTelegramPoll(d) \/ tg' = tg
        PROVE  Kept
    <2>1. tg[d].state # "none"
      BY <1>2 DEF SentMeansSent
    <2> QED BY <1>2, <2>1 DEF CloseTelegramPoll, TypeOK
  <1>3. ASSUME NEW j \in Jobs, NEW d \in Chats, StopPoll(j, d) \/ StopFails(j, d) PROVE Same
    <2>1. /\ snap[j][d].sent /\ d \in todo[j] /\ EndsPolls(j) /\ (CloseTelegramPoll(d) \/ tg' = tg)
          /\ \E s \in {"save", "announce", "idle", "polls"}, e \in Chats \cup {NoChat} :
                 pc' = [pc EXCEPT ![j] = s] /\ cur' = [cur EXCEPT ![j] = e]
      BY <1>3 DEF StopPoll, StopFails, Failed, Handled, AtPolls
    <2>2. Kept
      BY <1>2, <2>1 DEF BatchIsRead
    <2>3. pc'["sync"] = "send" => pc["sync"] = "send" /\ cur'["sync"] = cur["sync"]
      BY <2>1 DEF TypeOK
    <2> QED BY <2>2, <2>3
  \* A job done with a poll, or on its way, that has posted none.
  <1>4. ASSUME NEW j \in Jobs, NEW s \in {"idle", "react", "polls", "sent", "announce", "save"},
               tg' = tg, pc' = [pc EXCEPT ![j] = s], \A k \in Jobs \ {j} : cur'[k] = cur[k]
        PROVE  Same
    BY <1>4 DEF TypeOK
  <1>5. CASE UNCHANGED vars
    BY <1>5 DEF vars
  <1>6. CASE Environment
    <2>1. pc' = pc /\ cur' = cur
      BY <1>6 DEF Environment, Tick, ProviderReports, TelegramCloses, job
    <2>2. Kept
      BY <1>6 DEF Environment, Tick, ProviderReports, TelegramCloses, telegram, CloseTelegramPoll, TypeOK
    <2> QED BY <2>1, <2>2
  <1>7. ASSUME NEW j \in Jobs, EndPolls(j) \/ SaveFails(j) \/ RunAborted(j) PROVE Same
    <2>1. ASSUME NEW d \in Chats, StopRefused(j, d) PROVE Same
      BY <1>4, <2>1 DEF StopRefused, Failed, Handled, AtPolls, telegram
    <2>2. CASE Announce(j) \/ SaveEnded(j) \/ SaveFails(j) \/ RunAborted(j)
      <3>1. tg' = tg /\ \E s \in {"save", "idle", "polls"} : pc' = [pc EXCEPT ![j] = s]
        BY <2>2 DEF Announce, SaveEnded, SaveFails, RunAborted, Failed, Handled, AtPolls, telegram
      <3>2. \A k \in Jobs \ {j} : cur'[k] = cur[k]
        BY <2>2 DEF Announce, SaveEnded, SaveFails, RunAborted, Failed, Handled, TypeOK
      <3>3. PICK s \in {"save", "idle", "polls"} : pc' = [pc EXCEPT ![j] = s]
        BY <3>1
      <3> QED BY <1>4, <3>1, <3>2, <3>3
    <2> QED BY <1>3, <1>7, <2>1, <2>2 DEF EndPolls
  <1>8. CASE CloseDue
    BY <1>8 DEF CloseDue, telegram, TypeOK
  <1>9. CASE SaveMatch \/ ReadOpenPolls \/ FanOutNewPolls \/ NothingToDo
    BY <1>9 DEF SaveMatch, ReadOpenPolls, FanOutNewPolls, NothingToDo, AtPolls, telegram, TypeOK
  <1>10. ASSUME NEW d \in Chats, Reschedule(d) \/ KeepExisting(d) \/ CreateTooLate(d) \/ SkipChat(d) PROVE Same
    <2>1. tg' = tg /\ Handled("sync", d)
      BY <1>10 DEF Reschedule, KeepExisting, CreateTooLate, SkipChat, Creating, Failed, telegram
    <2>2. pc'["sync"] # "send"
      BY <2>1 DEF Handled, AtPolls, TypeOK
    <2> QED BY <2>1, <2>2
  <1>11. ASSUME NEW d \in Chats, CreateDraft(d) PROVE Same \/ (Kept /\ row[c] = NoRow)
    <2>1. Kept /\ row[d] = NoRow
      BY <1>11 DEF CreateDraft, telegram
    <2>2. cur'["sync"] = d
      BY <1>11 DEF CreateDraft, TypeOK
    <2> QED BY <2>1, <2>2
  <1>12. CASE SendPoll \/ SendFails
    <2>1. pc["sync"] = "send" /\ pc'["sync"] # "send" /\ cur["sync"] \in Chats
      BY <1>12 DEF SendPoll, SendFails, Failed, Handled, AtPolls, TypeOK, InHand
    <2>2. CASE cur["sync"] = c
      <3>1. tg[c].state = "none"
        BY <2>1, <2>2 DEF StageMatchesTelegram
      <3> QED BY <2>1, <2>2, <3>1
    <2>3. CASE cur["sync"] # c
      <3>1. tg'[c] = tg[c]
        BY <1>12, <2>1, <2>3 DEF SendPoll, SendFails, PostPoll, TypeOK
      <3> QED BY <2>1, <3>1
    <2> QED BY <2>2, <2>3
  <1>13. CASE SaveSent
    BY <1>13 DEF SaveSent, Handled, AtPolls, telegram, TypeOK
  <1> QED
    BY <1>3, <1>5, <1>6, <1>7, <1>8, <1>9, <1>10, <1>11, <1>12, <1>13
       DEF Next, Sync, Closer, Failures, EndPolls, CreatePolls

LEMMA NextEndsWithIds == IInv /\ EndsWithIds /\ [Next]_vars => EndsWithIds'
  <1> SUFFICES ASSUME IInv, EndsWithIds, [Next]_vars PROVE EndsWithIds'
    OBVIOUS
  <1>0. TypeOK
    BY DEF IInv
  <1> USE <1>0 DEF Jobs, job
  \* The other job's poll stays as it was read, and the one who moves holds one with its ids, or none.
  <1>1. ASSUME NEW j \in Jobs,
               \A k \in Jobs \ {j} : pc'[k] = pc[k] /\ cur'[k] = cur[k] /\ snap'[k] = snap[k],
               pc'[j] \notin {"announce", "save"} \/ snap'[j][cur'[j]].sent
        PROVE  EndsWithIds'
    BY <1>1 DEF EndsWithIds
  <1>2. CASE UNCHANGED vars \/ Environment
    BY <1>2 DEF vars, Environment, Tick, ProviderReports, TelegramCloses, EndsWithIds
  <1>3. ASSUME NEW j \in Jobs, NEW c \in Chats, StopPoll(j, c) PROVE EndsWithIds'
    <2>1. snap[j][c].sent /\ snap' = snap /\ cur' = [cur EXCEPT ![j] = c]
          /\ \E s \in {"save", "announce"} : pc' = [pc EXCEPT ![j] = s]
      BY <1>3 DEF StopPoll
    <2>2. cur'[j] = c /\ \A k \in Jobs \ {j} : pc'[k] = pc[k] /\ cur'[k] = cur[k]
      BY <2>1 DEF TypeOK
    <2> QED BY <1>1, <2>1, <2>2
  <1>4. ASSUME NEW j \in Jobs, Announce(j) PROVE EndsWithIds'
    <2>1. snap[j][cur[j]].sent /\ snap' = snap /\ cur' = cur /\ pc' = [pc EXCEPT ![j] = "save"]
      BY <1>4 DEF Announce, EndsWithIds
    <2> QED BY <1>1, <2>1 DEF TypeOK
  \* A job that goes back to its loop, or out of it.
  <1>5. ASSUME NEW j \in Jobs, NEW c, Handled(j, c) PROVE EndsWithIds'
    <2>1. pc'[j] \in {"idle", "polls"}
      BY <1>5 DEF Handled, AtPolls, TypeOK
    <2>2. \A k \in Jobs \ {j} : pc'[k] = pc[k] /\ cur'[k] = cur[k] /\ snap'[k] = snap[k]
      BY <1>5 DEF Handled, TypeOK
    <2> QED BY <1>1, <2>1, <2>2
  <1>6. ASSUME NEW j \in Jobs, RunAborted(j) PROVE EndsWithIds'
    <2>1. pc'[j] = "idle" /\ \A k \in Jobs \ {j} : pc'[k] = pc[k] /\ cur'[k] = cur[k] /\ snap'[k] = snap[k]
      BY <1>6 DEF RunAborted, TypeOK
    <2> QED BY <1>1, <2>1
  <1>7. ASSUME NEW j \in Jobs, EndPolls(j) \/ SaveFails(j) PROVE EndsWithIds'
    BY <1>3, <1>4, <1>5, <1>7 DEF EndPolls, StopRefused, SaveEnded, SaveFails, Failed
  <1>8. ASSUME NEW j \in Jobs, NEW c \in Chats, StopFails(j, c) PROVE EndsWithIds'
    BY <1>5, <1>8 DEF StopFails, Failed
  <1>9. CASE CloseDue
    <2>1. pc'["closer"] = "polls" /\ pc'["sync"] = pc["sync"] /\ cur' = cur /\ snap'["sync"] = snap["sync"]
      BY <1>9 DEF CloseDue, Read, TypeOK
    <2> QED BY <1>1, <2>1
  <1>10. CASE SaveMatch \/ ReadOpenPolls \/ FanOutNewPolls \/ NothingToDo
    <2>1. /\ pc'["sync"] \in {"idle", "react", "polls"} /\ pc'["closer"] = pc["closer"] /\ cur' = cur
          /\ snap'["closer"] = snap["closer"]
      BY <1>10 DEF SaveMatch, ReadOpenPolls, FanOutNewPolls, NothingToDo, Read, AtPolls, TypeOK
    <2> QED BY <1>1, <2>1
  <1>11. ASSUME NEW c \in Chats,
                Reschedule(c) \/ KeepExisting(c) \/ CreateTooLate(c) \/ SkipChat(c) \/ SendFails \/ SaveSent
         PROVE  EndsWithIds'
    BY <1>5, <1>11 DEF Reschedule, KeepExisting, CreateTooLate, SkipChat, SendFails, SaveSent, Failed
  <1>12. ASSUME NEW c \in Chats, CreateDraft(c) \/ SendPoll PROVE EndsWithIds'
    <2>1. /\ pc'["sync"] \in {"send", "sent"} /\ pc'["closer"] = pc["closer"] /\ cur'["closer"] = cur["closer"]
          /\ snap'["closer"] = snap["closer"]
      BY <1>12 DEF CreateDraft, SendPoll, TypeOK
    <2> QED BY <1>1, <2>1
  <1>13. CASE SendPoll \/ SendFails \/ SaveSent
    <2>1. cur["sync"] \in Chats
      BY <1>13 DEF SendPoll, SendFails, SaveSent, IInv, InHand
    <2> QED BY <1>11, <1>12, <1>13, <2>1
  <1> QED
    BY <1>2, <1>6, <1>7, <1>8, <1>9, <1>10, <1>11, <1>12, <1>13
       DEF Next, Sync, Closer, Failures, CreatePolls

LEMMA InitSubscribingInv == SubscribingInit => IInv /\ SubscribingInv
  <1> SUFFICES ASSUME SubscribingInit PROVE IInv /\ SubscribingInv
    OBVIOUS
  <1>1. IInv
    BY InitIInv DEF SubscribingInit
  <1>2. HandlerTypes /\ HandlerInHand
    BY SubscribingConstants DEF SubscribingInit, HandlerTypes, HandlerInHand, NoHandler
  <1>3. EndsWithIds
    BY DEF SubscribingInit, Init, EndsWithIds
  <1>4. OwedAreServed
    BY SubscribingConstants DEF SubscribingInit, OwedAreServed
  <1> QED BY <1>1, <1>2, <1>3, <1>4 DEF SubscribingInv

\* A step is one of the jobs, the failures or the environment, which the handler
\* does not notice, or the fan-out's to whoever is subscribed, or the handler's own.
LEMMA ThreeWriters ==
  ASSUME [SubscribingNext]_allVars
  PROVE  \/ [Next]_vars /\ UNCHANGED <<subscribed, handler>> /\ (Synchronize \/ UNCHANGED <<match, overtaken>>)
         \/ SubscribedChats
         \/ /\ UNCHANGED <<vars, overtaken>>
            /\ FindUnstartedMatches \/ \E c \in Chats : Subscribe(c) \/ AutoSubscribe(c) \/ Unsubscribe(c)
         \/ Create \/ Send \/ SaveWithIds \/ SubscribeFails
  <1>1. CASE UNCHANGED allVars
    BY <1>1 DEF allVars, subscribing, vars
  <1>2. CASE SyncRuns \/ CloserRuns \/ Elsewhere
    <2>1. \/ UNCHANGED <<subscribed, handler>> /\ (Synchronize \/ UNCHANGED overtaken)
          \/ SubscribedChats
      BY <1>2 DEF SyncRuns, CloserRuns, Elsewhere, Synchronize, Settled, TooLate, subscribing
    <2>m. Synchronize \/ SubscribedChats \/ UNCHANGED match
      BY <1>2 DEF SyncRuns, CloserRuns, Elsewhere, Settled, TooLate, Closer, Failures, Environment, ReadOpenPolls,
                  NothingToDo, EndPolls, StopPoll, StopRefused, StopFails, Announce, SaveEnded, SaveFails,
                  RunAborted, CloseDue, Reschedule, KeepExisting, CreateTooLate, CreateDraft, SkipChat, SendPoll,
                  SendFails, SaveSent, Tick, ProviderReports, TelegramCloses, db
    <2>2. Next \/ SubscribedChats
      BY <1>2 DEF SyncRuns, CloserRuns, Elsewhere, Synchronize, Settled, TooLate, Next, Sync, CreatePolls
    <2> QED BY <2>1, <2>2, <2>m
  <1>3. CASE Subscriptions
    <2>1. ASSUME NEW c \in Chats, Subscribe(c) \/ AutoSubscribe(c) \/ Unsubscribe(c) PROVE UNCHANGED <<vars, overtaken>>
      BY <2>1 DEF Subscribe, AutoSubscribe, Unsubscribe, vars
    <2>2. ASSUME FindUnstartedMatches PROVE UNCHANGED <<vars, overtaken>>
      BY <2>2 DEF FindUnstartedMatches, vars
    <2> QED BY <1>3, <2>1, <2>2 DEF Subscriptions
  <1> QED BY <1>1, <1>2, <1>3 DEF SubscribingNext

\* The invariant of the two jobs survives the handler.
LEMMA NextIInvSubscribing == IInv /\ SubscribingInv /\ [SubscribingNext]_allVars => IInv'
  <1> SUFFICES ASSUME IInv, SubscribingInv, [SubscribingNext]_allVars PROVE IInv'
    OBVIOUS
  <1>0. /\ TypeOK /\ SnapshotsAreOpen /\ SentMeansSent /\ StageMatchesTelegram /\ InHand /\ BatchIsRead
        /\ SendsCounted /\ EndedRowMeansEndedPoll /\ HandlerInHand /\ HandlerTypes
    BY DEF IInv, SubscribingInv
  <1> USE <1>0 DEF Jobs, env, telegram, job
  <1>1. CASE [Next]_vars \/ UNCHANGED vars
    BY <1>1, NextIInv
  <1>2. CASE SubscribedChats
    <2>1. /\ UNCHANGED <<env, match, row, telegram, cur, snap, missed, faults>> /\ CreatesPolls /\ fresh' = FALSE
          /\ todo' = [todo EXCEPT !["sync"] = subscribed] /\ pc' = [pc EXCEPT !["sync"] = AtPolls(subscribed)]
      BY <1>2 DEF SubscribedChats
    <2>2. pc'["sync"] \in {"idle", "polls"} /\ pc'["closer"] = pc["closer"] /\ (pc'["sync"] = "idle" => subscribed = {})
      BY <2>1 DEF AtPolls, TypeOK
    <2>3. todo'["sync"] = subscribed /\ todo'["closer"] = todo["closer"]
      BY <2>1 DEF TypeOK
    <2>4. TypeOK'
      BY <2>1 DEF TypeOK, AtPolls, HandlerTypes
    <2>5. StageMatchesTelegram' /\ InHand'
      BY <2>1, <2>2 DEF StageMatchesTelegram, InHand
    <2>6. BatchIsRead'
      BY <2>1, <2>2, <2>3 DEF BatchIsRead, EndsPolls, MovesPolls, ShouldCancelPrediction, CreatesPolls
    <2>7. SnapshotsAreOpen' /\ SentMeansSent' /\ SendsCounted' /\ EndedRowMeansEndedPoll'
      BY <2>1 DEF SnapshotsAreOpen, SentMeansSent, SendsCounted, EndedRowMeansEndedPoll
    <2> QED BY <2>4, <2>5, <2>6, <2>7 DEF IInv
  <1>3. CASE SubscribeFails
    <2>1. UNCHANGED <<env, match, fresh, row, telegram, job>> /\ faults' \in 0 .. MaxFaults
      BY <1>3, PollConstants DEF SubscribeFails, Fault, db, TypeOK
    <2>2. TypeOK'
      BY <2>1 DEF TypeOK
    <2>3. StageMatchesTelegram' /\ InHand' /\ BatchIsRead'
      BY <2>1 DEF StageMatchesTelegram, InHand, BatchIsRead, EndsPolls, MovesPolls, ShouldCancelPrediction
    <2>4. SnapshotsAreOpen' /\ SentMeansSent' /\ SendsCounted' /\ EndedRowMeansEndedPoll'
      BY <2>1 DEF SnapshotsAreOpen, SentMeansSent, SendsCounted, EndedRowMeansEndedPoll
    <2> QED BY <2>2, <2>3, <2>4 DEF IInv
  \* The handler saves an open row, before its poll is sent without ids, afterwards with them.
  <1>4. ASSUME NEW c \in Chats, NEW poll \in Poll, row' = [row EXCEPT ![c] = poll], poll.status = "OPEN",
               poll.sent => tg[c].state # "none", UNCHANGED <<env, match, fresh, telegram, job, faults>>
        PROVE  IInv'
    <2>1. /\ row'[c] = poll /\ poll # NoRow /\ \A d \in Chats : d # c => row'[d] = row[d]
          /\ row' \in [Chats -> Poll \cup {NoRow}]
      BY <1>4, NoRowIsNoPoll DEF TypeOK
    <2>2. TypeOK'
      BY <1>4, <2>1 DEF TypeOK
    <2>3. StageMatchesTelegram' /\ BatchIsRead' /\ SnapshotsAreOpen' /\ SendsCounted'
      BY <1>4 DEF StageMatchesTelegram, BatchIsRead, EndsPolls, MovesPolls, ShouldCancelPrediction,
                  SnapshotsAreOpen, SendsCounted
    <2>4. InHand'
      BY <1>4, <2>1 DEF InHand
    <2>5. SentMeansSent' /\ EndedRowMeansEndedPoll'
      BY <1>4, <2>1 DEF SentMeansSent, EndedRowMeansEndedPoll
    <2> QED BY <2>2, <2>3, <2>4, <2>5 DEF IInv
  <1>5. CASE Create
    <2>1. /\ handler.chat \in Chats /\ handler.poll \in Poll /\ handler.poll.status = "OPEN" /\ ~handler.poll.sent
          /\ UNCHANGED <<env, match, fresh, telegram, job, faults>>
          /\ (row' = [row EXCEPT ![handler.chat] = handler.poll] \/ row' = row)
      BY <1>5 DEF Create, HandlerInHand, SavePoll
    <2>2. CASE row' = row
      BY <2>1, <2>2, <1>1 DEF vars
    <2> QED BY <1>4, <2>1, <2>2
  <1>6. CASE SaveWithIds
    <2> DEFINE poll == handler.poll
    <2>1. /\ handler.chat \in Chats /\ poll \in Poll /\ poll.status = "OPEN" /\ tg[handler.chat].state # "none"
          /\ UNCHANGED <<env, match, fresh, telegram, job, faults>>
          /\ row' = [row EXCEPT ![handler.chat] = [poll EXCEPT !.sent = TRUE]]
      BY <1>6 DEF SaveWithIds, HandlerInHand, SavePoll
    <2> HIDE DEF poll
    <2>2. [poll EXCEPT !.sent = TRUE] \in Poll /\ [poll EXCEPT !.sent = TRUE].status = "OPEN"
      BY <2>1 DEF Poll
    <2> QED BY <1>4, <2>1, <2>2
  <1>7. CASE Send
    <2> DEFINE c == handler.chat
               posted == [state |-> "open",
                          timer |-> IF handler.poll.closesAt >= now + MinLead THEN handler.poll.closesAt ELSE NoTime]
    <2>1. /\ c \in Chats /\ handler.poll \in Poll /\ row[c] # NoRow /\ tg[c].state = "none"
          /\ ~(pc["sync"] = "send" /\ cur["sync"] = c)
          /\ UNCHANGED <<env, match, fresh, row, posts, job, faults>>
          /\ tg' = [tg EXCEPT ![c] = posted] /\ sends' = [sends EXCEPT ![c] = @ + 1]
      BY <1>7 DEF Send, PostPoll, HandlerInHand, db
    <2>2. posted \in TelegramPoll /\ posted.state = "open"
      BY <2>1 DEF TelegramPoll, Poll
    <2> HIDE DEF posted, c
    <2>3. /\ tg'[c].state = "open" /\ sends'[c] = sends[c] + 1
          /\ \A d \in Chats : d # c => tg'[d] = tg[d] /\ sends'[d] = sends[d]
          /\ tg' \in [Chats -> TelegramPoll] /\ sends' \in [Chats -> Nat]
      BY <2>1, <2>2 DEF TypeOK
    <2>4. TypeOK'
      BY <2>1, <2>3 DEF TypeOK
    <2>5. StageMatchesTelegram'
      <3>1. \A j \in Jobs : pc[j] \in {"send", "sent", "announce", "save"} => cur[j] \in Chats
        BY DEF InHand
      <3>2. \A j \in Jobs : (pc[j] \in {"announce", "save"} => cur[j] # c)
        BY <2>1 DEF StageMatchesTelegram
      <3> QED BY <2>1, <2>3, <3>1, <3>2 DEF StageMatchesTelegram
    <2>6. InHand' /\ BatchIsRead' /\ SnapshotsAreOpen'
      BY <2>1 DEF InHand, BatchIsRead, EndsPolls, MovesPolls, ShouldCancelPrediction, SnapshotsAreOpen
    <2>7. SentMeansSent'
      BY <2>1, <2>3 DEF SentMeansSent
    <2>8. SendsCounted'
      BY <2>1, <2>3 DEF SendsCounted
    <2>9. EndedRowMeansEndedPoll'
      BY <2>1, <2>3 DEF EndedRowMeansEndedPoll
    <2> QED BY <2>4, <2>5, <2>6, <2>7, <2>8, <2>9 DEF IInv
  <1> QED BY <1>1, <1>2, <1>3, <1>5, <1>6, <1>7, ThreeWriters

\* What the handler holds stays true through the jobs' steps, and its own.
LEMMA NextHandlerInHand ==
  IInv /\ SubscribingInv /\ [SubscribingNext]_allVars => HandlerTypes' /\ HandlerInHand'
  <1> SUFFICES ASSUME IInv, SubscribingInv, [SubscribingNext]_allVars PROVE HandlerTypes' /\ HandlerInHand'
    OBVIOUS
  <1>0. TypeOK /\ SentMeansSent /\ HandlerTypes /\ HandlerInHand /\ EndsWithIds
    BY DEF IInv, SubscribingInv
  <1> USE <1>0 DEF Jobs
  <1>1. CASE [Next]_vars /\ UNCHANGED <<subscribed, handler>>
    <2>1. HandlerTypes'
      BY <1>1 DEF HandlerTypes
    <2>2. ASSUME NEW c \in Chats, row[c] # NoRow
          PROVE  /\ row'[c] # NoRow
                 /\ (tg[c].state # "none" => tg'[c].state # "none")
                 /\ (tg[c].state = "none" /\ ~(pc["sync"] = "send" /\ cur["sync"] = c) =>
                         tg'[c].state = "none" /\ ~(pc'["sync"] = "send" /\ cur'["sync"] = c))
      BY <1>1, <2>2, RowStep, PostStep
    <2>3. HandlerInHand'
      BY <1>1, <2>2 DEF HandlerInHand
    <2> QED BY <2>1, <2>3
  <1>2. CASE SubscribedChats
    <2>1. UNCHANGED <<row, tg, cur, subscribed, handler>> /\ pc'["sync"] # "send"
      BY <1>2 DEF SubscribedChats, AtPolls, TypeOK, telegram, subscribing
    <2> QED BY <2>1 DEF HandlerInHand, HandlerTypes
  \* The handler gives up, or is done.
  <1>3. ASSUME handler' = NoHandler, subscribed' = subscribed PROVE HandlerTypes' /\ HandlerInHand'
    <2>1. NoHandler.stage = "idle" /\ HandlerTypes'
      BY <1>3 DEF HandlerTypes, NoHandler
    <2> QED BY <1>3, <2>1 DEF HandlerInHand
  \* It goes on, with the same chat and poll.
  <1>4. ASSUME NEW s \in {"send", "sent"}, handler' = [handler EXCEPT !.stage = s], subscribed' = subscribed
        PROVE  HandlerTypes' /\ handler'.stage = s /\ handler'.chat = handler.chat /\ handler'.poll = handler.poll
    BY <1>4 DEF HandlerTypes
  <1>5. CASE Create
    <2> DEFINE c == handler.chat
    <2>1. CASE handler' = NoHandler
      BY <1>3, <1>5, <2>1 DEF Create
    <2>2. CASE handler' # NoHandler
      <3>1. /\ handler.stage = "create" /\ c \in Chats /\ handler.poll \in Poll /\ row[c] = NoRow
            /\ handler' = [handler EXCEPT !.stage = "send"]
            /\ UNCHANGED <<tg, pc, cur, subscribed>> /\ row' = [row EXCEPT ![c] = handler.poll]
        BY <1>5, <2>2 DEF Create, HandlerInHand, SavePoll, telegram, job
      <3>2. tg[c].state = "none" /\ row'[c] # NoRow /\ ~(pc["sync"] = "send" /\ cur["sync"] = c)
        BY <3>1, NoRowIsNoPoll DEF SentMeansSent, TypeOK, IInv, InHand
      <3>3. handler.poll.status = "OPEN" /\ ~handler.poll.sent
        BY <3>1 DEF HandlerInHand
      <3> QED BY <1>4, <3>1, <3>2, <3>3 DEF HandlerInHand
    <2> QED BY <2>1, <2>2
  <1>6. CASE Send
    <2> DEFINE c == handler.chat
               posted == [state |-> "open",
                          timer |-> IF handler.poll.closesAt >= now + MinLead THEN handler.poll.closesAt ELSE NoTime]
    <2>1. /\ handler.stage = "send" /\ c \in Chats /\ row[c] # NoRow /\ handler.poll \in Poll
          /\ handler.poll.status = "OPEN" /\ ~handler.poll.sent
          /\ handler' = [handler EXCEPT !.stage = "sent"] /\ UNCHANGED <<row, subscribed>>
          /\ tg' = [tg EXCEPT ![c] = posted]
      BY <1>6 DEF Send, HandlerInHand, PostPoll, db
    <2>2. tg'[c].state # "none"
      BY <2>1 DEF TypeOK
    <2> HIDE DEF posted
    <2> QED BY <1>4, <2>1, <2>2 DEF HandlerInHand
  <1>7. CASE SaveWithIds \/ SubscribeFails
    BY <1>3, <1>7 DEF SaveWithIds, SubscribeFails
  <1>8. CASE FindUnstartedMatches /\ UNCHANGED vars
    <2>1. CASE Pollable(match)
      <3>1. Draft \in Poll /\ Draft.status = "OPEN" /\ ~Draft.sent
        <4>1. match.at \in Times
          BY <2>1 DEF TypeOK, Match, Pollable
        <4> QED BY <4>1 DEF Draft, Poll, PollStatus
      <3>2. handler' = [handler EXCEPT !.stage = "create", !.poll = Draft] /\ subscribed' = subscribed
            /\ handler.stage = "read"
        BY <1>8, <2>1 DEF FindUnstartedMatches
      <3>3. HandlerTypes' /\ handler'.stage = "create" /\ handler'.chat = handler.chat /\ handler'.poll = Draft
        BY <3>1, <3>2 DEF HandlerTypes
      <3> QED BY <3>1, <3>2, <3>3 DEF HandlerInHand
    <2>2. CASE ~Pollable(match)
      BY <1>3, <1>8, <2>2 DEF FindUnstartedMatches
    <2> QED BY <2>1, <2>2
  <1>9. ASSUME NEW c \in Chats, Subscribe(c) PROVE HandlerTypes' /\ HandlerInHand'
    <2>1. handler' = [chat |-> c, stage |-> "read", poll |-> NoRow] /\ subscribed' = subscribed \cup {c}
      BY <1>9 DEF Subscribe, NoHandler
    <2> QED BY <2>1 DEF HandlerTypes, HandlerInHand
  <1>10. ASSUME NEW c \in Chats, AutoSubscribe(c) \/ Unsubscribe(c), UNCHANGED vars
         PROVE  HandlerTypes' /\ HandlerInHand'
    BY <1>10 DEF AutoSubscribe, Unsubscribe, HandlerTypes, HandlerInHand, vars
  <1> QED BY <1>1, <1>2, <1>5, <1>6, <1>7, <1>8, <1>9, <1>10, ThreeWriters

\* The creators' debt: whoever is owed a poll has it, or is still to be served.
LEMMA NextOwedAreServed ==
  IInv /\ SubscribingInv /\ [SubscribingNext]_allVars => OwedAreServed'
  <1> SUFFICES ASSUME IInv, SubscribingInv, [SubscribingNext]_allVars PROVE OwedAreServed'
    OBVIOUS
  <1>0. TypeOK /\ HandlerTypes /\ HandlerInHand /\ EndsWithIds /\ OwedAreServed /\ BatchIsRead
    BY DEF IInv, SubscribingInv
  <1> USE <1>0 DEF Jobs
  \* Where nobody's debt grows, each creator must still have to do what it had.
  <1>a. ASSUME owed' \subseteq owed, owed' \subseteq subscribed',
               faults' = 0 => faults = 0 /\ \A c \in owed' : (Served(c) => Served(c)')
        PROVE  OwedAreServed'
    BY <1>a DEF OwedAreServed
  <1>b. ASSUME Fault PROVE faults' # 0
    BY <1>b DEF Fault, TypeOK
  \* A step of the jobs under which the fan-out keeps what it owes.
  <1>c. ASSUME [Next]_vars, UNCHANGED <<subscribed, handler, faults>>, owed' \subseteq owed,
               \A c \in owed' : (Owes(c) => Owes(c)' \/ row'[c] # NoRow)
        PROVE  OwedAreServed'
    <2>1. ASSUME NEW c \in owed', row[c] # NoRow PROVE row'[c] # NoRow
      <3>1. c \in Chats
        BY <1>c DEF OwedAreServed, HandlerTypes
      <3> QED BY <1>c, <2>1, <3>1, RowStep
    <2>2. \A c \in owed' : (Served(c) => Served(c)')
      BY <1>c, <2>1 DEF Served, Owes
    <2>3. owed' \subseteq subscribed'
      BY <1>c DEF OwedAreServed
    <2> QED BY <1>a, <1>c, <2>2, <2>3
  <1>1. CASE UNCHANGED allVars
    BY <1>1, <1>c DEF allVars, vars, subscribing, Owes
  <1>2. CASE CloserRuns
    <2>1. /\ [Next]_vars /\ UNCHANGED <<subscribed, handler, owed, match, fresh>>
          /\ (pc["sync"] \notin {"idle"} => pc'["sync"] = pc["sync"]) /\ todo'["sync"] = todo["sync"]
      BY <1>2 DEF CloserRuns, Closer, Next, subscribing, CloseDue, EndPolls, StopPoll, StopRefused, Announce,
                  SaveEnded, Failed, Handled, Read, db, TypeOK
    <2>2. CASE faults' = faults
      BY <1>c, <2>1, <2>2 DEF Owes
    <2>3. CASE faults' # faults
      <3>1. Fault
        BY <1>2, <2>3 DEF CloserRuns, Closer, CloseDue, EndPolls, StopPoll, StopRefused, Announce, SaveEnded
      <3> QED BY <1>a, <1>b, <2>1, <3>1 DEF OwedAreServed
    <2> QED BY <2>2, <2>3
  <1>3. CASE Elsewhere
    <2>1. CASE Environment
      <3>1. /\ [Next]_vars /\ UNCHANGED <<subscribed, handler, owed, match, fresh, pc, todo, faults>>
        BY <1>3, <2>1 DEF Elsewhere, Next, subscribing, Environment, Tick, ProviderReports, TelegramCloses, db, job
      <3> QED BY <1>c, <3>1 DEF Owes
    <2>2. CASE Failures
      <3>1. Fault
        BY <2>2 DEF Failures, SaveFails, RunAborted, StopFails, SkipChat, SendFails
      <3> QED BY <1>a, <1>b, <1>3, <3>1 DEF Elsewhere, subscribing, OwedAreServed
    <2> QED BY <1>3, <2>1, <2>2 DEF Elsewhere
  \* synchronize-matches
  <1>4. CASE Synchronize
    <2>1. /\ pc["sync"] = "idle" /\ pc' = [pc EXCEPT !["sync"] = "react"] /\ now' = now
          /\ UNCHANGED <<row, faults, subscribed, handler>>
          /\ owed' = IF fresh' /\ Pollable(match') THEN owed \cup subscribed ELSE owed
      BY <1>4 DEF Synchronize, SaveMatch, env
    <2>2. pc'["sync"] = "react"
      BY <2>1 DEF TypeOK
    <2>3. \A c \in owed : (Served(c) => Served(c)')
      BY <2>1 DEF Served, Owes
    <2>4. fresh' /\ Pollable(match') => \A c \in subscribed : Served(c)'
      BY <2>2 DEF Served, Owes, Pollable
    <2> QED BY <2>1, <2>3, <2>4 DEF OwedAreServed
  <1>5. CASE SubscribedChats
    <2>1. /\ UNCHANGED <<match, row, faults, subscribed, handler, owed>> /\ match.status = "NOT_STARTED"
          /\ pc' = [pc EXCEPT !["sync"] = AtPolls(subscribed)] /\ todo' = [todo EXCEPT !["sync"] = subscribed]
      BY <1>5 DEF SubscribedChats, CreatesPolls, subscribing
    <2>2. todo'["sync"] = subscribed /\ (subscribed # {} => pc'["sync"] = "polls")
      BY <2>1 DEF TypeOK, AtPolls
    <2> QED BY <2>1, <2>2 DEF OwedAreServed, Served, Owes
  <1>6. CASE Settled
    <2>1. /\ [Next]_vars /\ UNCHANGED <<subscribed, handler, faults>> /\ pc["sync"] = "react"
          /\ ~CreatesPolls /\ owed' = IF Pollable(match) THEN owed ELSE {}
      BY <1>6 DEF Settled, NothingToDo, Next, Sync
    <2>2. \A c \in owed' : ~Owes(c)
      BY <2>1 DEF Owes, Pollable, CreatesPolls, StillAhead
    <2> QED BY <1>c, <2>1, <2>2
  \* One chat of the batch is done, the others are still in it.
  <1>d. ASSUME NEW c \in Chats, Handled("sync", c), [Next]_vars, UNCHANGED <<subscribed, handler, faults, match>>,
               owed' \subseteq owed, c \notin owed' \/ row'[c] # NoRow, pc["sync"] # "react"
        PROVE  OwedAreServed'
    <2>1. todo'["sync"] = todo["sync"] \ {c} /\ (todo["sync"] \ {c} # {} => pc'["sync"] = "polls")
      BY <1>d DEF Handled, AtPolls, TypeOK
    <2>2. \A d \in owed' : (Owes(d) => Owes(d)' \/ row'[d] # NoRow)
      BY <1>d, <2>1 DEF Owes
    <2> QED BY <1>c, <1>d, <2>2
  <1>7. ASSUME NEW c \in Chats, TooLate(c) PROVE OwedAreServed'
    <2>1. Handled("sync", c) /\ [Next]_vars /\ UNCHANGED <<subscribed, handler, faults, match>>
          /\ owed' = owed \ {c} /\ pc["sync"] # "react"
      BY <1>7 DEF TooLate, CreateTooLate, Creating, Failed, Next, Sync, CreatePolls, db
    <2> QED BY <1>d, <2>1
  <1>8. ASSUME NEW c \in Chats, Reschedule(c) \/ KeepExisting(c), UNCHANGED subscribing PROVE OwedAreServed'
    <2>1. /\ Handled("sync", c) /\ [Next]_vars /\ UNCHANGED <<subscribed, handler, owed, faults, match>>
          /\ pc["sync"] # "react"
      BY <1>8 DEF Reschedule, KeepExisting, Creating, Next, Sync, CreatePolls, db, subscribing
    <2>2. row[c] # NoRow \/ (MovesPolls /\ row' = [row EXCEPT ![c] = row'[c]])
      BY <1>8 DEF Reschedule, KeepExisting, SavePoll, TypeOK
    <2>3. CASE row[c] # NoRow
      BY <1>d, <2>1, <2>3, RowStep
    <2>4. CASE MovesPolls
      BY <1>c, <2>1, <2>4 DEF Owes, MovesPolls
    <2> QED BY <2>2, <2>3, <2>4
  <1>9. ASSUME NEW c \in Chats, CreateDraft(c), UNCHANGED subscribing PROVE OwedAreServed'
    <2>1. /\ [Next]_vars /\ UNCHANGED <<subscribed, handler, owed, faults, match, todo>>
          /\ pc["sync"] = "polls" /\ pc'["sync"] = "send"
      BY <1>9 DEF CreateDraft, Creating, Next, Sync, CreatePolls, subscribing, TypeOK
    <2> QED BY <1>c, <2>1 DEF Owes
  <1>10. ASSUME SendPoll, UNCHANGED subscribing PROVE OwedAreServed'
    <2>1. /\ [Next]_vars /\ UNCHANGED <<subscribed, handler, owed, faults, match, todo>>
          /\ pc["sync"] = "send" /\ pc'["sync"] = "sent"
      BY <1>10 DEF SendPoll, Next, Sync, CreatePolls, subscribing, TypeOK, db
    <2> QED BY <1>c, <2>1 DEF Owes
  <1>11. ASSUME SaveSent, UNCHANGED subscribing PROVE OwedAreServed'
    <2>1. /\ Handled("sync", cur["sync"]) /\ [Next]_vars /\ UNCHANGED <<subscribed, handler, owed, faults, match>>
          /\ pc["sync"] = "sent"
      BY <1>11 DEF SaveSent, Next, Sync, CreatePolls, subscribing
    <2>2. cur["sync"] \in Chats /\ row[cur["sync"]] # NoRow
      BY <2>1 DEF IInv, InHand
    <2> QED BY <1>d, <2>1, <2>2, RowStep
  \* Runs that end or move polls owe none.
  <1>12. ASSUME ReadOpenPolls \/ EndPolls("sync"), UNCHANGED subscribing PROVE OwedAreServed'
    <2>1. [Next]_vars /\ UNCHANGED <<subscribed, handler, owed>>
      BY <1>12 DEF Next, Sync, subscribing
    <2>2. \A c \in owed : ~Owes(c)
      BY <1>12 DEF Owes, ReadOpenPolls, EndPolls, StopPoll, StopRefused, Announce, SaveEnded, EndsPolls, MovesPolls,
                   ShouldCancelPrediction
    <2>3. CASE faults' = faults
      BY <1>c, <2>1, <2>2, <2>3
    <2>4. CASE faults' # faults
      <3>1. Fault
        BY <1>12, <2>4 DEF ReadOpenPolls, EndPolls, StopPoll, StopRefused, Announce, SaveEnded
      <3> QED BY <1>a, <1>b, <2>1, <3>1 DEF OwedAreServed
    <2> QED BY <2>3, <2>4
  <1>13. CASE SyncRuns
    BY <1>4, <1>5, <1>6, <1>7, <1>8, <1>9, <1>10, <1>11, <1>12, <1>13 DEF SyncRuns
  \* The handler and the other ways in and out
  <1>e. ASSUME UNCHANGED <<pc, fresh, match, todo, faults>>, \A c \in Chats : (row[c] # NoRow => row'[c] # NoRow),
               subscribed' = subscribed, owed' \subseteq owed,
               \A c \in owed' : (handler.stage \in {"read", "create"} /\ handler.chat = c =>
                                     row'[c] # NoRow \/ (handler'.stage \in {"read", "create"} /\ handler'.chat = c))
        PROVE  OwedAreServed'
    <2>1. owed' \subseteq Chats /\ owed' \subseteq subscribed'
      BY <1>e DEF OwedAreServed, HandlerTypes
    <2>2. \A c \in owed' : (Served(c) => Served(c)')
      BY <1>e, <2>1 DEF Served, Owes
    <2> QED BY <1>a, <1>e, <2>1, <2>2
  <1>14. CASE FindUnstartedMatches
    <2>1. UNCHANGED <<pc, fresh, match, todo, faults, row, subscribed>> /\ owed' \subseteq owed
      BY <1>14 DEF FindUnstartedMatches, vars
    <2>2. \/ handler'.stage = "create" /\ handler'.chat = handler.chat
          \/ handler.chat \notin owed'
      BY <1>14 DEF FindUnstartedMatches, HandlerTypes
    <2> QED BY <1>e, <2>1, <2>2
  <1>15. CASE Create
    <2>1. /\ UNCHANGED <<pc, fresh, match, todo, faults, subscribed>> /\ owed' \subseteq owed
          /\ handler.chat \in Chats /\ handler.poll \in Poll
          /\ \/ row' = [row EXCEPT ![handler.chat] = handler.poll]
             \/ row' = row /\ handler.chat \notin owed'
      BY <1>15 DEF Create, SavePoll, job, HandlerInHand
    <2>2. \A c \in Chats : (row[c] # NoRow => row'[c] # NoRow)
      BY <2>1, NoRowIsNoPoll DEF TypeOK
    <2>3. row'[handler.chat] # NoRow \/ handler.chat \notin owed'
      BY <2>1, NoRowIsNoPoll DEF TypeOK
    <2> QED BY <1>e, <2>1, <2>2, <2>3
  <1>16. CASE Send \/ SaveWithIds
    <2>1. /\ UNCHANGED <<pc, fresh, match, todo, faults, subscribed, owed>> /\ handler.stage \in {"send", "sent"}
          /\ handler.chat \in Chats /\ row[handler.chat] # NoRow
          /\ (row' = [row EXCEPT ![handler.chat] = [handler.poll EXCEPT !.sent = TRUE]] \/ row' = row)
      BY <1>16 DEF Send, SaveWithIds, SavePoll, job, db, HandlerInHand
    <2>2. [handler.poll EXCEPT !.sent = TRUE] \in Poll
      <3> DEFINE poll == handler.poll
      <3>1. poll \in Poll
        BY <2>1 DEF HandlerInHand
      <3> HIDE DEF poll
      <3>2. [poll EXCEPT !.sent = TRUE] \in Poll
        BY <3>1 DEF Poll
      <3> QED BY <3>2 DEF poll
    <2>3. \A c \in Chats : (row[c] # NoRow => row'[c] # NoRow)
      BY <2>1, <2>2, NoRowIsNoPoll DEF TypeOK
    <2> QED BY <1>e, <2>1, <2>3
  <1>17. CASE SubscribeFails
    BY <1>17, <1>a, <1>b DEF SubscribeFails, OwedAreServed
  <1>18. ASSUME NEW c \in Chats, Subscribe(c) PROVE OwedAreServed'
    <2>1. /\ handler.stage = "idle" /\ handler' = [chat |-> c, stage |-> "read", poll |-> NoRow]
          /\ subscribed' = subscribed \cup {c} /\ (owed' = owed \/ owed' = owed \cup {c})
          /\ UNCHANGED <<pc, fresh, match, todo, faults, row>>
      BY <1>18 DEF Subscribe, NoHandler, vars
    <2>2. Served(c)' /\ \A d \in owed : (Served(d) => Served(d)')
      BY <2>1 DEF Served, Owes
    <2> QED BY <2>1, <2>2 DEF OwedAreServed
  <1>19. ASSUME NEW c \in Chats, AutoSubscribe(c) \/ Unsubscribe(c) PROVE OwedAreServed'
    <2>1. UNCHANGED <<pc, fresh, match, todo, faults, row, handler>> /\ owed' \subseteq owed
      BY <1>19 DEF AutoSubscribe, Unsubscribe, vars
    <2>2. owed' \subseteq subscribed'
      BY <1>19 DEF AutoSubscribe, Unsubscribe, OwedAreServed
    <2>3. \A d \in owed' : (Served(d) => Served(d)')
      BY <2>1 DEF Served, Owes
    <2> QED BY <1>a, <2>1, <2>2, <2>3
  <1> QED
    BY <1>1, <1>2, <1>3, <1>13, <1>14, <1>15, <1>16, <1>17, <1>18, <1>19 DEF SubscribingNext, Subscriptions

LEMMA NextSubscribingInv == IInv /\ SubscribingInv /\ [SubscribingNext]_allVars => SubscribingInv'
  <1> SUFFICES ASSUME IInv, SubscribingInv, [SubscribingNext]_allVars PROVE SubscribingInv'
    OBVIOUS
  <1>0. TypeOK /\ EndsWithIds
    BY DEF IInv, SubscribingInv
  <1>1. EndsWithIds'
    <2>1. CASE [Next]_vars
      BY <1>0, <2>1, NextEndsWithIds
    <2>2. CASE SubscribedChats
      <3>1. UNCHANGED <<cur, snap>> /\ pc'["sync"] \in {"idle", "polls"} /\ pc'["closer"] = pc["closer"]
        BY <1>0, <2>2 DEF SubscribedChats, AtPolls, TypeOK, Jobs
      <3> QED BY <1>0, <3>1 DEF EndsWithIds, Jobs
    <2>3. CASE UNCHANGED vars \/ Create \/ Send \/ SaveWithIds \/ SubscribeFails
      BY <1>0, <2>3 DEF vars, Create, Send, SaveWithIds, SubscribeFails, job, EndsWithIds
    <2> QED BY <2>1, <2>2, <2>3, ThreeWriters
  <1> QED BY <1>1, NextHandlerInHand, NextOwedAreServed DEF SubscribingInv

LEMMA SubscribingInvHolds == SubscribingSpec => [](IInv /\ SubscribingInv)
  <1> DEFINE Inv == IInv /\ SubscribingInv
  <1>1. SubscribingInit => Inv
    BY InitSubscribingInv
  <1>2. Inv /\ [SubscribingNext]_allVars => Inv'
    BY NextIInvSubscribing, NextSubscribingInv
  <1> HIDE DEF Inv
  <1>3. SubscribingSpec => []Inv
    BY <1>1, <1>2, PTL DEF SubscribingSpec
  <1> QED BY <1>3 DEF Inv

-----------------------------------------------------------------------------
(* The reaction to a live or void match, with the handler creating meanwhile.   *)
(* The draft it has stored stays as it is until its ids are there: no job ends  *)
(* or posts a poll read without them.                                        *)

Untouched(c) ==
    /\ row[c] # NoRow /\ row[c].status = "OPEN" /\ ~row[c].sent
    /\ \A j \in Jobs : (snap[j][c] # NoRow => ~snap[j][c].sent)
    /\ ~(pc["sync"] \in {"send", "sent"} /\ cur["sync"] = c)

OvertakenInv ==
    /\ overtaken \subseteq Chats
    /\ LiveInv(overtaken)
    /\ (handler.stage = "create" => match.status = "NOT_STARTED" \/ handler.chat \in overtaken)
    /\ (handler.stage \in {"send", "sent"} => Untouched(handler.chat))

\* The jobs leave the handler's draft alone.
LEMMA DraftStep ==
  ASSUME IInv, EndsWithIds, PostsAreAhead, [Next]_vars, NEW c \in Chats, Untouched(c)
  PROVE  Untouched(c)'
  <1>0. TypeOK /\ InHand /\ BatchIsRead /\ SnapshotsAreOpen
    BY DEF IInv
  <1> USE <1>0 DEF Jobs, env, db, telegram, job
  <1> DEFINE Row == row'[c] # NoRow /\ row'[c].status = "OPEN" /\ ~row'[c].sent
             Snaps == \A j \in Jobs : (snap'[j][c] # NoRow => ~snap'[j][c].sent)
             Posting == pc'["sync"] \in {"send", "sent"} /\ cur'["sync"] = c
  <1>u. Row /\ Snaps /\ ~Posting => Untouched(c)'
    BY DEF Untouched
  <1>r. row' = row => Row
    BY DEF Untouched
  <1>s. ASSUME NEW j \in Jobs, NEW d, \/ snap' = snap
                                      \/ snap' = [snap EXCEPT ![j][d] = NoRow]
                                      \/ snap' = [snap EXCEPT ![j] = NothingRead]
        PROVE  Snaps
    BY <1>s DEF Untouched, TypeOK, NothingRead
  <1>p. (pc'["sync"] \in {"send", "sent"} /\ cur'["sync"] = c =>
            pc["sync"] \in {"send", "sent"} /\ cur["sync"] = c) => ~Posting
    BY DEF Untouched
  \* A job that saves holds another chat's poll.
  <1>o. ASSUME NEW j \in Jobs, pc[j] \in {"save", "sent"} PROVE cur[j] \in Chats \ {c}
    <2>1. CASE pc[j] = "save"
      BY <1>o, <2>1 DEF EndsWithIds, InHand, Untouched
    <2>2. CASE pc[j] = "sent"
      BY <1>o, <2>2 DEF PostsAreAhead, InHand, Untouched
    <2> QED BY <1>o, <2>1, <2>2
  <1>w. ASSUME NEW j \in Jobs, pc[j] \in {"save", "sent"}, NEW poll, row' = [row EXCEPT ![cur[j]] = poll] PROVE Row
    BY <1>o, <1>w DEF Untouched, TypeOK
  <1>h. ASSUME NEW j \in Jobs, NEW d, Handled(j, d) PROVE Snaps /\ ~Posting
    <2>1. Snaps
      BY <1>h, <1>s DEF Handled
    <2>2. pc'["sync"] \in {"idle", "polls"} \/ (j = "closer" /\ pc'["sync"] = pc["sync"] /\ cur'["sync"] = cur["sync"])
      BY <1>h DEF Handled, AtPolls, TypeOK
    <2> QED BY <1>p, <2>1, <2>2
  <1> HIDE DEF Row, Snaps, Posting
  <1>1. CASE UNCHANGED vars \/ Environment
    <2>1. UNCHANGED <<row, snap, pc, cur>>
      BY <1>1 DEF vars, Environment, Tick, ProviderReports, TelegramCloses
    <2> QED BY <2>1, <1>u, <1>r, <1>s, <1>p
  <1>2. ASSUME NEW j \in Jobs, NEW d \in Chats, StopPoll(j, d) PROVE Untouched(c)'
    <2>1. UNCHANGED <<row, snap>> /\ (pc'["sync"] \in {"send", "sent"} => pc'["sync"] = pc["sync"] /\ cur'["sync"] = cur["sync"])
      BY <1>2 DEF StopPoll, TypeOK
    <2> QED BY <2>1, <1>u, <1>r, <1>s, <1>p
  <1>3. ASSUME NEW j \in Jobs, NEW d \in Chats, StopRefused(j, d) \/ StopFails(j, d) PROVE Untouched(c)'
    BY <1>3, <1>u, <1>r, <1>h DEF StopRefused, StopFails, Failed
  <1>4. ASSUME NEW j \in Jobs, Announce(j) PROVE Untouched(c)'
    <2>1. UNCHANGED <<snap, cur>> /\ pc' = [pc EXCEPT ![j] = "save"] /\ cur[j] \in Chats
          /\ (row' = row \/ row' = [row EXCEPT ![cur[j]].stream = TRUE])
      BY <1>4 DEF Announce, InHand
    <2>2. row'[c] = row[c] \/ row'[c] = [row[c] EXCEPT !.stream = TRUE]
      BY <2>1 DEF TypeOK
    <2>3. row[c] \in Poll
      BY DEF Untouched, TypeOK
    <2>4. \A r \in Poll : /\ [r EXCEPT !.stream = TRUE] \in Poll
                          /\ [r EXCEPT !.stream = TRUE].status = r.status
                          /\ [r EXCEPT !.stream = TRUE].sent = r.sent
      BY DEF Poll
    <2>5. Row
      BY <2>2, <2>3, <2>4, NoRowIsNoPoll DEF Row, Untouched
    <2>6. pc'["sync"] \in {"send", "sent"} => pc'["sync"] = pc["sync"]
      BY <2>1 DEF TypeOK
    <2> QED BY <2>1, <2>5, <2>6, <1>u, <1>s, <1>p
  <1>5. ASSUME NEW j \in Jobs, SaveEnded(j) \/ SaveFails(j) \/ (j = "sync" /\ SaveSent) PROVE Untouched(c)'
    <2>1. pc[j] \in {"save", "sent"} /\ Handled(j, cur[j]) /\ (row' = row \/ row' = [row EXCEPT ![cur[j]] = Saved(j)])
      BY <1>5 DEF SaveEnded, SaveFails, SaveSent, SavePoll, Failed
    <2> QED BY <2>1, <1>u, <1>r, <1>w, <1>h
  <1>6. ASSUME NEW j \in Jobs, RunAborted(j) PROVE Untouched(c)'
    <2>1. row' = row /\ Snaps /\ (pc'["sync"] \in {"send", "sent"} => pc'["sync"] = pc["sync"] /\ cur'["sync"] = cur["sync"])
      BY <1>6, <1>s DEF RunAborted, TypeOK
    <2> QED BY <2>1, <1>u, <1>r, <1>p
  \* A snapshot taken now is of the draft as it stands.
  <1>7. ASSUME NEW j \in Jobs, NEW chats, Read(j, chats) PROVE Snaps
    BY <1>7 DEF Read, Snaps, Untouched, TypeOK
  <1>8. CASE CloseDue
    <2>1. row' = row /\ Snaps /\ pc'["sync"] = pc["sync"] /\ cur' = cur
      BY <1>8, <1>7 DEF CloseDue, TypeOK
    <2> QED BY <2>1, <1>u, <1>r, <1>p
  <1>9. CASE SaveMatch \/ ReadOpenPolls \/ FanOutNewPolls \/ NothingToDo
    <2>1. row' = row /\ Snaps /\ pc'["sync"] \in {"react", "idle", "polls"}
      BY <1>9, <1>7, <1>s DEF SaveMatch, ReadOpenPolls, FanOutNewPolls, NothingToDo, AtPolls, TypeOK
    <2> QED BY <2>1, <1>u, <1>r, <1>p
  <1>10. ASSUME NEW d \in Chats, Reschedule(d) PROVE Untouched(c)'
    <2> DEFINE poll == snap["sync"][d]
               moved == [poll EXCEPT !.closesAt = match.at]
    <2>1. Handled("sync", d) /\ MovesPolls /\ d \in todo["sync"] /\ row' = [row EXCEPT ![d] = moved]
      BY <1>10 DEF Reschedule, SavePoll
    <2>2. poll \in Poll /\ poll.status = "OPEN"
      BY <2>1 DEF BatchIsRead, SnapshotsAreOpen, TypeOK
    <2>3. d = c => ~poll.sent
      BY <2>1 DEF BatchIsRead, Untouched
    <2> HIDE DEF poll
    <2>4. moved \in Poll /\ moved.status = "OPEN" /\ moved.sent = poll.sent
      BY <2>1, <2>2 DEF Poll, Times, NoTime, TypeOK, Match, MovesPolls
    <2> HIDE DEF moved
    <2>5. Row
      BY <2>1, <2>3, <2>4, NoRowIsNoPoll DEF Row, Untouched, TypeOK
    <2> QED BY <2>1, <2>5, <1>u, <1>h
  <1>11. ASSUME NEW d \in Chats, KeepExisting(d) \/ CreateTooLate(d) \/ SkipChat(d) PROVE Untouched(c)'
    BY <1>11, <1>u, <1>r, <1>h DEF KeepExisting, CreateTooLate, SkipChat, Failed
  <1>12. ASSUME NEW d \in Chats, CreateDraft(d) PROVE Untouched(c)'
    <2>1. row[d] = NoRow /\ row' = [row EXCEPT ![d] = Draft] /\ snap' = [snap EXCEPT !["sync"][d] = Draft]
          /\ cur' = [cur EXCEPT !["sync"] = d]
      BY <1>12 DEF CreateDraft, SavePoll
    <2>2. d # c
      BY <2>1 DEF Untouched
    <2> QED BY <2>1, <2>2, <1>u DEF Row, Snaps, Posting, Untouched, TypeOK
  <1>13. CASE SendPoll
    <2>1. UNCHANGED <<row, snap, cur>> /\ pc["sync"] = "send"
      BY <1>13 DEF SendPoll
    <2> QED BY <2>1, <1>u, <1>r, <1>s, <1>p
  <1>14. CASE SendFails
    BY <1>14, <1>u, <1>r, <1>h DEF SendFails, Failed
  <1> QED
    BY <1>1, <1>2, <1>3, <1>4, <1>5, <1>6, <1>8, <1>9, <1>10, <1>11, <1>12, <1>13, <1>14
       DEF Next, Sync, Closer, Failures, EndPolls, CreatePolls

LEMMA InitOvertakenInv == SubscribingInit => OvertakenInv
  BY InitLiveInv DEF SubscribingInit, OvertakenInv, NoHandler

\* What can open while the match is live is the draft of a handler overtaken by it.
LEMMA NextOvertakenInv ==
  ASSUME IInv, SubscribingInv, OvertakenInv, [SubscribingNext]_allVars
  PROVE  OvertakenInv'
  <1>0. TypeOK /\ HandlerTypes /\ HandlerInHand /\ EndsWithIds /\ PostsAreAhead /\ LeavesOnly(overtaken)
    BY DEF IInv, SubscribingInv, OvertakenInv, LiveInv
  <1> USE <1>0 DEF Jobs, env, db, telegram, job
  <1>l. ASSUME [Next]_vars, overtaken' = overtaken PROVE LiveInv(overtaken)'
    <2>1. PICK S : S = overtaken
      OBVIOUS
    <2>2. LiveInv(S)
      BY <2>1 DEF OvertakenInv, LiveInv, LeavesOnly
    <2>3. LiveInv(S)'
      BY <1>l, <2>2, NextLiveInv
    <2>4. S = overtaken'
      BY <1>l, <2>1
    <2> HIDE <2>1
    <2> QED BY <2>3, <2>4 DEF LiveInv, LeavesOnly
  <1>d. ASSUME [Next]_vars, handler' = handler, handler.stage \in {"send", "sent"} PROVE Untouched(handler.chat)'
    <2>1. PICK c \in Chats : c = handler.chat
      BY <1>d DEF HandlerInHand
    <2>2. Untouched(c)
      BY <1>d, <2>1 DEF OvertakenInv, Untouched
    <2>3. Untouched(c)'
      BY <1>d, <2>2, DraftStep
    <2>4. c = handler'.chat
      BY <1>d, <2>1
    <2> HIDE <2>1
    <2> QED BY <2>3, <2>4 DEF Untouched
  <1>1. ASSUME [Next]_vars, UNCHANGED <<handler, match, overtaken>> PROVE OvertakenInv'
    BY <1>1, <1>l, <1>d DEF OvertakenInv
  <1>2. ASSUME Synchronize PROVE OvertakenInv'
    <2>1. /\ [Next]_vars /\ handler' = handler /\ pc' = [pc EXCEPT !["sync"] = "react"]
          /\ overtaken' = IF handler.stage = "create" THEN {handler.chat} ELSE {}
      BY <1>2 DEF Synchronize, SaveMatch, Next, Sync
    <2>2. overtaken' \subseteq Chats /\ (handler.stage = "create" => handler.chat \in overtaken')
      BY <2>1 DEF HandlerInHand
    <2>3. LiveInv(overtaken)'
      <3>1. pc'["sync"] = "react" /\ pc'["closer"] = pc["closer"]
        BY <2>1 DEF TypeOK
      <3> QED BY <3>1 DEF LiveInv, LeavesOnly, PostsAreAhead
    <2> QED BY <2>1, <2>2, <2>3, <1>d DEF OvertakenInv
  <1>3. CASE SubscribedChats
    <2>1. /\ UNCHANGED <<match, row, snap, cur, handler, overtaken>> /\ match.status = "NOT_STARTED"
          /\ pc'["sync"] \in {"idle", "polls"} /\ pc'["closer"] = pc["closer"]
      BY <1>3 DEF SubscribedChats, CreatesPolls, AtPolls, subscribing, TypeOK
    <2>2. LiveInv(overtaken)'
      BY <2>1 DEF LiveInv, LeavesOnly, PostsAreAhead, Live, ShouldCancelPrediction
    <2> QED BY <2>1, <2>2 DEF OvertakenInv, Untouched
  \* The handler's own steps: the jobs stand still.
  <1>s. ASSUME UNCHANGED <<pc, match, todo, missed, overtaken>>,
               Live /\ pc["sync"] # "react" => OpenPollsForMatch' \subseteq OpenPollsForMatch \cup overtaken
        PROVE  LiveInv(overtaken)'
    BY <1>s DEF LiveInv, LeavesOnly, PostsAreAhead, Live, ShouldCancelPrediction
  <1>4. CASE UNCHANGED <<vars, overtaken>> /\ (FindUnstartedMatches \/ \E c \in Chats : Subscribe(c) \/ AutoSubscribe(c) \/ Unsubscribe(c))
    <2>1. UNCHANGED <<pc, match, todo, missed, overtaken, row, snap, cur>>
      BY <1>4 DEF vars
    <2>2. LiveInv(overtaken)'
      BY <2>1, <1>s DEF OpenPollsForMatch
    <2>3. \/ handler' = handler
          \/ handler'.stage \in {"idle", "read"}
          \/ handler'.stage = "create" /\ match.status = "NOT_STARTED"
      <3>1. ASSUME FindUnstartedMatches
            PROVE  handler'.stage = "idle" \/ (handler'.stage = "create" /\ match.status = "NOT_STARTED")
        <4>1. CASE Pollable(match)
          <5>1. handler' = [handler EXCEPT !.stage = "create", !.poll = Draft] /\ match.status = "NOT_STARTED"
            BY <3>1, <4>1 DEF FindUnstartedMatches, Pollable
          <5> QED BY <5>1 DEF HandlerTypes
        <4>2. CASE ~Pollable(match)
          BY <3>1, <4>2 DEF FindUnstartedMatches, NoHandler
        <4> QED BY <4>1, <4>2
      <3>2. ASSUME NEW c \in Chats, Subscribe(c) PROVE handler'.stage = "read"
        BY <3>2 DEF Subscribe, NoHandler
      <3>3. ASSUME NEW c \in Chats, AutoSubscribe(c) \/ Unsubscribe(c) PROVE handler' = handler
        BY <3>3 DEF AutoSubscribe, Unsubscribe
      <3> QED BY <1>4, <3>1, <3>2, <3>3
    <2> QED BY <2>1, <2>2, <2>3 DEF OvertakenInv, Untouched
  <1>5. CASE Create
    <2> DEFINE poll == handler.poll
    <2>0. PICK c \in Chats : c = handler.chat
      BY <1>5 DEF Create, HandlerInHand
    <2>1. /\ UNCHANGED <<pc, cur, snap, match, todo, missed, overtaken>> /\ c \in Chats
          /\ poll \in Poll /\ poll.status = "OPEN" /\ ~poll.sent
          /\ handler.stage = "create"
          /\ \/ row' = row /\ handler' = NoHandler
             \/ row[c] = NoRow /\ row' = [row EXCEPT ![c] = poll] /\ handler' = [handler EXCEPT !.stage = "send"]
      BY <1>5, <2>0 DEF Create, HandlerInHand, SavePoll
    <2>2. match.status = "NOT_STARTED" \/ c \in overtaken
      BY <2>0, <2>1 DEF OvertakenInv
    <2>3. OpenPollsForMatch' \subseteq OpenPollsForMatch \cup {c}
      BY <2>1 DEF OpenPollsForMatch, TypeOK
    <2>4. LiveInv(overtaken)'
      BY <2>1, <2>2, <2>3, <1>s DEF Live, ShouldCancelPrediction
    <2>5. handler'.stage = "idle" \/ (handler'.stage = "send" /\ handler'.chat = c)
      BY <2>0, <2>1 DEF NoHandler, HandlerTypes
    <2>6. handler'.stage = "send" => Untouched(c)'
      <3>1. CASE handler' = NoHandler
        BY <3>1 DEF NoHandler
      <3>2. CASE row[c] = NoRow /\ row' = [row EXCEPT ![c] = poll]
        <4>1. row'[c] = poll /\ poll # NoRow
          BY <2>1, <3>2, NoRowIsNoPoll DEF TypeOK
        <4>2. \A j \in Jobs : (snap[j][c] # NoRow => ~snap[j][c].sent)
          BY <2>1, <3>2 DEF IInv, SentMeansSent
        <4>3. ~(pc["sync"] \in {"send", "sent"} /\ cur["sync"] = c)
          BY <2>1, <3>2 DEF IInv, InHand
        <4>4. UNCHANGED <<pc, cur, snap>> /\ poll.status = "OPEN" /\ ~poll.sent
          BY <2>1
        <4> HIDE DEF poll
        <4>5. /\ row'[c] # NoRow /\ row'[c].status = "OPEN" /\ ~row'[c].sent
              /\ \A j \in Jobs : (snap'[j][c] # NoRow => ~snap'[j][c].sent)
              /\ ~(pc'["sync"] \in {"send", "sent"} /\ cur'["sync"] = c)
          BY <4>1, <4>2, <4>3, <4>4
        <4> QED BY <4>5 DEF Untouched
      <3> QED BY <2>1, <3>1, <3>2
    <2> HIDE DEF poll
    <2>7. handler'.stage \in {"send", "sent"} => Untouched(handler.chat)'
      BY <2>5, <2>6 DEF Untouched
    <2> QED BY <2>1, <2>4, <2>5, <2>7 DEF OvertakenInv
  <1>6. CASE Send
    <2>1. /\ UNCHANGED <<pc, cur, snap, match, todo, missed, overtaken, row>> /\ handler.stage = "send"
          /\ handler' = [handler EXCEPT !.stage = "sent"]
      BY <1>6 DEF Send
    <2>2. handler'.stage = "sent" /\ handler'.chat = handler.chat
      BY <2>1 DEF HandlerTypes
    <2>3. LiveInv(overtaken)'
      BY <2>1, <1>s DEF OpenPollsForMatch
    <2> QED BY <2>1, <2>2, <2>3 DEF OvertakenInv, Untouched
  <1>7. CASE SaveWithIds \/ SubscribeFails
    <2>1. /\ UNCHANGED <<pc, match, todo, missed, overtaken>> /\ handler' = NoHandler
          /\ \/ row' = row
             \/ handler.stage = "sent" /\ row' = [row EXCEPT ![handler.chat] = [handler.poll EXCEPT !.sent = TRUE]]
      BY <1>7 DEF SaveWithIds, SubscribeFails, SavePoll
    <2>2. OpenPollsForMatch' \subseteq OpenPollsForMatch
      BY <2>1 DEF OpenPollsForMatch, OvertakenInv, Untouched, TypeOK
    <2>3. LiveInv(overtaken)'
      BY <2>1, <2>2, <1>s
    <2> QED BY <2>1, <2>3 DEF OvertakenInv, NoHandler
  <1> QED BY <1>1, <1>2, <1>3, <1>4, <1>5, <1>6, <1>7, ThreeWriters

LEMMA OvertakenInvHolds == SubscribingSpec => [](IInv /\ SubscribingInv /\ OvertakenInv)
  <1> DEFINE Inv == IInv /\ SubscribingInv /\ OvertakenInv
  <1>1. SubscribingInit => Inv
    BY InitSubscribingInv, InitOvertakenInv
  <1>2. Inv /\ [SubscribingNext]_allVars => Inv'
    BY NextIInvSubscribing, NextSubscribingInv, NextOvertakenInv
  <1> HIDE DEF Inv
  <1>3. SubscribingSpec => []Inv
    BY <1>1, <1>2, PTL DEF SubscribingSpec
  <1> QED BY <1>3 DEF Inv

\* Whoever creates polls meanwhile: after the reaction to a match that is live or
\* called off, the polls still open are those the run reports or has yet to handle,
\* and the one whose handler had read the match before the run stored it.
THEOREM LiveMatchIsClosed == SubscribingSpec => []LiveMatchLeavesNoOpenPoll
  <1>1. OvertakenInv => LiveMatchLeavesNoOpenPoll
    BY DEF OvertakenInv, LiveInv, LeavesOnly, Live, LiveMatchLeavesNoOpenPoll, OpenPollsForMatch
  <1> QED BY <1>1, OvertakenInvHolds, PTL

\* With the handler of a subscription among the writers, too, every state is well typed.
THEOREM SubscribingTypeCorrect == SubscribingSpec => []SubscribingTypeOK
  <1>1. IInv /\ SubscribingInv /\ OvertakenInv => SubscribingTypeOK
    BY DEF IInv, SubscribingInv, SubscribingTypeOK, HandlerTypes, OwedAreServed, OvertakenInv
  <1> QED BY <1>1, OvertakenInvHolds, PTL

\* Three writers without a common lock still give a chat one poll, and no row is
\* ended before it (Create's insert is refused where a row is, prediction.go).
THEOREM ThreeWritersOnePoll == SubscribingSpec => [](OnePollPerChat /\ EndedRowMeansEndedPoll)
  <1>1. IInv => OnePollPerChat /\ EndedRowMeansEndedPoll
    <2> SUFFICES ASSUME IInv, NEW c \in Chats PROVE sends[c] <= 1 /\ EndedRowMeansEndedPoll
      BY DEF OnePollPerChat, IInv
    <2> QED BY DEF IInv, SendsCounted
  <1> QED BY <1>1, SubscribingInvHolds, PTL

\* A chat that subscribes while the match is synchronized is passed over by neither
\* the fan-out nor the handler of its button.
THEOREM NobodyMissesThePoll == SubscribingSpec => []NobodyIsPassedOver
  <1>1. IInv /\ SubscribingInv => NobodyIsPassedOver
    BY DEF SubscribingInv, OwedAreServed, Served, Owes, NobodyIsPassedOver, NoHandler
  <1> QED BY <1>1, SubscribingInvHolds, PTL

\* Only Reschedule, saving what it read before the ids were there, takes them away.
THEOREM IdsSurviveTheJobs == SubscribingSpec => IdsLostOnlyToReschedule
  <1>1. ASSUME IInv, SubscribingInv, SubscribingNext, NEW c \in Chats, row[c] # NoRow, row[c].sent, ~row'[c].sent
        PROVE  MovesPolls /\ ~snap["sync"][c].sent /\ c \in todo["sync"]
    <2>1. CASE [Next]_vars
      BY <1>1, <2>1, RowStep DEF SubscribingInv
    <2>2. CASE SubscribedChats \/ UNCHANGED vars \/ Send \/ SubscribeFails
      BY <1>1, <2>2 DEF SubscribedChats, vars, Send, SubscribeFails, db
    <2>3. CASE Create
      BY <1>1, <2>3 DEF Create, SavePoll, IInv, TypeOK
    <2>4. CASE SaveWithIds
      <3> DEFINE poll == handler.poll
      <3>1. row' = [row EXCEPT ![handler.chat] = [poll EXCEPT !.sent = TRUE]] /\ poll \in Poll
        BY <1>1, <2>4 DEF SaveWithIds, SavePoll, SubscribingInv, HandlerInHand
      <3> HIDE DEF poll
      <3>2. [poll EXCEPT !.sent = TRUE].sent
        BY <3>1 DEF Poll
      <3> QED BY <1>1, <3>1, <3>2 DEF IInv, TypeOK
    <2> QED BY <1>1, <2>1, <2>2, <2>3, <2>4, ThreeWriters
  <1>2. IInv /\ SubscribingInv /\ [SubscribingNext]_allVars =>
            [\A c \in Chats : row[c] # NoRow /\ row[c].sent /\ ~row'[c].sent =>
                MovesPolls /\ ~snap["sync"][c].sent /\ c \in todo["sync"]]_allVars
    BY <1>1
  <1> QED BY <1>2, SubscribingInvHolds, PTL DEF SubscribingSpec, IdsLostOnlyToReschedule
=============================================================================
