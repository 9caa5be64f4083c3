------------------------------ MODULE Subscribing ------------------------------
(***************************************************************************)
(* PredictionPolls with a third writer: a chat that subscribes while the     *)
(* match is synchronized. The handler of the button stores the subscription,  *)
(* reads the matches still to come and creates their polls itself             *)
(* (subscribe, telegram/subscription_flow.go), under no lock; the fan-out of  *)
(* synchronize-matches goes to whoever is subscribed when it starts. A chat    *)
(* joined by auto-subscription gets polls from the fan-out alone.             *)
(*                                                                         *)
(* Left out: that the event must still be open for subscription, and the      *)
(* second signature of an unsubscription (ChatAccess). One subscription is     *)
(* handled at a time.                                                       *)
(***************************************************************************)
EXTENDS PredictionPolls

CONSTANT Late   \* the chats not subscribed at first

ASSUME SubscribingConstants == Late \subseteq Chats

VARIABLES
    subscribed, \* event_subscription.active
    handler,    \* the handler of a subscription: its chat, its stage and the poll it creates
    owed,       \* the chats somebody has undertaken to create the poll for
    overtaken   \* the chat whose handler was about to create its poll when the match was stored again

subscribing == <<subscribed, handler, owed, overtaken>>
allVars == <<vars, subscribing>>

NoHandler == [chat |-> NoChat, stage |-> "idle", poll |-> NoRow]

SubscribingTypeOK ==
    /\ TypeOK
    /\ subscribed \subseteq Chats /\ owed \subseteq Chats /\ overtaken \subseteq Chats
    /\ handler \in [chat : Chats \cup {NoChat}, stage : {"idle", "read", "create", "send", "sent"},
                    poll : Poll \cup {NoRow}]

SubscribingInit ==
    /\ Init
    /\ subscribed = Chats \ Late
    /\ handler = NoHandler
    /\ owed = {} /\ overtaken = {}

-----------------------------------------------------------------------------
(* The handler of the subscribe button *)

\* A match that Create accepts: opponents known, start ahead.
Pollable(m) == m.status = "NOT_STARTED" /\ m.known /\ m.at # NoTime /\ m.at > now

Subscribe(c) ==
    /\ handler.stage = "idle"
    /\ c \notin subscribed
    /\ subscribed' = subscribed \cup {c}
    /\ handler' = [NoHandler EXCEPT !.chat = c, !.stage = "read"]
    /\ owed' = IF Pollable(match) THEN owed \cup {c} ELSE owed
    /\ UNCHANGED <<vars, overtaken>>

\* Mutant of FindUnstartedMatches: the matches already known are left to the jobs.
FindUnstartedMatches_none ==
    /\ handler.stage = "read"
    /\ handler' = NoHandler
    /\ UNCHANGED <<vars, subscribed, owed, overtaken>>

FindUnstartedMatches ==
    /\ handler.stage = "read"
    /\ IF Pollable(match)
       THEN handler' = [handler EXCEPT !.stage = "create", !.poll = Draft] /\ UNCHANGED owed
       ELSE handler' = NoHandler /\ owed' = owed \ {handler.chat}
    /\ UNCHANGED <<vars, subscribed, overtaken>>

\* Create by the handler: nothing if the start has come, or the row is there (it
\* was found, or UNIQUE (chat_id, match_id) refuses the insert).
Create ==
    LET c == handler.chat
    IN  /\ handler.stage = "create"
        /\ IF handler.poll.closesAt > now /\ row[c] = NoRow
           THEN /\ SavePoll(c, handler.poll)
                /\ handler' = [handler EXCEPT !.stage = "send"]
                /\ UNCHANGED owed
           ELSE /\ owed' = owed \ {c}
                /\ handler' = NoHandler
                /\ UNCHANGED row
        /\ UNCHANGED <<env, match, fresh, telegram, job, faults, subscribed, overtaken>>

Send ==
    /\ handler.stage = "send"
    /\ PostPoll(handler.chat, handler.poll.closesAt)
    /\ handler' = [handler EXCEPT !.stage = "sent"]
    /\ UNCHANGED <<env, db, posts, job, faults, subscribed, owed, overtaken>>

\* The whole row again, as it was drafted, with the Telegram ids.
SaveWithIds ==
    /\ handler.stage = "sent"
    /\ SavePoll(handler.chat, [handler.poll EXCEPT !.sent = TRUE])
    /\ handler' = NoHandler
    /\ UNCHANGED <<env, match, fresh, telegram, job, faults, subscribed, owed, overtaken>>

\* A statement or the send fails, or the request is cut short. Its redelivery
\* finds the chat subscribed and creates nothing.
SubscribeFails ==
    /\ handler.stage # "idle"
    /\ Fault
    /\ handler' = NoHandler
    /\ UNCHANGED <<env, db, telegram, job, subscribed, owed, overtaken>>

-----------------------------------------------------------------------------
(* Other ways in and out *)

AutoSubscribe(c) ==
    /\ c \notin subscribed
    /\ subscribed' = subscribed \cup {c}
    /\ UNCHANGED <<vars, handler, owed, overtaken>>

Unsubscribe(c) ==
    /\ c \in subscribed
    /\ subscribed' = subscribed \ {c}
    /\ owed' = owed \ {c}
    /\ UNCHANGED <<vars, handler, overtaken>>

-----------------------------------------------------------------------------
(* synchronize-matches, for an event whose subscribers change *)

\* Every event some chat follows is fetched. The choice of events worth asking
\* about (selectEventsToSync) falls back on all of them: EventsWithLiveMatches
\* reads a table "match", which no migration creates.
Fetched == subscribed # {}

Synchronize ==
    /\ Fetched
    /\ SaveMatch
    /\ owed' = IF fresh' /\ Pollable(match') THEN owed \cup subscribed ELSE owed
    /\ overtaken' = IF handler.stage = "create" THEN {handler.chat} ELSE {}
    /\ UNCHANGED <<subscribed, handler>>

SubscribedChats ==
    /\ pc["sync"] = "react"
    /\ CreatesPolls
    /\ todo' = [todo EXCEPT !["sync"] = subscribed]
    /\ pc' = [pc EXCEPT !["sync"] = AtPolls(subscribed)]
    /\ fresh' = FALSE
    /\ UNCHANGED <<env, match, row, telegram, cur, snap, missed, faults, subscribing>>

\* The start has come before the loop, or the handler's draft, reached c.
TooLate(c) == CreateTooLate(c) /\ owed' = owed \ {c} /\ UNCHANGED <<subscribed, handler, overtaken>>

\* The start has come, or the match is no longer one to predict: nothing is owed.
Settled ==
    /\ NothingToDo
    /\ owed' = IF Pollable(match) THEN owed ELSE {}
    /\ UNCHANGED <<subscribed, handler, overtaken>>

SyncRuns ==
    \/ Synchronize \/ SubscribedChats \/ Settled
    \/ \E c \in Chats : TooLate(c)
    \/ /\ \/ ReadOpenPolls \/ EndPolls("sync") \/ SendPoll \/ SaveSent
          \/ \E c \in Chats : Reschedule(c) \/ KeepExisting(c) \/ CreateDraft(c)
       /\ UNCHANGED subscribing

CloserRuns == Closer /\ UNCHANGED subscribing
Elsewhere == (Failures \/ Environment) /\ UNCHANGED subscribing
TimePasses == Tick /\ UNCHANGED subscribing

-----------------------------------------------------------------------------

Subscriptions ==
    \/ FindUnstartedMatches \/ Create \/ Send \/ SaveWithIds \/ SubscribeFails
    \/ \E c \in Chats : Subscribe(c) \/ AutoSubscribe(c) \/ Unsubscribe(c)

SubscribingNext == SyncRuns \/ CloserRuns \/ Elsewhere \/ Subscriptions

SubscribingSpec == SubscribingInit /\ [][SubscribingNext]_allVars

\* The scheduler runs both jobs again and again (RunFixedDelay); nothing is assumed
\* of the handler, the provider, Telegram's timer or failures.
SubscribingFairSpec ==
    /\ SubscribingSpec
    /\ WF_allVars(SyncRuns) /\ WF_allVars(CloserRuns) /\ WF_allVars(TimePasses)

-----------------------------------------------------------------------------
(* Properties *)

\* No chat falls between the two creators: one subscribed when the match became
\* pollable, or subscribing by hand once it is, has its poll when both have
\* returned, unless the match began meanwhile or something failed (subscribe
\* stores before it reads; processMatch stores before it asks who is subscribed).
NobodyIsPassedOver ==
    pc["sync"] = "idle" /\ handler = NoHandler /\ faults = 0 => \A c \in owed : row[c] # NoRow

\* The Telegram ids a row has received survive every later whole-row save by the
\* jobs (SavePoll): without them the poll could never be stopped again. They are
\* lost to one thing only, Reschedule saving the row it read while the handler of a
\* subscription was still sending.
IdsLostOnlyToReschedule ==
    [][\A c \in Chats : row[c] # NoRow /\ row[c].sent /\ ~row'[c].sent =>
           MovesPolls /\ ~snap["sync"][c].sent /\ c \in todo["sync"]]_allVars

\* Once the sync run has reacted to a match that is live or called off, the only
\* polls still open are those it reported as failed or has yet to handle
\* (closeMatching, prediction/service.go), and the one of a chat whose handler read
\* the match before this run stored it: Create looks at the start, not at the
\* status. A handler that reads later leaves none, and the next run ends that one too.
LiveMatchLeavesNoOpenPoll ==
    pc["sync"] # "react" /\ (match.status = "RUNNING" \/ ShouldCancelPrediction(match)) =>
        \A c \in Chats : row[c] # NoRow /\ row[c].status = "OPEN" =>
            c \in todo["sync"] \cup missed \cup overtaken

\* Every posted poll is recorded as over in the end, whoever created it, through
\* failed calls, aborted runs and reschedules, unless its ids are lost so (CloseDue).
RecordedPollEnds ==
    \A c \in Chats :
        (row[c] # NoRow /\ row[c].sent) ~> (row[c] # NoRow /\ (row[c].status # "OPEN" \/ ~row[c].sent))

-----------------------------------------------------------------------------
(* What the source says, and the code does not do: no run checks it (README, 5). *)

\* "Reschedule updates only ClosesAt on every open poll" (prediction/service.go):
\* it saves every column, and with them ids that a handler has just stored.
RescheduleTouchesClosesAtOnly ==
    [][\A c \in Chats : row[c] # NoRow /\ row[c].sent => row'[c].sent]_allVars

\* "close on schedule or the moment a match goes live" (README.md): not the poll a
\* subscription creates while the match is stored as live, or called off.
NothingOpensInALiveMatch ==
    pc["sync"] # "react" /\ (match.status = "RUNNING" \/ ShouldCancelPrediction(match)) =>
        \A c \in Chats : row[c] # NoRow /\ row[c].status = "OPEN" => c \in todo["sync"] \cup missed
=============================================================================
