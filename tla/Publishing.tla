------------------------------ MODULE Publishing ------------------------------
(***************************************************************************)
(* How a queued notice reaches a group or a person: the publishers, what     *)
(* Telegram answers them, and MigrateChatID, which renames the group's row    *)
(* when the group has become a supergroup with another id.                    *)
(*                                                                         *)
(* A behaviour follows one kind of notice of one group: kinds share no rows,   *)
(* and one dispatcher publishes one message at a time. Left out: the texts,    *)
(* the 429 retries inside one call, the replied-to poll (sent with            *)
(* allow_sending_without_reply), and the outbox itself (Outbox).              *)
(***************************************************************************)
EXTENDS Naturals, FiniteSets

CONSTANTS Kinds,        \* the notices a behaviour may follow
          User,         \* the person a personal note is for
          MaxAttempts,  \* tries before a message is dead
          MaxTrouble    \* how often Telegram, the network or a human interferes

\* Decided on here (Notices), and queued by settlement, by the completion of a
\* tournament or by people.
Decided == {"monthly", "annual", "eve", "offer", "crosssell", "reminder"}
Commissioned == {"result", "finished", "milestone", "confirmation", "eventRecap", "resultRecap",
                 "ping", "alert", "suggestion", "access", "ask"}

ASSUME PublishingConstants ==
    /\ Kinds \subseteq Decided \cup Commissioned
    /\ MaxAttempts \in Nat \ {0} /\ MaxTrouble \in Nat

Ids == {"old", "new"}  \* the group's id before and after the upgrade
ASSUME UserIsNoGroup == User \notin Ids

VARIABLES
    kind,       \* the notice followed
    group,      \* Telegram: the group's id now
    topicOpen,  \* Telegram: its default topic exists
    blocked,    \* Telegram: the person has blocked the bot
    rows,       \* telegram_chat
    history,    \* the row its polls, votes and awards belong to
    games,      \* chat_enabled_game: not followed, followed, joined unasked
    subscribed, \* event_subscription
    wants,      \* notification_preference: chats (by id) and the person
    claims,     \* the ids whose notice is marked as settled
    reachable,  \* telegram_user.dm_reachable
    messages,   \* the message queued for each chat id
    call,       \* the publication in progress
    announced,  \* the migration's service message has arrived
    raced,      \* an update from the new id was stored before that
    trouble

telegramVars == <<group, topicOpen, blocked>>
rowVars == <<rows, history, games, subscribed, claims>>
publishingVars == <<kind, telegramVars, rowVars, wants, reachable, messages, call, announced, raced,
                    trouble>>

NoMessage == [status |-> "none", topic |-> FALSE, attempts |-> 0, outages |-> 0,
              deaths |-> 0, shown |-> 0, times |-> 0]
NoCall == [of |-> "none", to |-> "none", topic |-> FALSE, stage |-> "none"]
Message == [status : {"none", "queued", "sent", "dead"}, topic : BOOLEAN, attempts : 0 .. MaxAttempts,
            outages : 0 .. MaxAttempts, deaths : Nat, shown : Nat, times : Nat]
Call == [of : Ids, to : Ids \cup {User}, topic : BOOLEAN, stage : {"first", "plain", "last", "mark"}]

-----------------------------------------------------------------------------
(* The publishers: whom each writes to, whether its message carries a topic   *)
(* and which failures it recovers from                                      *)

ToGroup(topic, recovers) == [to |-> "group", topic |-> topic, recovers |-> recovers]
ToPerson(recovers) == [to |-> "person", topic |-> FALSE, recovers |-> recovers]

\* sendToChat re-aims at the group's new id; with the repository it renames too.
SendDigest == {"topicGone", "migrated"}
SendToChat == {"topicGone", "migrated", "rename"}
MarksUnreachable == {"unreachable"}

MonthlyDigestPublisher == ToGroup(TRUE, SendDigest)
AnnualDigestPublisher == ToGroup(TRUE, SendDigest)
BigEventPublisher == ToGroup(TRUE, SendDigest)
TargetCrossSellPublisher == ToGroup(FALSE, SendDigest)
MilestonePublisher == ToGroup(FALSE, SendDigest)
EventEvePublisher == ToGroup(TRUE, SendToChat)
EventFinishedPublisher == ToGroup(TRUE, SendToChat)
MatchResultPublisher == ToGroup(TRUE, {"topicGone"})

PersonalNotePublisher == ToPerson(MarksUnreachable)
PollReminderPublisher == PersonalNotePublisher
ResultRecapPublisher == PersonalNotePublisher
EventRecapPublisher == PersonalNotePublisher
TeamMatchOperatorPingPublisher == PersonalNotePublisher
AdminAlertPublisher == PersonalNotePublisher
SuggestionPublisher == PersonalNotePublisher
UnsubscribeConfirmationPublisher == ToPerson(MarksUnreachable)
TeamMatchAskPublisher == ToPerson(MarksUnreachable)
MiniAppAccessPublisher == ToPerson(SendToChat)

Supports == [monthly |-> MonthlyDigestPublisher, annual |-> AnnualDigestPublisher,
             eve |-> EventEvePublisher, offer |-> BigEventPublisher,
             crosssell |-> TargetCrossSellPublisher, reminder |-> PollReminderPublisher,
             result |-> MatchResultPublisher, finished |-> EventFinishedPublisher,
             milestone |-> MilestonePublisher, confirmation |-> UnsubscribeConfirmationPublisher,
             eventRecap |-> EventRecapPublisher, resultRecap |-> ResultRecapPublisher,
             ping |-> TeamMatchOperatorPingPublisher, alert |-> AdminAlertPublisher,
             suggestion |-> SuggestionPublisher, access |-> MiniAppAccessPublisher,
             ask |-> TeamMatchAskPublisher]

Publisher == Supports[kind]
Personal == Publisher.to = "person"
Digest == kind \in {"monthly", "annual"}
Atomic == Digest \/ kind = "reminder"             \* marked and queued in one transaction
Cascades == Digest \/ kind \in {"eve", "reminder"} \* the marker's table follows the chat's id

PublishingInit ==
    /\ kind \in Kinds
    /\ group = "old" /\ topicOpen \in BOOLEAN /\ blocked = FALSE
    /\ rows = {"old"} /\ history = "old"
    /\ games \in [Ids -> {"off", "on", "auto"}] /\ games["new"] = "off"
    /\ wants \in IF kind \in Decided THEN SUBSET {IF Personal THEN User ELSE "old"} ELSE {{}}
    /\ subscribed \in IF kind \in Decided THEN SUBSET rows ELSE {rows}
    /\ reachable \in {TRUE, kind # "reminder"}
    /\ messages = [c \in Ids |-> IF kind \in Commissioned /\ c = "old"
                                 THEN [NoMessage EXCEPT !.status = "queued", !.topic = Publisher.topic,
                                                        !.times = 1]
                                 ELSE NoMessage]
    /\ claims = IF kind \in Commissioned THEN {"old"} ELSE {}
    /\ call = NoCall /\ announced = FALSE /\ raced = FALSE /\ trouble = 0

Troubled == trouble < MaxTrouble /\ trouble' = trouble + 1

Moved(s) == IF "old" \in s THEN (s \ {"old"}) \cup {"new"} ELSE s

-----------------------------------------------------------------------------
(* MigrateChatID                                                           *)

\* The foreign key of chat_enabled_game has no ON UPDATE CASCADE.
RenameFails == games["old"] # "off"

\* The rows of the chat's own tables follow its id; event_offer,
\* target_cross_sell_offer and notification_preference keep the old one.
Rename ==
    /\ rows' = {"new"} /\ history' = IF history = "old" THEN "new" ELSE history
    /\ games' = [games EXCEPT !["new"] = "off"]
    /\ subscribed' = Moved(subscribed)
    /\ claims' = IF Cascades THEN Moved(claims) ELSE claims

\* Both ids have a row: the new one counts, and the old one takes with it
\* everything that refers to it.
DropOldRow ==
    /\ rows' = {"new"} /\ history' = IF history = "old" THEN "lost" ELSE history
    /\ games' = [games EXCEPT !["old"] = "off"]
    /\ subscribed' = subscribed \ {"old"}
    /\ claims' = IF Cascades THEN claims \ {"old"} ELSE claims

MigrateChatID ==
    IF "new" \in rows THEN DropOldRow
    ELSE IF RenameFails THEN UNCHANGED rowVars ELSE Rename

\* handleMessage: the service message is answered with an error when the rename
\* fails, and Telegram delivers it again.
MigrationMessage ==
    /\ group = "new" /\ (~announced \/ "old" \in rows)
    /\ MigrateChatID
    /\ announced' = TRUE
    /\ UNCHANGED <<kind, telegramVars, wants, reachable, messages, call, raced, trouble>>

\* Any other message of the group stores its row.
GroupMessage ==
    /\ group \notin rows
    /\ rows' = rows \cup {group}
    /\ raced' = (raced \/ ~announced)
    /\ UNCHANGED <<kind, telegramVars, history, games, subscribed, claims, wants, reachable, messages,
                   call, announced, trouble>>

-----------------------------------------------------------------------------
(* Publishers: one step per call of Telegram                                 *)

Answer == IF call.to = User THEN IF blocked THEN "unreachable" ELSE "ok"
          ELSE IF call.to # group THEN "migrated"
          ELSE IF call.topic /\ ~topicOpen THEN "topicGone" ELSE "ok"

Calling == call.stage \in {"first", "plain", "last"}

\* What the client hears: Telegram's answer, or an error when the request or the
\* answer to it was lost.
Hears(a) ==
    /\ Calling
    /\ \/ a = Answer /\ UNCHANGED trouble
       \/ a \in {"refused", "lost"} /\ (a = "lost" => Answer = "ok") /\ Troubled

tablesUnchanged == UNCHANGED <<kind, telegramVars, rowVars, wants, announced, raced>>

Publish(c) ==
    /\ call = NoCall /\ messages[c].status = "queued"
    /\ call' = [of |-> c, to |-> IF Personal THEN User ELSE c, topic |-> messages[c].topic, stage |-> "first"]
    /\ UNCHANGED <<reachable, messages, trouble>> /\ tablesUnchanged

Seen(a) == [messages[call.of] EXCEPT !.shown = @ + (IF a \in {"ok", "lost"} THEN 1 ELSE 0)]
Leaves(m) == messages' = [messages EXCEPT ![call.of] = m]

Delivered ==
    /\ Hears("ok")
    /\ Leaves([Seen("ok") EXCEPT !.status = "sent"])
    /\ call' = NoCall
    /\ UNCHANGED reachable /\ tablesUnchanged

\* Mutant: any error is taken for a topic that is gone.
FallsBackOn_anyError == Publisher.recovers \cup {"refused", "lost"}

\* IsTopicUnavailable reads Telegram's description.
FallsBackOn == Publisher.recovers \cap {"topicGone"}

\* sendToChat and the result publisher try again without the topic.
TopicGone(a) ==
    /\ Hears(a) /\ a \in FallsBackOn /\ call.stage = "first" /\ call.topic
    /\ call' = [call EXCEPT !.topic = FALSE, !.stage = IF "migrated" \in Publisher.recovers THEN "plain" ELSE "last"]
    /\ Leaves(Seen(a))
    /\ UNCHANGED reachable /\ tablesUnchanged

\* Mutant: the error of the second try is not looked at.
Reaims_first == "migrated" \in Publisher.recovers /\ call.stage = "first"

\* Only sendToChat re-aims; the result publisher does not use it.
Reaims == "migrated" \in Publisher.recovers /\ call.stage \in {"first", "plain"}

\* The repository learns the new id, whatever comes of it.
Migrated ==
    /\ Hears("migrated") /\ Reaims
    /\ IF "rename" \in Publisher.recovers THEN MigrateChatID ELSE UNCHANGED rowVars
    /\ call' = [call EXCEPT !.to = "new", !.topic = FALSE, !.stage = "last"]
    /\ UNCHANGED <<kind, telegramVars, wants, reachable, messages, announced, raced>>

Unreachable ==
    /\ Hears("unreachable") /\ "unreachable" \in Publisher.recovers
    /\ call' = [call EXCEPT !.stage = "mark"]
    /\ UNCHANGED <<reachable, messages>> /\ tablesUnchanged

MarkUnreachable ==
    /\ call.stage = "mark"
    /\ reachable' = FALSE
    /\ Leaves([messages[call.of] EXCEPT !.status = "sent"]) /\ call' = NoCall
    /\ UNCHANGED trouble /\ tablesUnchanged

\* The attempt fails, by an outage (1) or not (0); the outbox counts it.
Failed(m, outage) ==
    /\ Leaves([m EXCEPT !.attempts = @ + 1, !.outages = @ + outage,
                        !.status = IF m.attempts + 1 = MaxAttempts THEN "dead" ELSE "queued"])
    /\ call' = NoCall

GivesUp(a) ==
    /\ Hears(a) /\ a # "ok"
    /\ ~(a \in FallsBackOn /\ call.stage = "first" /\ call.topic) /\ ~(a = "migrated" /\ Reaims)
    /\ ~(a = "unreachable" /\ a \in Publisher.recovers)
    /\ Failed(Seen(a), IF a \in {"refused", "lost"} THEN 1 ELSE 0)
    /\ UNCHANGED reachable /\ tablesUnchanged

MarkFails ==
    /\ call.stage = "mark" /\ Troubled
    /\ Failed(messages[call.of], 1)
    /\ UNCHANGED reachable /\ tablesUnchanged

\* The process dies, perhaps with its request on the way: the message stays queued,
\* and no attempt is counted.
PublisherDies ==
    /\ call # NoCall /\ Troubled
    /\ \E a \in {"refused", "lost"} :
        /\ a = "lost" => Calling /\ Answer = "ok"
        /\ Leaves([Seen(a) EXCEPT !.deaths = @ + 1])
    /\ call' = NoCall
    /\ UNCHANGED reachable /\ tablesUnchanged

-----------------------------------------------------------------------------
(* Telegram and its people                                                 *)

Upgrade ==
    /\ group = "old" /\ Troubled
    /\ group' = "new" /\ topicOpen' = FALSE
    /\ UNCHANGED <<kind, blocked, rowVars, wants, reachable, messages, call, announced, raced>>

DeleteTopic ==
    /\ topicOpen /\ Troubled
    /\ topicOpen' = FALSE
    /\ UNCHANGED <<kind, group, blocked, rowVars, wants, reachable, messages, call, announced, raced>>

Block ==
    /\ Personal /\ ~blocked /\ Troubled
    /\ blocked' = TRUE
    /\ UNCHANGED <<kind, group, topicOpen, rowVars, wants, reachable, messages, call, announced, raced>>

\* Somebody who writes to the bot has unblocked it; markDMReachable.
PrivateMessage ==
    /\ Personal /\ (blocked \/ ~reachable)
    /\ blocked' = FALSE /\ reachable' = TRUE
    /\ UNCHANGED <<kind, group, topicOpen, rowVars, wants, messages, call, announced, raced, trouble>>

PublishingNext ==
    \/ MigrationMessage \/ GroupMessage
    \/ \E c \in Ids : Publish(c)
    \/ Delivered \/ Migrated \/ Unreachable \/ MarkUnreachable \/ MarkFails
    \/ \E a \in {"refused", "lost", "topicGone", "migrated", "unreachable"} : TopicGone(a) \/ GivesUp(a)
    \/ PublisherDies
    \/ Upgrade \/ DeleteTopic \/ Block \/ PrivateMessage

-----------------------------------------------------------------------------
(* Properties                                                              *)

\* A message that is given up was refused by the network every time: an upgraded
\* group, a deleted topic or a person who blocked the bot costs no message. Two
\* publishers are the exception: the match results' does not re-aim, the Mini App
\* access' does not know the blocked person (sendToChat, personalNotePublisher).
DeadOnlyByOutages ==
    \A c \in Ids : messages[c].status = "dead" =>
        \/ messages[c].outages = MaxAttempts
        \/ kind = "result" /\ group = "new"
        \/ kind = "access"

\* A notice is shown again only by a new attempt after the network failed or the
\* process died: the fallbacks of one publication never post it twice (sendToChat,
\* Publish).
ShownOncePerAttempt ==
    \A c \in Ids : messages[c].shown <= 1 + messages[c].outages + messages[c].deaths

-----------------------------------------------------------------------------
(* What the source says, and the code does not do: no run checks it (README, 5). *)

\* What publishers.go says of re-aiming, with the match results that "died that
\* way in production before this existed": an upgrade costs no match result.
ResultsSurviveTheUpgrade ==
    \A c \in Ids : kind = "result" /\ messages[c].status = "dead" => messages[c].outages = MaxAttempts

\* What chat.go and migration 0025 say of MigrateChatID: the chat is renamed
\* everywhere, and its old row is given up only if the new id was stored before
\* the service message arrived.
HistoryIsLostOnlyToTheRace == history = "lost" => raced
=============================================================================
