----------------------------- MODULE NoticesProofs -----------------------------
(***************************************************************************)
(* Proofs about Publishing and Notices, for any kinds of notice, any number   *)
(* of attempts and disturbances. A message is written off only by what the     *)
(* network did, because each other answer finds its fallback: a publication     *)
(* that has re-aimed writes to the id the group really has (NewIdIsReal,       *)
(* CallInHand). A notice is told once because whoever tells it has marked the   *)
(* chat, and the mark stays as long as the id can be told (Marks).             *)
(***************************************************************************)
EXTENDS Notices, TLAPS

\* Before the upgrade nothing is about the id it will bring, and only the upgrade
\* takes the old id's row away.
NewIdIsReal ==
    /\ (group = "old" => /\ rows = {"old"} /\ messages["new"].status = "none"
                         /\ call.of # "new" /\ call.to # "new"
                         /\ \A d \in Deciders : jobs[d].chat # "new")
    /\ ("old" \notin rows => group = "new")

\* A publication is of a queued message, and its stage says what has been tried.
CallInHand ==
    /\ \A c \in Ids : (messages[c].topic => ~Personal)
    /\ (call # NoCall => /\ messages[call.of].status = "queued"
                         /\ (call.to = User <=> Personal)
                         /\ (call.topic => call.stage = "first" /\ ~Personal)
                         /\ (call.stage = "mark" => Personal)
                         /\ (call.stage = "last" /\ ~Personal /\ kind # "result" => call.to = "new"))

\* The failures that are not the network's (DeadOnlyByOutages).
Excepted == (kind = "result" /\ group = "new") \/ kind = "access"

\* What a message has been through: its attempts, those the network failed, and how
\* often it was shown.
Account(m) ==
    /\ (m.status = "none" <=> m.times = 0)
    /\ (m.status = "queued" => m.attempts < MaxAttempts)
    /\ (m.status = "dead" => m.attempts = MaxAttempts)
    /\ m.outages <= m.attempts /\ (Excepted \/ m.outages = m.attempts)
    /\ m.shown <= m.outages + m.deaths + (IF m.status = "sent" THEN 1 ELSE 0)

Accounts == \A c \in Ids : Account(messages[c])

\* The mark that keeps c silent stands, or c can no longer be told.
Marked(c) == c \in claims \/ (Cascades /\ c \notin rows /\ c = "old")

\* A decider past its mark.
Telling(d) == jobs[d].stage \in {"join", "tell"}

Marks ==
    /\ \A c \in Ids : messages[c].times <= 1 /\ (messages[c].times > 0 => Marked(c))
    /\ \A d \in Deciders : Telling(d) => ~Atomic /\ Marked(jobs[d].chat) /\ messages[jobs[d].chat].times = 0
    /\ \A d, e \in Deciders : Telling(d) /\ Telling(e) /\ jobs[d].chat = jobs[e].chat => d = e

\* Why a decider began: it is the only one that reminds, and it had something to tell.
Reasons ==
    /\ (kind \in Commissioned => \A d \in Deciders : jobs[d] = NoJob)
    /\ (kind = "reminder" => jobs["discovery"] = NoJob)
    /\ \A d \in Deciders : jobs[d].stage = "read" =>
          /\ (kind = "reminder" => messages[jobs[d].chat].times = 0)
          /\ (~Atomic => jobs[d].wanted \/ jobs[d].auto)

IInv == /\ TypeOK /\ NewIdIsReal /\ CallInHand /\ Accounts /\ Marks /\ Reasons
        /\ ClaimedNoticesAreSent
-----------------------------------------------------------------------------
(* The publishers *)

\* What each kind's publisher can recover from.
LEMMA Recovery ==
  ASSUME kind \in Kinds
  PROVE  /\ "refused" \notin Publisher.recovers /\ "lost" \notin Publisher.recovers
         /\ (Personal => ~Publisher.topic)
         /\ (Personal /\ kind # "access" => "unreachable" \in Publisher.recovers)
         /\ (~Personal => "topicGone" \in Publisher.recovers)
         /\ (~Personal /\ kind # "result" => "migrated" \in Publisher.recovers)
         /\ (kind = "result" => "migrated" \notin Publisher.recovers)
         /\ Publisher.topic \in BOOLEAN /\ Personal \in BOOLEAN
  <1>1. CASE kind \in {"monthly", "annual", "offer", "crosssell", "milestone"}
    <2>1. Publisher \in {MonthlyDigestPublisher, AnnualDigestPublisher, BigEventPublisher,
                         TargetCrossSellPublisher, MilestonePublisher}
      BY <1>1 DEF Publisher, Supports
    <2>2. PICK topic \in BOOLEAN : Publisher = ToGroup(topic, SendDigest)
      BY <2>1 DEF MonthlyDigestPublisher, AnnualDigestPublisher, BigEventPublisher,
                  TargetCrossSellPublisher, MilestonePublisher
    <2> QED BY <1>1, <2>2 DEF ToGroup, Personal, SendDigest
  <1>2. CASE kind \in {"eve", "finished"}
    <2>1. Publisher \in {EventEvePublisher, EventFinishedPublisher}
      BY <1>2 DEF Publisher, Supports
    <2>2. PICK topic \in BOOLEAN : Publisher = ToGroup(topic, SendToChat)
      BY <2>1 DEF EventEvePublisher, EventFinishedPublisher
    <2> QED BY <1>2, <2>2 DEF ToGroup, Personal, SendToChat
  <1>3. CASE kind \in {"result"}
    <2>1. Publisher \in {MatchResultPublisher}
      BY <1>3 DEF Publisher, Supports
    <2>2. PICK topic \in BOOLEAN : Publisher = ToGroup(topic, {"topicGone"})
      BY <2>1 DEF MatchResultPublisher
    <2> QED BY <1>3, <2>2 DEF ToGroup, Personal
  <1>4. CASE kind \in {"reminder", "resultRecap", "eventRecap", "ping", "alert",
                       "suggestion", "confirmation", "ask"}
    <2>1. Publisher \in {PollReminderPublisher, ResultRecapPublisher, EventRecapPublisher,
                         TeamMatchOperatorPingPublisher, AdminAlertPublisher,
                         SuggestionPublisher, UnsubscribeConfirmationPublisher,
                         TeamMatchAskPublisher}
      BY <1>4 DEF Publisher, Supports
    <2>2. Publisher = ToPerson(MarksUnreachable)
      BY <2>1 DEF PollReminderPublisher, ResultRecapPublisher, EventRecapPublisher,
                  TeamMatchOperatorPingPublisher, AdminAlertPublisher, SuggestionPublisher,
                  UnsubscribeConfirmationPublisher, TeamMatchAskPublisher, PersonalNotePublisher
    <2> QED BY <1>4, <2>2 DEF ToPerson, Personal, MarksUnreachable
  <1>5. CASE kind \in {"access"}
    <2>1. Publisher \in {MiniAppAccessPublisher}
      BY <1>5 DEF Publisher, Supports
    <2>2. Publisher = ToPerson(SendToChat)
      BY <2>1 DEF MiniAppAccessPublisher
    <2> QED BY <1>5, <2>2 DEF ToPerson, Personal, SendToChat
  <1> QED BY <1>1, <1>2, <1>3, <1>4, <1>5, PublishingConstants DEF Decided, Commissioned

LEMMA InitIInv == Init => IInv
  <1> SUFFICES ASSUME Init PROVE IInv
    OBVIOUS
  <1> kind \in Kinds /\ rows = {"old"} /\ group = "old" /\ call = NoCall /\ history = "old"
    BY DEF Init, PublishingInit
  <1>p. Personal \in BOOLEAN /\ Publisher.topic \in BOOLEAN /\ (Personal => ~Publisher.topic)
    BY Recovery
  <1>m. ASSUME NEW c \in Ids
        PROVE  /\ messages[c] \in Message /\ Account(messages[c]) /\ messages[c].times \in {0, 1}
               /\ (messages[c].topic => ~Personal)
               /\ (messages[c].times = 1 <=> c \in claims)
               /\ (c = "new" => messages[c].status = "none")
    <2>1. CASE kind \in Commissioned /\ c = "old"
      <3> c \in claims
        BY <2>1 DEF Init, PublishingInit
      <3>1. messages[c] = [NoMessage EXCEPT !.status = "queued", !.topic = Publisher.topic, !.times = 1]
        BY <2>1 DEF Init, PublishingInit
      <3>2. messages[c] = [status |-> "queued", topic |-> Publisher.topic, attempts |-> 0, outages |-> 0,
                           deaths |-> 0, shown |-> 0, times |-> 1]
        BY <3>1 DEF NoMessage
      <3>3. messages[c] \in Message /\ messages[c].topic = Publisher.topic
        BY <3>2, <1>p, PublishingConstants DEF Message
      <3>4. Account(messages[c])
        BY <3>2, PublishingConstants DEF Account
      <3> QED BY <3>2, <3>3, <3>4, <2>1, <1>p
    <2>2. CASE ~(kind \in Commissioned /\ c = "old")
      <3> c \notin claims
        BY <2>2 DEF Init, PublishingInit
      <3>1. messages[c] = NoMessage
        BY <2>2 DEF Init, PublishingInit
      <3> QED BY <3>1, <2>2, PublishingConstants DEF Message, NoMessage, Account
    <2> QED BY <2>1, <2>2
  <1>1. TypeOK
    <2>1. messages \in [Ids -> Message]
      BY <1>m DEF Init, PublishingInit
    <2>2. wants \subseteq Ids \cup {User}
      <3>1. wants \in SUBSET {IF Personal THEN User ELSE "old"} \/ wants = {}
        BY DEF Init, PublishingInit
      <3> QED BY <3>1 DEF Ids
    <2>6. claims \subseteq Ids
      BY DEF Init, PublishingInit, Ids
    <2>7. subscribed \subseteq rows
      BY DEF Init, PublishingInit
    <2>3. active \in BOOLEAN /\ ahead \in 0 .. MaxAhead
      BY NoticesConstants DEF Init
    <2>8. reachable \in BOOLEAN
      BY DEF Init, PublishingInit
    <2>4. group \in Ids /\ topicOpen \in BOOLEAN /\ blocked \in BOOLEAN /\ rows \subseteq Ids
          /\ history \in rows \cup {"lost"} /\ games \in [Ids -> {"off", "on", "auto"}]
      BY DEF Init, PublishingInit, Ids
    <2>5. jobs \in [Deciders -> Job \cup {NoJob}] /\ cut \subseteq Ids /\ quiet \subseteq Ids
          /\ phase \in {"early", "due", "over"}
      BY DEF Init
    <2> QED BY <2>1, <2>2, <2>3, <2>4, <2>5, <2>6, <2>7, <2>8 DEF TypeOK
  <1>2. NewIdIsReal
    BY <1>m DEF Init, PublishingInit, NewIdIsReal, NoCall, Ids, NoJob
  <1>3. CallInHand /\ Accounts
    BY <1>m DEF CallInHand, Accounts
  <1>4. Marks /\ Reasons /\ ClaimedNoticesAreSent
    <2>1. \A d \in Deciders : jobs[d] = NoJob /\ jobs[d].stage = "idle"
      BY DEF Init, NoJob
    <2>2. Marks
      BY <2>1, <1>m DEF Marks, Marked, Telling
    <2>3. Reasons
      <3>1. "discovery" \in Deciders /\ \A d \in Deciders : jobs[d].stage # "read"
        BY <2>1 DEF Deciders
      <3> QED BY <2>1, <3>1 DEF Reasons
    <2>4. ClaimedNoticesAreSent
      <3>1. \A c \in claims : c \in Told /\ c \in Same(c)
        BY <1>m, <1>1 DEF Told, Same, TypeOK
      <3> QED BY <3>1 DEF ClaimedNoticesAreSent
    <2> QED BY <2>2, <2>3, <2>4
  <1> QED BY <1>1, <1>2, <1>3, <1>4 DEF IInv

-----------------------------------------------------------------------------
(* Steps that decide nothing *)

\* The group's rows change so that whoever is marked stays so.
RowsStand ==
    /\ rows' \subseteq Ids /\ history' \in rows' \cup {"lost"} /\ subscribed' \subseteq rows'
    /\ games' \in [Ids -> {"off", "on", "auto"}] /\ claims' \subseteq Ids
    /\ (group' = "old" => rows' = {"old"}) /\ ("old" \notin rows' => group' = "new")
    /\ \A c \in Ids : (Marked(c) => Marked(c)')
    /\ (claims' # {} => claims # {}) /\ (Cascades \/ claims' = claims)

\* A message is what it was, or has come further.
MessagesStand ==
    /\ messages' \in [Ids -> Message]
    /\ \A c \in Ids : /\ Account(messages[c])'
                      /\ messages'[c].times = messages[c].times /\ messages'[c].topic = messages[c].topic

\* The publication in hand after the step (see CallInHand).
CallStands ==
    /\ call' \in Call \cup {NoCall}
    /\ (call' # NoCall => /\ messages'[call'.of].status = "queued"
                          /\ (call'.to = User <=> Personal)
                          /\ (call'.topic => call'.stage = "first" /\ ~Personal)
                          /\ (call'.stage = "mark" => Personal)
                          /\ (call'.stage = "last" /\ ~Personal /\ kind # "result" => call'.to = "new"))
    /\ (group' = "old" => call'.of # "new" /\ call'.to # "new")

LEMMA UndecidedStep ==
  ASSUME IInv, UNCHANGED <<kind, decidingVars>>, RowsStand, MessagesStand, CallStands,
         group' \in {group, "new"}, topicOpen' \in BOOLEAN, blocked' \in BOOLEAN, reachable' \in BOOLEAN,
         wants' = wants
  PROVE  IInv'
  <1> Personal' = Personal /\ Cascades' = Cascades /\ Atomic' = Atomic /\ Digest' = Digest
    BY DEF Personal, Publisher, Cascades, Atomic, Digest
  <1> UNCHANGED <<phase, active, ahead, jobs, cut, quiet>>
    BY DEF decidingVars
  <1>1. TypeOK'
    BY DEF IInv, TypeOK, RowsStand, MessagesStand, CallStands, Ids
  <1>2. NewIdIsReal'
    <2>1. messages'["new"].status = "none" <=> messages["new"].status = "none"
      BY DEF IInv, Accounts, Account, MessagesStand, Ids
    <2> QED BY <2>1 DEF IInv, NewIdIsReal, RowsStand, CallStands
  <1>3. CallInHand'
    BY DEF IInv, CallInHand, MessagesStand, CallStands
  <1>4. Accounts'
    BY DEF MessagesStand, Accounts
  <1>5. Marks'
    <2>1. \A d \in Deciders : Telling(d) => jobs[d].chat \in Ids
      BY DEF IInv, TypeOK, Telling, Job, NoJob
    <2>2. \A c \in Ids : messages'[c].times <= 1 /\ (messages'[c].times > 0 => Marked(c)')
      BY DEF IInv, Marks, RowsStand, MessagesStand
    <2>3. \A d \in Deciders : Telling(d)' => ~Atomic /\ Marked(jobs[d].chat)' /\ messages'[jobs[d].chat].times = 0
      BY <2>1 DEF IInv, Marks, RowsStand, MessagesStand, Telling
    <2>4. \A d, e \in Deciders : Telling(d)' /\ Telling(e)' /\ jobs'[d].chat = jobs'[e].chat => d = e
      BY DEF IInv, Marks, Telling
    <2> QED BY <2>2, <2>3, <2>4 DEF Marks
  <1>6. Reasons'
    <2>1. \A d \in Deciders : jobs[d].stage = "read" => jobs[d].chat \in Ids
      BY DEF IInv, TypeOK, Job, NoJob
    <2> QED BY <2>1 DEF IInv, Reasons, MessagesStand
  <1>7. ClaimedNoticesAreSent'
    <2>1. Told' = Told /\ InFlight' = InFlight /\ \A c \in Ids : Same(c)' = Same(c)
      BY DEF Told, InFlight, Same, MessagesStand
    <2> DEFINE Seen2 == Told \cup quiet \cup InFlight \cup IF Digest THEN {} ELSE cut
    <2>2. ASSUME NEW c \in claims' PROVE Same(c) \cap Seen2 # {}
      <3>1. CASE Cascades
        <4>1. PICK other \in claims : TRUE
          BY DEF RowsStand
        <4>2. Same(other) \cap Seen2 # {}
          BY <4>1 DEF IInv, ClaimedNoticesAreSent
        <4> QED BY <3>1, <4>2 DEF Same
      <3>2. CASE ~Cascades
        BY <3>2 DEF IInv, ClaimedNoticesAreSent, RowsStand
      <3> QED BY <3>1, <3>2
    <2> QED BY <2>1, <2>2 DEF ClaimedNoticesAreSent, RowsStand
  <1> QED BY <1>1, <1>2, <1>3, <1>4, <1>5, <1>6, <1>7 DEF IInv

\* Where nothing is written, everything stands.
LEMMA UnchangedStands ==
  ASSUME IInv, UNCHANGED kind, group' = group
  PROVE  /\ (UNCHANGED rowVars => RowsStand)
         /\ (UNCHANGED messages => MessagesStand)
         /\ (UNCHANGED <<messages, call>> => CallStands)
  <1>1. UNCHANGED rowVars => RowsStand
    BY DEF IInv, TypeOK, NewIdIsReal, RowsStand, rowVars, Marked, Cascades, Digest
  <1>2. UNCHANGED messages => MessagesStand
    BY DEF IInv, TypeOK, Accounts, MessagesStand, Account, Excepted
  <1>3. UNCHANGED <<messages, call>> => CallStands
    BY DEF IInv, TypeOK, CallInHand, NewIdIsReal, CallStands
  <1> QED BY <1>1, <1>2, <1>3

\* MigrateChatID, whichever of its three branches is taken.
LEMMA MigrationStands ==
  ASSUME IInv, UNCHANGED kind, group = "new", group' = group, MigrateChatID
  PROVE  RowsStand
  <1> Cascades' = Cascades
    BY DEF Cascades, Digest
  <1> USE DEF IInv, TypeOK, RowsStand, Marked, Ids
  <1>1. CASE DropOldRow
    BY <1>1 DEF DropOldRow
  <1>2. CASE Rename
    BY <1>2 DEF Rename, Moved
  <1>3. CASE UNCHANGED rowVars
    BY <1>3, UnchangedStands
  <1> QED BY <1>1, <1>2, <1>3 DEF MigrateChatID

\* A publication that records m for its message.
LEMMA RecordingStands ==
  ASSUME IInv, UNCHANGED kind, group' = group, call # NoCall,
         NEW m \in Message, Account(m), m.times = messages[call.of].times, m.topic = messages[call.of].topic,
         Leaves(m)
  PROVE  MessagesStand /\ call.of \in Ids /\ messages'[call.of] = m
  <1>1. call.of \in Ids
    BY DEF IInv, TypeOK, Call
  <1>2. \A c \in Ids : messages'[c] = IF c = call.of THEN m ELSE messages[c]
    BY <1>1 DEF IInv, TypeOK, Leaves
  <1>3. messages' \in [Ids -> Message]
    BY <1>1 DEF IInv, TypeOK, Leaves
  <1>4. \A c \in Ids : Account(messages[c])'
    BY <1>2 DEF IInv, Accounts, Account, Excepted
  <1> QED BY <1>1, <1>2, <1>3, <1>4 DEF MessagesStand

LEMMA MigrationMessageIInv == ASSUME IInv, MigrationMessage, UNCHANGED decidingVars PROVE IInv'
  <1> USE DEF MigrationMessage, telegramVars
  <1>1. RowsStand
    BY MigrationStands
  <1>2. MessagesStand /\ CallStands
    BY UnchangedStands
  <1> QED BY <1>1, <1>2, UndecidedStep DEF IInv, TypeOK

LEMMA GroupMessageIInv == ASSUME IInv, GroupMessage, UNCHANGED decidingVars PROVE IInv'
  <1> USE DEF GroupMessage, telegramVars
  <1>1. RowsStand
    BY DEF IInv, TypeOK, NewIdIsReal, RowsStand, Marked, Cascades, Digest, Ids
  <1>2. MessagesStand /\ CallStands
    BY UnchangedStands
  <1> QED BY <1>1, <1>2, UndecidedStep DEF IInv, TypeOK

LEMMA PublishIInv == ASSUME IInv, NEW c \in Ids, Publish(c), UNCHANGED decidingVars PROVE IInv'
  <1> USE DEF Publish, tablesUnchanged, telegramVars, rowVars
  <1>1. RowsStand /\ MessagesStand
    BY UnchangedStands
  <1>2. call' \in Call /\ call'.of = c /\ call'.stage = "first" /\ (call'.topic => ~Personal)
        /\ call'.to = IF Personal THEN User ELSE c
    BY DEF IInv, TypeOK, CallInHand, Call, Message
  <1>3. CallStands
    BY <1>2, UserIsNoGroup DEF IInv, NewIdIsReal, CallStands, Ids
  <1> QED BY <1>1, <1>3, UndecidedStep DEF IInv, TypeOK

\* What a publication is before Telegram is asked.
LEMMA InHand ==
  ASSUME IInv, call # NoCall
  PROVE  /\ call \in Call /\ call.of \in Ids /\ messages[call.of] \in Message
         /\ messages[call.of].status = "queued" /\ Account(messages[call.of])
         /\ (group = "old" => call.of # "new" /\ call.to # "new")
  BY DEF IInv, TypeOK, CallInHand, Accounts, NewIdIsReal, Call

\* The end of a publication, whatever it records.
LEMMA EndIInv ==
  ASSUME IInv, call # NoCall, NEW m \in Message, Account(m), m.times = messages[call.of].times,
         m.topic = messages[call.of].topic, Leaves(m), call' = NoCall, tablesUnchanged,
         reachable' \in BOOLEAN, UNCHANGED decidingVars
  PROVE  IInv'
  <1> USE DEF tablesUnchanged, telegramVars
  <1>1. RowsStand /\ MessagesStand
    BY UnchangedStands, RecordingStands
  <1>2. CallStands
    BY DEF CallStands, NoCall
  <1> QED BY <1>1, <1>2, UndecidedStep DEF IInv, TypeOK

\* An attempt that counts as failed.
LEMMA FailureIInv ==
  ASSUME IInv, call # NoCall, NEW m \in Message, m.times = messages[call.of].times,
         m.topic = messages[call.of].topic, m.status = "queued", m.attempts = messages[call.of].attempts,
         m.outages = messages[call.of].outages, m.deaths = messages[call.of].deaths, NEW outage \in {0, 1},
         m.shown <= messages[call.of].shown + outage, outage = 1 \/ Excepted,
         Failed(m, outage), tablesUnchanged, UNCHANGED <<reachable, decidingVars>>
  PROVE  IInv'
  <1> DEFINE after == [m EXCEPT !.attempts = @ + 1, !.outages = @ + outage,
                                !.status = IF m.attempts + 1 = MaxAttempts THEN "dead" ELSE "queued"]
  <1>1. m.attempts \in 0 .. MaxAttempts /\ m.outages \in 0 .. MaxAttempts /\ m.attempts < MaxAttempts
        /\ MaxAttempts \in Nat /\ m.shown \in Nat /\ m.deaths \in Nat /\ m.times \in Nat /\ m.times # 0
        /\ m.outages <= m.attempts /\ (Excepted \/ m.outages = m.attempts)
        /\ m.shown <= m.outages + m.deaths + outage
    <2>1. messages[call.of] \in Message /\ messages[call.of].status = "queued" /\ Account(messages[call.of])
      BY InHand
    <2> QED BY <2>1, PublishingConstants DEF Message, Account
  <1>2. /\ after.times = m.times /\ after.topic = m.topic
        /\ after.attempts = m.attempts + 1 /\ after.outages = m.outages + outage
        /\ after.status = IF m.attempts + 1 = MaxAttempts THEN "dead" ELSE "queued"
        /\ after.shown = m.shown /\ after.deaths = m.deaths
    BY <1>1 DEF Message
  <1>6. after \in Message
    <2>1. m.attempts + 1 \in 0 .. MaxAttempts
          /\ m.outages + outage \in 0 .. MaxAttempts
      BY <1>1 DEF Account
    <2>2. m.topic \in BOOLEAN
      BY DEF Message
    <2>4. PICK a \in 0 .. MaxAttempts, o \in 0 .. MaxAttempts, st \in {"dead", "queued"} :
              /\ a = m.attempts + 1 /\ o = m.outages + outage
              /\ st = IF m.attempts + 1 = MaxAttempts THEN "dead" ELSE "queued"
      BY <2>1
    <2>5. after = [m EXCEPT !.attempts = a, !.outages = o, !.status = st]
      BY <2>4
    <2>6. [m EXCEPT !.attempts = a, !.outages = o, !.status = st] \in Message
      BY <1>1, <2>2 DEF Message
    <2> QED BY <2>5, <2>6
  <1>3. Account(after)
    BY <1>1, <1>2 DEF Account
  <1>4. reachable' \in BOOLEAN
    BY DEF IInv, TypeOK
  <1> HIDE DEF after
  <1>5. Leaves(after) /\ call' = NoCall /\ UNCHANGED decidingVars
    BY DEF Failed, after
  <1> QED BY <1>2, <1>3, <1>4, <1>5, <1>6, EndIInv

\* A message that was shown once more, or not.
LEMMA SeenMessage ==
  ASSUME IInv, call # NoCall, NEW a
  PROVE  /\ Seen(a) \in Message /\ Seen(a).times = messages[call.of].times
         /\ Seen(a).topic = messages[call.of].topic /\ Seen(a).status = "queued"
         /\ Seen(a).attempts = messages[call.of].attempts /\ Seen(a).outages = messages[call.of].outages
         /\ Seen(a).deaths = messages[call.of].deaths
         /\ Seen(a).shown = messages[call.of].shown + (IF a \in {"ok", "lost"} THEN 1 ELSE 0)
         /\ (a \notin {"ok", "lost"} => Account(Seen(a)))
  <1>1. messages[call.of] \in Message /\ messages[call.of].status = "queued"
        /\ Account(messages[call.of])
    BY InHand
  <1>2. messages[call.of].shown \in Nat
    BY <1>1 DEF Message
  <1>3. CASE a \in {"ok", "lost"}
    BY <1>1, <1>2, <1>3 DEF Seen, Message
  <1>4. CASE a \notin {"ok", "lost"}
    BY <1>1, <1>2, <1>4 DEF Seen, Message, Account
  <1> QED BY <1>3, <1>4

LEMMA DeliveredIInv == ASSUME IInv, Delivered, UNCHANGED decidingVars PROVE IInv'
  <1>0. call # NoCall /\ UNCHANGED reachable /\ tablesUnchanged
    BY DEF Delivered, Hears, Calling, NoCall
  <1> DEFINE m == [Seen("ok") EXCEPT !.status = "sent"]
  <1>1. m \in Message /\ m.times = messages[call.of].times /\ m.topic = messages[call.of].topic
        /\ m.status = "sent" /\ m.attempts = messages[call.of].attempts
        /\ m.outages = messages[call.of].outages /\ m.deaths = messages[call.of].deaths
        /\ m.shown = messages[call.of].shown + 1
    <2>1. Seen("ok") \in Message
      BY <1>0, SeenMessage
    <2>2. m.times = Seen("ok").times /\ m.topic = Seen("ok").topic /\ m.attempts = Seen("ok").attempts
          /\ m.outages = Seen("ok").outages /\ m.deaths = Seen("ok").deaths /\ m.shown = Seen("ok").shown
          /\ m.status = "sent" /\ m \in Message
      BY <2>1 DEF Message
    <2>3. Seen("ok").shown = messages[call.of].shown + 1
      BY <1>0, SeenMessage
    <2> HIDE DEF m
    <2> QED BY <1>0, <2>2, <2>3, SeenMessage
  <1>2. Account(m)
    BY <1>0, <1>1, InHand DEF Account, Message
  <1>3. Leaves(m) /\ call' = NoCall
    BY DEF Delivered
  <1> HIDE DEF m
  <1> QED BY <1>0, <1>1, <1>2, <1>3, EndIInv DEF IInv, TypeOK

LEMMA MarkUnreachableIInv == ASSUME IInv, MarkUnreachable, UNCHANGED decidingVars PROVE IInv'
  <1>0. call # NoCall /\ tablesUnchanged
    BY DEF MarkUnreachable, NoCall
  <1>5. reachable' \in BOOLEAN
    BY DEF MarkUnreachable
  <1> DEFINE m == [messages[call.of] EXCEPT !.status = "sent"]
  <1>1. m \in Message /\ m.times = messages[call.of].times /\ m.topic = messages[call.of].topic
        /\ m.status = "sent" /\ m.attempts = messages[call.of].attempts
        /\ m.outages = messages[call.of].outages /\ m.deaths = messages[call.of].deaths
        /\ m.shown = messages[call.of].shown
    BY <1>0, InHand DEF Message
  <1>2. Account(m)
    BY <1>0, <1>1, InHand DEF Account, Message
  <1>3. Leaves(m) /\ call' = NoCall
    BY DEF MarkUnreachable
  <1> HIDE DEF m
  <1> QED BY <1>0, <1>1, <1>2, <1>3, <1>5, EndIInv

LEMMA PublisherDiesIInv == ASSUME IInv, PublisherDies, UNCHANGED decidingVars PROVE IInv'
  <1>0. call # NoCall /\ UNCHANGED reachable /\ tablesUnchanged
    BY DEF PublisherDies
  <1>1. PICK a \in {"refused", "lost"} : Leaves([Seen(a) EXCEPT !.deaths = @ + 1])
    BY DEF PublisherDies
  <1> DEFINE m == [Seen(a) EXCEPT !.deaths = @ + 1]
  <1>2. m \in Message /\ m.times = messages[call.of].times /\ m.topic = messages[call.of].topic
        /\ m.status = "queued" /\ m.attempts = messages[call.of].attempts
        /\ m.outages = messages[call.of].outages /\ m.deaths = messages[call.of].deaths + 1
        /\ m.shown <= messages[call.of].shown + 1
    <2>1. Seen(a) \in Message
      BY <1>0, SeenMessage
    <2>2. m.times = Seen(a).times /\ m.topic = Seen(a).topic /\ m.attempts = Seen(a).attempts
          /\ m.outages = Seen(a).outages /\ m.deaths = Seen(a).deaths + 1 /\ m.shown = Seen(a).shown
          /\ m.status = Seen(a).status /\ m \in Message
      BY <2>1 DEF Message
    <2>3. Seen(a).shown <= messages[call.of].shown + 1 /\ Seen(a).deaths = messages[call.of].deaths
      <3>1. messages[call.of].shown \in Nat
        BY <1>0, InHand DEF Message
      <3> QED BY <1>0, <3>1, SeenMessage
    <2> HIDE DEF m
    <2> QED BY <1>0, <2>2, <2>3, SeenMessage
  <1>3. Account(m)
    BY <1>0, <1>2, InHand DEF Account, Message
  <1>4. Leaves(m) /\ call' = NoCall
    BY <1>1 DEF PublisherDies
  <1> HIDE DEF m
  <1> QED BY <1>0, <1>2, <1>3, <1>4, EndIInv DEF IInv, TypeOK

LEMMA MarkFailsIInv == ASSUME IInv, MarkFails, UNCHANGED decidingVars PROVE IInv'
  <1>0. call # NoCall
    BY DEF MarkFails, NoCall
  <1>1. UNCHANGED <<reachable, decidingVars>> /\ tablesUnchanged /\ Failed(messages[call.of], 1)
    BY DEF MarkFails
  <1>2. messages[call.of].shown \in Nat
    BY <1>0, InHand DEF Message
  <1> QED BY <1>0, <1>1, <1>2, InHand, FailureIInv

\* Attempts fail by the network, or where an exception is stated.
LEMMA GivesUpIInv ==
  ASSUME IInv, NEW a \in {"refused", "lost", "topicGone", "migrated", "unreachable"}, GivesUp(a),
         UNCHANGED decidingVars
  PROVE  IInv'
  <1>0. call # NoCall /\ UNCHANGED <<reachable, decidingVars>> /\ tablesUnchanged
        /\ Failed(Seen(a), IF a \in {"refused", "lost"} THEN 1 ELSE 0) /\ Hears(a)
    BY DEF GivesUp, Hears, Calling, NoCall
  <1>i. /\ call \in Call /\ call.of \in Ids /\ Account(messages[call.of])
        /\ messages[call.of] \in Message /\ messages[call.of].status = "queued"
    BY <1>0, InHand
  <1>k. kind \in Kinds /\ group \in Ids
    BY DEF IInv, TypeOK
  <1>1. a \notin {"refused", "lost"} => a = Answer
    BY <1>0 DEF Hears
  <1>2. a \in {"refused", "lost"} \/ Excepted
    <2> SUFFICES ASSUME a = Answer, a \in {"topicGone", "migrated", "unreachable"}, ~Excepted PROVE FALSE
      BY <1>1
    <2>1. CASE a = "topicGone"
      <3>1. call.to # User /\ call.topic
        BY <2>1 DEF Answer
      <3>2. "topicGone" \in FallsBackOn /\ call.stage = "first"
        BY <3>1, <1>0, <1>k, Recovery DEF IInv, CallInHand, FallsBackOn
      <3> QED BY <2>1, <3>1, <3>2 DEF GivesUp
    <2>2. CASE a = "migrated"
      <3>1. call.to # User /\ call.to # group
        BY <2>2 DEF Answer
      <3>2. group = "new" /\ call.to = "old"
        BY <3>1, <1>0, <1>i, <1>k, InHand DEF Call, Ids
      <3>3. ~Personal /\ kind # "result" /\ "migrated" \in Publisher.recovers
        BY <3>1, <3>2, <1>0, <1>k, Recovery DEF IInv, CallInHand, Excepted
      <3>4. call.stage \in {"first", "plain"}
        BY <3>2, <3>3, <1>0 DEF IInv, CallInHand, Hears, Calling
      <3> QED BY <2>2, <3>3, <3>4 DEF GivesUp, Reaims
    <2>3. CASE a = "unreachable"
      <3>1. Personal
        BY <2>3, <1>0 DEF Answer, IInv, CallInHand
      <3>2. "unreachable" \in Publisher.recovers
        BY <3>1, <1>k, Recovery DEF Excepted
      <3> QED BY <2>3, <3>2 DEF GivesUp
    <2> QED BY <2>1, <2>2, <2>3
  <1>3. /\ Seen(a) \in Message /\ Seen(a).times = messages[call.of].times
        /\ Seen(a).topic = messages[call.of].topic /\ Seen(a).status = "queued"
        /\ Seen(a).attempts = messages[call.of].attempts /\ Seen(a).outages = messages[call.of].outages
        /\ Seen(a).deaths = messages[call.of].deaths
    BY <1>0, SeenMessage
  <1>4. Seen(a).shown <= messages[call.of].shown + (IF a \in {"refused", "lost"} THEN 1 ELSE 0)
    <2>1. messages[call.of].shown \in Nat
      BY <1>i DEF Message
    <2> QED BY <2>1, <1>0, SeenMessage
  <1> QED BY <1>0, <1>2, <1>3, <1>4, FailureIInv

LEMMA TopicGoneIInv ==
  ASSUME IInv, NEW a, TopicGone(a), UNCHANGED decidingVars
  PROVE  IInv'
  <1> USE DEF tablesUnchanged, telegramVars
  <1>0. call # NoCall /\ a = "topicGone" /\ call.stage = "first" /\ call.topic
    BY DEF TopicGone, NoCall, FallsBackOn
  <1>k. kind \in Kinds /\ call \in Call
    BY <1>0, InHand DEF IInv, TypeOK
  <1>1. MessagesStand /\ messages'[call.of].status = "queued"
    BY <1>0, SeenMessage, RecordingStands DEF TopicGone
  <1>2. RowsStand
    BY UnchangedStands DEF TopicGone
  <1>3. call' \in Call /\ call'.of = call.of /\ call'.to = call.to /\ ~call'.topic
        /\ call'.stage = IF "migrated" \in Publisher.recovers THEN "plain" ELSE "last"
    BY <1>k DEF TopicGone, Call
  <1>4. CallStands
    BY <1>0, <1>1, <1>3, <1>k, InHand, Recovery DEF CallStands, IInv, CallInHand, TopicGone
  <1>5. reachable' \in BOOLEAN
    BY DEF TopicGone, IInv, TypeOK
  <1> QED BY <1>1, <1>2, <1>4, <1>5, UndecidedStep DEF TopicGone, IInv, TypeOK

\* Re-aiming: the id heard of is the group's.
LEMMA MigratedIInv == ASSUME IInv, Migrated, UNCHANGED decidingVars PROVE IInv'
  <1> USE DEF telegramVars
  <1>0. call # NoCall /\ call.to # User /\ call.to # group /\ Calling
    BY DEF Migrated, Hears, Calling, NoCall, Answer
  <1>1. call \in Call /\ group = "new"
    BY <1>0, InHand DEF IInv, TypeOK, Call, Ids
  <1>2. RowsStand
    BY <1>1, MigrationStands, UnchangedStands DEF Migrated
  <1>3. MessagesStand
    BY UnchangedStands DEF Migrated
  <1>4. call' \in Call /\ call'.of = call.of /\ call'.to = "new" /\ ~call'.topic /\ call'.stage = "last"
    BY <1>1 DEF Migrated, Call, Ids
  <1>5. ~Personal /\ User # "new"
    BY <1>0, UserIsNoGroup DEF IInv, CallInHand, Ids
  <1>6. CallStands
    BY <1>0, <1>1, <1>4, <1>5, InHand DEF CallStands, Migrated
  <1> QED BY <1>2, <1>3, <1>6, UndecidedStep DEF Migrated, IInv, TypeOK

LEMMA UnreachableIInv == ASSUME IInv, Unreachable, UNCHANGED decidingVars PROVE IInv'
  <1> USE DEF tablesUnchanged, telegramVars
  <1>0. call # NoCall /\ call.to = User
    BY DEF Unreachable, Hears, Calling, NoCall, Answer
  <1>1. RowsStand /\ MessagesStand
    BY UnchangedStands DEF Unreachable
  <1>2. call \in Call /\ Personal /\ ~call.topic
    BY <1>0, InHand DEF IInv, CallInHand
  <1>3. call' \in Call /\ call'.of = call.of /\ call'.to = call.to /\ ~call'.topic /\ call'.stage = "mark"
    BY <1>2 DEF Unreachable, Call
  <1>4. CallStands
    BY <1>0, <1>2, <1>3, InHand DEF CallStands, Unreachable
  <1> QED BY <1>1, <1>4, UndecidedStep DEF Unreachable, IInv, TypeOK

\* Telegram and its people change no row and no message.
LEMMA OutsideIInv ==
  ASSUME IInv, Upgrade \/ DeleteTopic \/ Block \/ PrivateMessage, UNCHANGED decidingVars
  PROVE  IInv'
  <1>1. UNCHANGED <<kind, rowVars, wants, messages, call>> /\ group' \in {group, "new"}
        /\ topicOpen' \in BOOLEAN /\ blocked' \in BOOLEAN /\ reachable' \in BOOLEAN
    BY DEF Upgrade, DeleteTopic, Block, PrivateMessage, IInv, TypeOK
  <1>2. RowsStand /\ MessagesStand /\ CallStands
    <2>1. CASE group' = group
      BY <1>1, <2>1, UnchangedStands
    <2>2. CASE group' = "new"
      <3>1. RowsStand
        BY <1>1, <2>2 DEF IInv, TypeOK, RowsStand, rowVars, Marked, Cascades, Digest
      <3>2. MessagesStand
        BY <1>1, <2>2 DEF IInv, TypeOK, Accounts, MessagesStand, Account, Excepted
      <3>3. CallStands
        BY <1>1, <2>2 DEF IInv, TypeOK, CallInHand, CallStands
      <3> QED BY <3>1, <3>2, <3>3
    <2> QED BY <1>1, <2>1, <2>2
  <1> QED BY <1>1, <1>2, UndecidedStep

LEMMA PublishingIInv == ASSUME IInv, PublishingNext, UNCHANGED decidingVars PROVE IInv'
  <1>1. CASE MigrationMessage
    BY <1>1, MigrationMessageIInv
  <1>2. CASE GroupMessage
    BY <1>2, GroupMessageIInv
  <1>3. CASE \E c \in Ids : Publish(c)
    BY <1>3, PublishIInv
  <1>4. CASE Delivered
    BY <1>4, DeliveredIInv
  <1>5. CASE Migrated
    BY <1>5, MigratedIInv
  <1>6. CASE Unreachable
    BY <1>6, UnreachableIInv
  <1>7. CASE MarkUnreachable
    BY <1>7, MarkUnreachableIInv
  <1>8. CASE MarkFails
    BY <1>8, MarkFailsIInv
  <1>9. ASSUME NEW a \in {"refused", "lost", "topicGone", "migrated", "unreachable"}, TopicGone(a)
        PROVE  IInv'
    BY <1>9, TopicGoneIInv
  <1>10. ASSUME NEW a \in {"refused", "lost", "topicGone", "migrated", "unreachable"}, GivesUp(a)
         PROVE  IInv'
    BY <1>10, GivesUpIInv
  <1>11. CASE PublisherDies
    BY <1>11, PublisherDiesIInv
  <1>12. CASE Upgrade \/ DeleteTopic \/ Block \/ PrivateMessage
    BY <1>12, OutsideIInv
  <1> QED BY <1>1, <1>2, <1>3, <1>4, <1>5, <1>6, <1>7, <1>8, <1>9, <1>10, <1>11, <1>12 DEF PublishingNext

-----------------------------------------------------------------------------
(* Deciders *)

\* What counts as an answer to a mark.
Answers == Told \cup quiet \cup InFlight \cup IF Digest THEN {} ELSE cut

LEMMA AnswersGrow ==
  ASSUME IInv, UNCHANGED kind, Answers \subseteq Answers', \A c \in claims' \ claims : Same(c) \cap Answers' # {}
  PROVE  ClaimedNoticesAreSent'
  <1> Digest' = Digest /\ \A c \in Ids : Same(c)' = Same(c)
    BY DEF Digest, Same, Cascades
  <1>1. ASSUME NEW c \in claims' PROVE Same(c)' \cap Answers' # {}
    <2> Same(c)' = Same(c)
      BY DEF Digest, Same, Cascades
    <2>1. CASE c \in claims
      BY <2>1 DEF IInv, ClaimedNoticesAreSent, Answers
    <2>2. CASE c \notin claims
      BY <2>2
    <2> QED BY <2>1, <2>2
  <1> QED BY <1>1 DEF ClaimedNoticesAreSent, Answers

\* A message queued where none was.
LEMMA QueuedMessage ==
  ASSUME IInv, NEW c \in Ids, Enqueue(c), messages[c].times = 0, UNCHANGED <<kind, group>>
  PROVE  /\ messages' \in [Ids -> Message]
         /\ \A x \in Ids : messages'[x] = IF x = c THEN messages'[c] ELSE messages[x]
         /\ Account(messages[c])' /\ messages'[c].times = 1 /\ messages'[c].status = "queued"
         /\ (messages'[c].topic => ~Personal)
  <1>1. kind \in Kinds /\ messages[c] \in Message
    BY DEF IInv, TypeOK
  <1>2. Publisher.topic \in BOOLEAN /\ (Personal => ~Publisher.topic)
    BY <1>1, Recovery
  <1>3. messages' = [messages EXCEPT ![c] = messages'[c]]
        /\ messages'[c] = [NoMessage EXCEPT !.status = "queued", !.topic = Publisher.topic,
                                            !.times = messages[c].times + 1]
    BY DEF Enqueue, IInv, TypeOK
  <1>4. messages[c].times + 1 = 1
    OBVIOUS
  <1>5. messages'[c] = [status |-> "queued", topic |-> Publisher.topic, attempts |-> 0, outages |-> 0,
                        deaths |-> 0, shown |-> 0, times |-> 1]
    BY <1>3, <1>4 DEF NoMessage
  <1>6. messages'[c] \in Message /\ messages'[c].topic = Publisher.topic
    BY <1>2, <1>5, PublishingConstants DEF Message
  <1>7. Account(messages[c])'
    BY <1>5, PublishingConstants DEF Account
  <1>8. messages' \in [Ids -> Message] /\ \A x \in Ids : messages'[x] = IF x = c THEN messages'[c] ELSE messages[x]
    BY <1>3, <1>6 DEF IInv, TypeOK
  <1> QED BY <1>2, <1>5, <1>6, <1>7, <1>8

\* The parts a decider's step leaves alone, when it queues nothing ...
LEMMA NothingQueued ==
  ASSUME IInv, UNCHANGED <<kind, group, rows, call, messages>>,
         \A d \in Deciders : group = "old" => jobs'[d].chat # "new"
  PROVE  NewIdIsReal' /\ CallInHand' /\ Accounts'
  <1> Personal' = Personal
    BY DEF Personal, Publisher
  <1> QED BY DEF IInv, NewIdIsReal, CallInHand, Accounts, Account, Excepted

\* ... and when it queues a message where none was.
LEMMA OneQueued ==
  ASSUME IInv, UNCHANGED <<kind, group, rows, call>>, NEW c \in Ids, Enqueue(c), messages[c].times = 0,
         group = "old" => c # "new", \A d \in Deciders : group = "old" => jobs'[d].chat # "new"
  PROVE  NewIdIsReal' /\ CallInHand' /\ Accounts'
  <1> Personal' = Personal
    BY DEF Personal, Publisher
  <1>1. /\ \A x \in Ids : messages'[x] = IF x = c THEN messages'[c] ELSE messages[x]
        /\ Account(messages[c])' /\ messages'[c].status = "queued" /\ (messages'[c].topic => ~Personal)
    BY QueuedMessage
  <1>2. NewIdIsReal'
    BY <1>1 DEF IInv, NewIdIsReal, Ids
  <1>3. CallInHand'
    <2>1. call # NoCall => call.of \in Ids
      BY InHand
    <2> QED BY <1>1, <2>1 DEF IInv, CallInHand
  <1>4. Accounts'
    BY <1>1 DEF IInv, Accounts, Account, Excepted
  <1> QED BY <1>2, <1>3, <1>4

\* The environment: what no decider has in hand.
LEMMA EnvironmentIInv ==
  ASSUME IInv, TypeOK', UNCHANGED <<kind, group, rows, claims, messages, call, jobs, cut, quiet>>
  PROVE  IInv'
  <1>1. NewIdIsReal' /\ CallInHand' /\ Accounts'
    BY NothingQueued DEF IInv, NewIdIsReal
  <1>2. Marks' /\ Reasons'
    BY DEF IInv, Marks, Reasons, Marked, Cascades, Atomic, Digest, Telling
  <1>3. ClaimedNoticesAreSent'
    BY AnswersGrow DEF Answers, Told, InFlight, Digest
  <1> QED BY <1>1, <1>2, <1>3 DEF IInv

LEMMA TimeAndPeopleIInv ==
  ASSUME IInv,
         \/ SweepOthers \/ TimePasses \/ ActivityChanges
         \/ \E x \in Ids \cup {User} : SetNotifyEnabled(x)
         \/ \E c \in Ids : Subscribe(c) \/ Unsubscribe(c) \/ \E g \in {"off", "on", "auto"} : SetGame(c, g)
  PROVE  IInv'
  <1> USE DEF publishingVars, decidingVars, telegramVars, rowVars
  <1>1. CASE SweepOthers
    <2>1. ahead' \in 0 .. MaxAhead
      BY <1>1, NoticesConstants DEF SweepOthers, IInv, TypeOK
    <2> QED BY <1>1, <2>1, EnvironmentIInv DEF SweepOthers, IInv, TypeOK
  <1>2. CASE TimePasses
    BY <1>2, EnvironmentIInv DEF TimePasses, IInv, TypeOK
  <1>3. CASE ActivityChanges
    BY <1>3, EnvironmentIInv DEF ActivityChanges, IInv, TypeOK
  <1>4. ASSUME NEW x \in Ids \cup {User}, SetNotifyEnabled(x) PROVE IInv'
    BY <1>4, EnvironmentIInv DEF SetNotifyEnabled, IInv, TypeOK
  <1>5. ASSUME NEW c \in Ids, Subscribe(c) \/ Unsubscribe(c) PROVE IInv'
    BY <1>5, EnvironmentIInv DEF Subscribe, Unsubscribe, IInv, TypeOK
  <1>6. ASSUME NEW c \in Ids, NEW g \in {"off", "on", "auto"}, SetGame(c, g) PROVE IInv'
    BY <1>6, EnvironmentIInv DEF SetGame, IInv, TypeOK
  <1> QED BY <1>1, <1>2, <1>3, <1>4, <1>5, <1>6

\* Why a decider begins.
LEMMA ReadsFacts ==
  ASSUME IInv, NEW c \in Ids, NEW d \in Deciders, Reads(c, d)
  PROVE  /\ kind \in Decided /\ (c \in rows \/ c = "old")
         /\ (kind = "reminder" => d = "sweep" /\ messages[c].times = 0)
         /\ (~Atomic => Wants(c) \/ (kind = "offer" /\ AutoSubscribesTo(c)))
  <1> rows \subseteq Ids /\ subscribed \subseteq rows /\ history \in rows \cup {"lost"}
    BY DEF IInv, TypeOK
  <1>1. CASE Digest
    <2> kind \in Decided /\ c \in rows /\ Atomic /\ kind # "reminder"
      BY <1>1 DEF Reads, Digest, Decided, Atomic
    <2> QED OBVIOUS
  <1>2. CASE kind = "eve"
    BY <1>2 DEF Reads, Digest, Decided
  <1>3. CASE kind = "offer"
    BY <1>3 DEF Reads, Digest, Decided, Concerns, Wants
  <1>4. CASE kind = "crosssell"
    BY <1>4 DEF Reads, Digest, Decided
  <1>5. CASE kind = "reminder"
    <2>1. d = "sweep" /\ c = history /\ c \notin claims
      BY <1>5 DEF Reads, Digest
    <2>2. c \in rows
      BY <2>1 DEF Ids
    <2>3. messages[c].times = 0
      <3>1. messages[c].times \in Nat
        BY DEF IInv, TypeOK, Message
      <3> QED BY <2>1, <2>2, <3>1 DEF IInv, Marks, Marked
    <2> QED BY <1>5, <2>1, <2>2, <2>3 DEF Decided, Atomic
  <1> QED BY <1>1, <1>2, <1>3, <1>4, <1>5 DEF Reads

LEMMA BeginIInv == ASSUME IInv, NEW d \in Deciders, NEW c \in Ids, Begin(d, c) PROVE IInv'
  <1> USE DEF publishingVars, telegramVars, rowVars
  <1> DEFINE job == [chat |-> c, stage |-> "read", wanted |-> Wants(c) /\ (Digest => active /\ c = history),
                     auto |-> kind = "offer" /\ AutoSubscribesTo(c)]
  <1>1. Reads(c, d) /\ jobs[d] = NoJob /\ jobs' = [jobs EXCEPT ![d] = job]
        /\ UNCHANGED <<publishingVars, phase, active, ahead, cut, quiet>>
    BY DEF Begin
  <1>2. job \in Job /\ job.chat = c /\ job.stage = "read"
    BY DEF Job
  <1>3. ~Atomic => job.wanted \/ job.auto
    BY <1>1, ReadsFacts DEF Atomic
  <1> HIDE DEF job
  <1>4. jobs' \in [Deciders -> Job \cup {NoJob}] /\ \A e \in Deciders : jobs'[e] = IF e = d THEN job ELSE jobs[e]
    BY <1>1, <1>2 DEF IInv, TypeOK
  <1>5. TypeOK'
    BY <1>1, <1>4 DEF IInv, TypeOK
  <1>6. NewIdIsReal' /\ CallInHand' /\ Accounts'
    <2>1. group = "old" => c # "new"
      BY <1>1, ReadsFacts DEF IInv, NewIdIsReal
    <2>2. \A e \in Deciders : group = "old" => jobs'[e].chat # "new"
      BY <1>2, <1>4, <2>1 DEF IInv, NewIdIsReal
    <2> QED BY <1>1, <2>2, NothingQueued
  <1>7. \A e \in Deciders : Telling(e)' <=> Telling(e) /\ e # d
    BY <1>1, <1>2, <1>4 DEF Telling, NoJob
  <1>8. Marks'
    BY <1>1, <1>4, <1>7 DEF IInv, Marks, Marked, Cascades, Atomic, Digest
  <1>9. Reasons'
    <2>1. kind \notin Commissioned
      BY <1>1, ReadsFacts DEF Decided, Commissioned
    <2>2. kind = "reminder" => d = "sweep" /\ messages[c].times = 0
      BY <1>1, ReadsFacts
    <2> QED BY <1>1, <1>2, <1>3, <1>4, <2>1, <2>2 DEF IInv, Reasons, Atomic, Digest, Deciders
  <1>10. ClaimedNoticesAreSent'
    <2>1. InFlight \subseteq InFlight'
      <3> ~Telling(d)
        BY <1>1 DEF Telling, NoJob
      <3> QED BY <1>4, <1>7 DEF InFlight, Telling
    <2> QED BY <1>1, <2>1, AnswersGrow DEF Answers, Told, Digest
  <1> QED BY <1>5, <1>6, <1>8, <1>9, <1>10 DEF IInv

\* A decider with a notice in hand.
LEMMA JobInHand ==
  ASSUME IInv, NEW d \in Deciders, jobs[d].stage \in {"read", "join", "tell"} \/ jobs[d] # NoJob
  PROVE  /\ jobs[d] \in Job /\ jobs[d].chat \in Ids /\ jobs[d].stage \in {"read", "join", "tell"}
         /\ (group = "old" => jobs[d].chat # "new") /\ jobs[d].wanted \in BOOLEAN /\ jobs[d].auto \in BOOLEAN
  <1>1. jobs[d] \in Job
    BY DEF IInv, TypeOK, NoJob
  <1>2. group = "old" => jobs[d].chat # "new"
    BY DEF IInv, NewIdIsReal
  <1> QED BY <1>1, <1>2 DEF Job

\* It is done with it, or goes on with it.
LEMMA IdleFacts ==
  ASSUME IInv, NEW d \in Deciders, Idle(d)
  PROVE  /\ jobs' \in [Deciders -> Job \cup {NoJob}] /\ jobs'[d] = NoJob
         /\ \A e \in Deciders \ {d} : jobs'[e] = jobs[e]
         /\ \A e \in Deciders : Telling(e)' <=> Telling(e) /\ e # d
         /\ \A e \in Deciders : group = "old" => jobs'[e].chat # "new"
  <1>1. jobs' \in [Deciders -> Job \cup {NoJob}] /\ \A e \in Deciders : jobs'[e] = IF e = d THEN NoJob ELSE jobs[e]
    BY DEF Idle, IInv, TypeOK
  <1> QED BY <1>1 DEF Telling, NoJob, IInv, NewIdIsReal

LEMMA GoesFacts ==
  ASSUME IInv, NEW d \in Deciders, NEW stage \in {"join", "tell"}, Goes(d, stage), jobs[d] # NoJob
  PROVE  /\ jobs' \in [Deciders -> Job \cup {NoJob}] /\ jobs'[d].chat = jobs[d].chat /\ jobs'[d].stage = stage
         /\ \A e \in Deciders \ {d} : jobs'[e] = jobs[e]
         /\ \A e \in Deciders : Telling(e)' <=> Telling(e) \/ e = d
         /\ \A e \in Deciders : group = "old" => jobs'[e].chat # "new"
  <1>1. jobs[d] \in Job
    BY JobInHand
  <1>2. PICK job : job = [jobs[d] EXCEPT !.stage = stage] /\ jobs' = [jobs EXCEPT ![d] = job]
    BY <1>1 DEF Goes, IInv, TypeOK, Job
  <1>3. job \in Job /\ job.chat = jobs[d].chat /\ job.stage = stage
    BY <1>1, <1>2 DEF Job
  <1>4. jobs' \in [Deciders -> Job \cup {NoJob}] /\ \A e \in Deciders : jobs'[e] = IF e = d THEN job ELSE jobs[e]
    BY <1>2, <1>3 DEF IInv, TypeOK
  <1> QED BY <1>3, <1>4 DEF Telling, IInv, NewIdIsReal

\* A decider that marks and tells in one transaction, or tells nobody.
LEMMA AtomicStep ==
  ASSUME IInv, NEW d \in Deciders, Atomic, jobs[d].stage = "read", Idle(d), NEW c \in Ids,
         UNCHANGED <<kind, telegramVars, rows, history, games, subscribed, wants, reachable, call, phase, active, ahead>>,
         claims \subseteq claims', claims' \subseteq Ids, quiet \subseteq quiet', quiet' \subseteq Ids,
         cut \subseteq cut', cut' \subseteq Ids, group = "old" => c # "new",
         \/ UNCHANGED messages
         \/ Enqueue(c) /\ messages[c].times = 0 /\ c \in claims',
         \A x \in claims' \ claims : Same(x) \cap Answers' # {}
  PROVE  IInv'
  <1> USE DEF telegramVars
  <1>1. /\ jobs' \in [Deciders -> Job \cup {NoJob}] /\ jobs'[d] = NoJob
        /\ \A e \in Deciders \ {d} : jobs'[e] = jobs[e]
        /\ \A e \in Deciders : group = "old" => jobs'[e].chat # "new"
    BY IdleFacts
  <1>t. \A e \in Deciders : ~Telling(e) /\ ~Telling(e)'
    BY IdleFacts DEF IInv, Marks
  <1>2. NewIdIsReal' /\ CallInHand' /\ Accounts'
    BY <1>1, NothingQueued, OneQueued
  <1>3. /\ messages' \in [Ids -> Message]
        /\ \A x \in Ids : \/ messages'[x] = messages[x]
                          \/ x \in claims' /\ messages[x].times = 0 /\ messages'[x].times = 1
    <2>1. CASE UNCHANGED messages
      BY <2>1 DEF IInv, TypeOK
    <2>2. CASE Enqueue(c) /\ messages[c].times = 0 /\ c \in claims'
      BY <2>2, QueuedMessage
    <2> QED BY <2>1, <2>2
  <1>4. TypeOK'
    BY <1>1, <1>3 DEF IInv, TypeOK
  <1>5. Marks'
    <2>1. ASSUME NEW x \in Ids PROVE messages'[x].times <= 1 /\ (messages'[x].times > 0 => Marked(x)')
      BY <1>3 DEF IInv, Marks, Marked, Cascades, Digest
    <2> QED BY <1>t, <2>1 DEF Marks
  <1>6. Reasons'
    <2>1. kind = "reminder" => \A e \in Deciders : jobs'[e] = NoJob
      BY <1>1 DEF IInv, Reasons, Deciders, NoJob
    <2>2. kind \in Commissioned => \A e \in Deciders : jobs'[e] = NoJob
      BY <1>1 DEF IInv, Reasons
    <2>3. Atomic'
      BY DEF Atomic, Digest
    <2> QED BY <2>1, <2>2, <2>3 DEF Reasons, Deciders, NoJob
  <1>7. ClaimedNoticesAreSent'
    <2>1. InFlight = {} /\ Told \subseteq Told'
      BY <1>t, <1>3 DEF InFlight, Telling, Told
    <2> QED BY <2>1, AnswersGrow DEF Answers, Digest
  <1> QED BY <1>2, <1>4, <1>5, <1>6, <1>7 DEF IInv

LEMMA ClaimReportIInv == ASSUME IInv, NEW d \in Deciders, ClaimReport(d) PROVE IInv'
  <1> DEFINE c == jobs[d].chat
  <1>1. Digest /\ Atomic /\ jobs[d].stage = "read" /\ Idle(d)
    BY DEF ClaimReport, Atomic
  <1>2. c \in Ids /\ (group = "old" => c # "new") /\ claims \subseteq Ids /\ quiet \subseteq Ids /\ cut \subseteq Ids
    BY <1>1, JobInHand DEF IInv, TypeOK
  <1>3. UNCHANGED <<kind, telegramVars, rows, history, games, subscribed, wants, reachable, call, phase, active, ahead, cut>>
    BY DEF ClaimReport
  <1>4. CASE c \in rows \ claims
    <2>1. claims' = claims \cup {c} /\ TellsIf(jobs[d].wanted, c)
      BY <1>4 DEF ClaimReport
    <2>2. messages[c].times = 0
      <3>1. messages[c].times \in Nat
        BY <1>2 DEF IInv, TypeOK, Message
      <3> QED BY <1>2, <1>4, <3>1 DEF IInv, Marks, Marked
    <2>3. c \in Same(c)
      BY <1>2 DEF Same
    <2>4. CASE jobs[d].wanted
      <3>1. Enqueue(c) /\ UNCHANGED quiet
        BY <2>1, <2>4 DEF TellsIf
      <3>2. c \in Told'
        BY <1>2, <1>3, <2>2, <3>1, QueuedMessage DEF Told, telegramVars
      <3> QED BY <1>1, <1>2, <1>3, <2>1, <2>2, <2>3, <3>1, <3>2, AtomicStep DEF Answers
    <2>5. CASE ~jobs[d].wanted
      <3>1. quiet' = quiet \cup {c} /\ UNCHANGED messages
        BY <2>1, <2>5 DEF TellsIf
      <3> QED BY <1>1, <1>2, <1>3, <2>1, <2>3, <3>1, AtomicStep DEF Answers
    <2> QED BY <2>4, <2>5
  <1>5. CASE c \notin rows \ claims
    <2>1. UNCHANGED <<claims, messages, quiet>>
      BY <1>5 DEF ClaimReport
    <2> QED BY <1>1, <1>2, <1>3, <2>1, AtomicStep
  <1> QED BY <1>4, <1>5

LEMMA RemindIInv == ASSUME IInv, NEW d \in Deciders, Remind(d) PROVE IInv'
  <1> DEFINE c == jobs[d].chat
  <1>1. kind = "reminder" /\ Atomic /\ ~Digest /\ jobs[d].stage = "read" /\ Idle(d)
    BY DEF Remind, Atomic, Digest
  <1>2. c \in Ids /\ (group = "old" => c # "new") /\ claims \subseteq Ids /\ quiet \subseteq Ids /\ cut \subseteq Ids
    BY <1>1, JobInHand DEF IInv, TypeOK
  <1>3. UNCHANGED <<kind, telegramVars, rows, history, games, subscribed, wants, reachable, call, phase, active, ahead>>
        /\ claims' = claims \cup ({history} \cap Ids)
    BY DEF Remind
  <1>4. messages[c].times = 0
    BY <1>1 DEF IInv, Reasons
  <1>5. \A x \in claims' : c \in Same(x)
    BY <1>1, <1>2 DEF Same, Cascades
  <1>6. CASE c = history /\ active /\ User \in wants /\ reachable
    <2>1. Enqueue(c) /\ UNCHANGED <<quiet, cut>>
      BY <1>6 DEF Remind, TellsIf
    <2>2. c \in Told'
      BY <1>2, <1>3, <1>4, <2>1, QueuedMessage DEF Told, telegramVars
    <2> QED BY <1>1, <1>2, <1>3, <1>4, <1>5, <1>6, <2>1, <2>2, AtomicStep DEF Answers
  <1>7. CASE c = history /\ ~(active /\ User \in wants /\ reachable)
    <2>1. quiet' = quiet \cup {c} /\ UNCHANGED <<messages, cut>>
      BY <1>7 DEF Remind, TellsIf
    <2> QED BY <1>1, <1>2, <1>3, <1>5, <2>1, AtomicStep DEF Answers
  <1>8. CASE c # history
    <2>1. cut' = cut \cup {c} /\ UNCHANGED <<messages, quiet>>
      BY <1>8 DEF Remind
    <2>2. ~Digest'
      BY <1>1, <1>3 DEF Digest
    <2> QED BY <1>1, <1>2, <1>3, <1>5, <2>1, <2>2, AtomicStep DEF Answers
  <1> QED BY <1>6, <1>7, <1>8

\* The first statement of an eve, an offer or a cross-sell: the mark is new, so the
\* chat was not told and nobody else is telling it.
LEMMA RecordIInv == ASSUME IInv, NEW d \in Deciders, Record(d) PROVE IInv'
  <1> USE DEF telegramVars
  <1>c. PICK c : c = jobs[d].chat
    OBVIOUS
  <1>1. ~Atomic /\ jobs[d].stage = "read" /\ ~Telling(d) /\ kind # "reminder"
    BY DEF Record, Telling, Atomic
  <1>2. jobs[d] \in Job /\ c \in Ids /\ claims' = claims \cup {c}
    BY <1>c, <1>1, JobInHand DEF Record
  <1>3. UNCHANGED <<kind, telegramVars, rows, history, games, subscribed, wants, reachable, messages, call, phase,
                    active, ahead, cut, quiet>>
    BY DEF Record
  <1>4. /\ jobs' \in [Deciders -> Job \cup {NoJob}]
        /\ jobs'[d] = NoJob \/ (jobs'[d].chat = c /\ jobs'[d].stage \in {"join", "tell"})
        /\ \A e \in Deciders \ {d} : jobs'[e] = jobs[e] /\ (Telling(e)' <=> Telling(e))
        /\ \A e \in Deciders : group = "old" => jobs'[e].chat # "new"
        /\ (Telling(d)' <=> c \notin claims)
        /\ (Telling(d)' => jobs'[d].chat = c)
    <2>1. jobs[d].auto \/ jobs[d].wanted
      BY <1>1 DEF IInv, Reasons
    <2>2. CASE c \in claims
      <3>1. Idle(d)
        BY <1>c, <2>2 DEF Record, IsNew
      <3>2. jobs'[d] = NoJob /\ ~Telling(d)'
        BY <3>1, IdleFacts DEF Telling, NoJob
      <3>3. \A e \in Deciders : Telling(e)' <=> Telling(e) /\ e # d
        BY <3>1, IdleFacts
      <3> QED BY <2>2, <3>1, <3>2, <3>3, IdleFacts
    <2>3. CASE c \notin claims
      <3>1. PICK stage \in {"join", "tell"} : Goes(d, stage)
        BY <1>c, <2>1, <2>3 DEF Record, IsNew
      <3>2. jobs[d] # NoJob
        BY <1>1 DEF NoJob
      <3> QED BY <1>c, <2>3, <3>1, <3>2, GoesFacts
    <2> QED BY <2>2, <2>3
  <1>5. c \notin claims => messages[c].times = 0 /\ ~Marked(c)
    <2>1. ~Marked(c) \/ c \in claims
      BY <1>c, <1>1 DEF Marked, Cascades, Atomic, Record
    <2>2. messages[c].times \in Nat
      BY <1>2 DEF IInv, TypeOK, Message
    <2> QED BY <1>2, <2>1, <2>2 DEF IInv, Marks
  <1>6. TypeOK'
    BY <1>2, <1>3, <1>4 DEF IInv, TypeOK
  <1>7. NewIdIsReal' /\ CallInHand' /\ Accounts'
    BY <1>3, <1>4, NothingQueued
  <1>8. Marks'
    <2>1. \A x \in Ids : (Marked(x) => Marked(x)') /\ Marked(c)' /\ (Atomic' <=> Atomic)
      BY <1>2, <1>3 DEF Marked, Cascades, Atomic, Digest
    <2>2. \A e \in Deciders \ {d} : Telling(e) => jobs[e].chat \in Ids /\ (c \notin claims => jobs[e].chat # c)
      BY <1>5, JobInHand DEF IInv, Marks, Telling
    <2>3. ASSUME NEW e \in Deciders, Telling(e)'
          PROVE  ~Atomic' /\ Marked(jobs[e].chat)' /\ messages'[jobs'[e].chat].times = 0
      <3>1. CASE e = d
        <4>1. jobs'[e].chat = c /\ c \notin claims
          BY <1>4, <2>3, <3>1
        <4> QED BY <1>1, <1>2, <1>3, <1>5, <2>1, <4>1 DEF Marked
      <3>2. CASE e # d
        <4>1. Telling(e) /\ jobs'[e].chat = jobs[e].chat /\ jobs[e].chat \in Ids
          BY <1>4, <2>2, <2>3, <3>2
        <4>2. Marked(jobs[e].chat) /\ messages[jobs[e].chat].times = 0
          BY <4>1 DEF IInv, Marks
        <4> QED BY <1>1, <1>2, <1>3, <2>1, <4>1, <4>2 DEF Marked, Cascades, Digest
      <3> QED BY <3>1, <3>2
    <2>4. \A e, f \in Deciders : Telling(e)' /\ Telling(f)' /\ jobs'[e].chat = jobs'[f].chat => e = f
      <3> TAKE e, f \in Deciders
      <3>1. CASE e # d /\ f # d
        BY <1>4, <3>1 DEF IInv, Marks
      <3>2. CASE e = d \/ f = d
        BY <1>4, <2>2, <3>2
      <3> QED BY <3>1, <3>2
    <2>5. \A x \in Ids : messages'[x].times <= 1 /\ (messages'[x].times > 0 => Marked(x)')
      BY <1>3, <2>1 DEF IInv, Marks
    <2> QED BY <2>3, <2>4, <2>5 DEF Marks
  <1>9. Reasons'
    <2>1. kind \notin Commissioned /\ jobs'[d].stage # "read"
      BY <1>1, <1>4 DEF IInv, Reasons, NoJob
    <2>2. \A e \in Deciders : jobs'[e].stage = "read" => e # d
      BY <2>1
    <2> QED BY <1>1, <1>3, <1>4, <2>1, <2>2 DEF IInv, Reasons, Atomic, Digest
  <1>10. ClaimedNoticesAreSent'
    <2>1. InFlight \subseteq InFlight' /\ (c \notin claims => c \in InFlight')
      BY <1>1, <1>4 DEF InFlight, Telling
    <2>2. Told' = Told /\ c \in Same(c)
      BY <1>2, <1>3 DEF Told, Same
    <2> QED BY <1>2, <1>3, <2>1, <2>2, AnswersGrow DEF Answers, Digest
  <1> QED BY <1>6, <1>7, <1>8, <1>9, <1>10 DEF IInv

\* A decider past its mark, which leaves the claims alone.
LEMMA MarkedStep ==
  ASSUME IInv, NEW d \in Deciders, ~Atomic,
         UNCHANGED <<kind, telegramVars, rows, history, games, claims, wants, reachable, call, phase, active, ahead>>,
         subscribed' \subseteq rows, quiet' \subseteq Ids, cut' \subseteq Ids,
         \/ UNCHANGED messages
            /\ (Idle(d) \/ (Telling(d) /\ Goes(d, "tell")))
         \/ Telling(d) /\ Enqueue(jobs[d].chat) /\ Idle(d),
         quiet \subseteq quiet', cut \subseteq cut',
         Telling(d) => jobs[d].chat \in Answers'
  PROVE  IInv'
  <1> USE DEF telegramVars
  <1>c. PICK c : c = jobs[d].chat
    OBVIOUS
  <1>1. kind # "reminder" /\ ~Digest
    BY DEF Atomic
  <1>2. /\ jobs' \in [Deciders -> Job \cup {NoJob}]
        /\ jobs'[d] = NoJob \/ (jobs'[d].chat = c /\ jobs'[d].stage = "tell" /\ Telling(d))
        /\ \A e \in Deciders \ {d} : jobs'[e] = jobs[e]
        /\ \A e \in Deciders : Telling(e)' => Telling(e) /\ jobs'[e].chat = jobs[e].chat
        /\ \A e \in Deciders \ {d} : Telling(e) => Telling(e)'
        /\ \A e \in Deciders : group = "old" => jobs'[e].chat # "new"
    <2>1. CASE Idle(d)
      BY <1>c, <2>1, IdleFacts
    <2>2. CASE Telling(d) /\ Goes(d, "tell")
      <3>1. jobs[d] # NoJob
        BY <2>2 DEF Telling, NoJob
      <3> QED BY <1>c, <2>2, <3>1, GoesFacts
    <2> QED BY <2>1, <2>2
  <1>3. Telling(d) => c \in Ids /\ (group = "old" => c # "new") /\ messages[c].times = 0 /\ Marked(c)
    BY <1>c, JobInHand DEF IInv, Marks, Telling
  <1>4. NewIdIsReal' /\ CallInHand' /\ Accounts'
    BY <1>c, <1>2, <1>3, NothingQueued, OneQueued
  <1>5. /\ messages' \in [Ids -> Message]
        /\ \/ messages' = messages
           \/ /\ Telling(d) /\ ~Telling(d)'
              /\ \A x \in Ids : messages'[x] = IF x = c THEN messages'[c] ELSE messages[x]
              /\ messages'[c].times = 1
    <2>1. CASE messages' = messages
      BY <2>1 DEF IInv, TypeOK
    <2>2. CASE Telling(d) /\ Enqueue(jobs[d].chat) /\ Idle(d)
      BY <1>c, <1>3, <2>2, QueuedMessage, IdleFacts
    <2> QED BY <2>1, <2>2
  <1>6. TypeOK'
    BY <1>2, <1>5 DEF IInv, TypeOK
  <1>7. Marks'
    <2>1. \A x \in Ids : (Marked(x)' <=> Marked(x)) /\ (Atomic' <=> Atomic)
      BY DEF Marked, Cascades, Atomic, Digest
    <2>2. \A x \in Ids : messages'[x].times <= 1 /\ (messages'[x].times > 0 => Marked(x)')
      BY <1>3, <1>5, <2>1 DEF IInv, Marks
    <2>3. ASSUME NEW e \in Deciders, Telling(e)'
          PROVE  ~Atomic' /\ Marked(jobs[e].chat)' /\ messages'[jobs'[e].chat].times = 0
      <3>1. Telling(e) /\ jobs'[e].chat = jobs[e].chat /\ jobs[e].chat \in Ids
        BY <1>2, <2>3, JobInHand DEF Telling
      <3>2. Telling(d) /\ ~Telling(d)' => jobs[e].chat # c
        <4>1. ~Telling(d)' => e # d
          BY <2>3
        <4> QED BY <1>c, <3>1, <4>1 DEF IInv, Marks
      <3>3. Marked(jobs[e].chat) /\ messages[jobs[e].chat].times = 0
        BY <3>1 DEF IInv, Marks
      <3>4. messages'[jobs[e].chat] = messages[jobs[e].chat]
        BY <1>5, <3>1, <3>2
      <3> QED BY <2>1, <3>1, <3>3, <3>4 DEF Marked, Cascades, Digest
    <2>4. \A e, f \in Deciders : Telling(e)' /\ Telling(f)' /\ jobs'[e].chat = jobs'[f].chat => e = f
      BY <1>2 DEF IInv, Marks
    <2> QED BY <2>2, <2>3, <2>4 DEF Marks
  <1>8. Reasons'
    <2>1. kind \in Commissioned => \A e \in Deciders : jobs'[e] = NoJob
      BY <1>2 DEF IInv, Reasons, Telling, NoJob
    <2>2. \A e \in Deciders : jobs'[e].stage = "read" => jobs'[e] = jobs[e]
      BY <1>2 DEF NoJob
    <2> QED BY <1>1, <2>1, <2>2 DEF IInv, Reasons, Atomic, Digest
  <1>9. ClaimedNoticesAreSent'
    <2>1. Told \subseteq Told'
      BY <1>3, <1>5 DEF Told
    <2>2. InFlight \subseteq InFlight' \cup Answers'
      BY <1>c, <1>2 DEF InFlight, Telling
    <2> QED BY <1>1, <2>1, <2>2, AnswersGrow DEF Answers, Digest
  <1> QED BY <1>4, <1>6, <1>7, <1>8, <1>9 DEF IInv

LEMMA JoinIInv == ASSUME IInv, NEW d \in Deciders, Join(d) PROVE IInv'
  <1>1. jobs[d].stage = "join" /\ Telling(d) /\ ~Atomic /\ jobs[d].chat \in Ids /\ jobs[d] # NoJob
    BY JobInHand DEF Join, Telling, IInv, Marks, NoJob
  <1>2. subscribed' \subseteq rows /\ quiet' \subseteq Ids /\ cut' \subseteq Ids /\ quiet \subseteq quiet'
    BY <1>1 DEF Join, IInv, TypeOK
  <1>3. CASE jobs[d].wanted
    <2>1. Goes(d, "tell")
      BY <1>3 DEF Join
    <2>2. jobs[d].chat \in InFlight'
      BY <1>1, <2>1, GoesFacts DEF InFlight, Telling
    <2> QED BY <1>1, <1>2, <2>1, <2>2, MarkedStep DEF Join, Answers
  <1>4. CASE ~jobs[d].wanted
    BY <1>1, <1>2, <1>4, MarkedStep DEF Join, Answers
  <1> QED BY <1>3, <1>4

LEMMA TellIInv == ASSUME IInv, NEW d \in Deciders, Tell(d) PROVE IInv'
  <1>1. Telling(d) /\ ~Atomic /\ jobs[d].chat \in Ids /\ messages[jobs[d].chat].times = 0
    BY JobInHand DEF Tell, Telling, IInv, Marks
  <1>2. jobs[d].chat \in Told'
    BY <1>1, QueuedMessage DEF Tell, Told, telegramVars
  <1> QED BY <1>1, <1>2, MarkedStep DEF Tell, Answers, IInv, TypeOK, rowVars

\* A failure before the mark is set leaves no trace; after it, the notice is lost.
LEMMA JobFailsIInv == ASSUME IInv, NEW d \in Deciders, JobFails(d) PROVE IInv'
  <1>1. jobs[d] # NoJob /\ jobs[d].chat \in Ids /\ jobs[d].stage \in {"read", "join", "tell"} /\ Idle(d)
    BY JobInHand DEF JobFails
  <1>2. UNCHANGED <<kind, telegramVars, rowVars, wants, reachable, messages, call, phase, active, ahead, quiet>>
    BY DEF JobFails
  <1>3. CASE Atomic
    <2>1. jobs[d].stage = "read"
      BY <1>1, <1>3 DEF IInv, Marks, Telling
    <2>2. group = "old" => jobs[d].chat # "new"
      BY <1>1, JobInHand
    <2> QED BY <1>1, <1>2, <1>3, <2>1, <2>2, AtomicStep DEF JobFails, IInv, TypeOK, rowVars
  <1>4. CASE ~Atomic
    <2>1. ~Digest' /\ (Telling(d) => jobs[d].chat \in cut')
      BY <1>2, <1>4 DEF Digest, Atomic, JobFails, Telling
    <2>2. cut \subseteq cut' /\ cut' \subseteq Ids
      BY <1>1 DEF JobFails, IInv, TypeOK
    <2> QED BY <1>1, <1>2, <1>4, <2>1, <2>2, MarkedStep DEF Answers, IInv, TypeOK, rowVars
  <1> QED BY <1>3, <1>4

LEMMA NextIInv == IInv /\ [Next]_vars => IInv'
  <1> SUFFICES ASSUME IInv, [Next]_vars PROVE IInv'
    OBVIOUS
  <1>1. CASE PublishingNext /\ UNCHANGED decidingVars
    BY <1>1, PublishingIInv
  <1>2. ASSUME NEW d \in Deciders, Decides(d) \/ JobFails(d) PROVE IInv'
    <2>1. ASSUME NEW c \in Ids, Begin(d, c) PROVE IInv'
      BY <2>1, BeginIInv
    <2> QED BY <1>2, <2>1, ClaimReportIInv, RemindIInv, RecordIInv, JoinIInv, TellIInv, JobFailsIInv DEF Decides
  <1>3. CASE \/ SweepOthers \/ TimePasses \/ ActivityChanges
             \/ \E s \in Ids \cup {User} : SetNotifyEnabled(s)
             \/ \E c \in Ids : Subscribe(c) \/ Unsubscribe(c) \/ \E g \in {"off", "on", "auto"} : SetGame(c, g)
    BY <1>3, TimeAndPeopleIInv
  <1>4. CASE UNCHANGED vars
    <2>1. TypeOK'
      BY <1>4 DEF IInv, TypeOK, vars, publishingVars, decidingVars, telegramVars, rowVars
    <2> QED BY <1>4, <2>1, EnvironmentIInv DEF vars, publishingVars, decidingVars, telegramVars, rowVars
  <1> QED BY <1>1, <1>2, <1>3, <1>4 DEF Next

-----------------------------------------------------------------------------
(* Theorems *)

THEOREM Invariance == Spec => []IInv
  <1> QED BY InitIInv, NextIInv, PTL DEF Spec

\* Every variable keeps its type, an outage or a death counted without a bound
\* included (Publishing, Notices).
THEOREM TypeCorrect == Spec => []TypeOK
  <1>1. IInv => TypeOK
    BY DEF IInv
  <1> QED BY <1>1, Invariance, PTL

\* One message per chat and period, tournament or poll: ON CONFLICT DO NOTHING and
\* the claim of a report let one decider through (RecordEventOffer, Claim).
THEOREM ToldOnce == Spec => []NobodyIsToldTwice
  <1>1. IInv => NobodyIsToldTwice
    BY DEF IInv, Marks, NobodyIsToldTwice
  <1> QED BY <1>1, Invariance, PTL

\* A mark without a message is one there was nothing to send for, or one that
\* something came between (decide, notifyIfDue, offerOne, remind, claim).
THEOREM MarksAreAnswered == Spec => []ClaimedNoticesAreSent
  <1>1. IInv => ClaimedNoticesAreSent
    BY DEF IInv
  <1> QED BY <1>1, Invariance, PTL

\* The fallbacks of a publication leave only the network to write a message off,
\* but for the two publishers that lack one (sendToChat, personalNotePublisher).
THEOREM OnlyOutagesKill == Spec => []DeadOnlyByOutages
  <1>1. IInv => DeadOnlyByOutages
    BY DEF IInv, Accounts, Account, Excepted, DeadOnlyByOutages
  <1> QED BY <1>1, Invariance, PTL

\* No publication posts its message twice (sendToChat, Publish).
THEOREM FallbacksShowNothingTwice == Spec => []ShownOncePerAttempt
  <1>1. ASSUME IInv PROVE ShownOncePerAttempt
    <2>1. \A c \in Ids : messages[c] \in Message
      BY <1>1 DEF IInv, TypeOK
    <2> QED BY <1>1, <2>1 DEF IInv, Accounts, Account, Message, ShownOncePerAttempt
  <1> QED BY <1>1, Invariance, PTL
=============================================================================
