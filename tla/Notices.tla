-------------------------------- MODULE Notices --------------------------------
(***************************************************************************)
(* Who decides that a group or a person is told something unasked: the        *)
(* digest, the eve of a tournament, the offer of a top-tier tournament, the    *)
(* cross-sell of a followed team's tournament and the reminder before a poll   *)
(* closes. Each asks whether it is due, whether it was told before and whether *)
(* it is wanted, marks it as told and queues the message.                     *)
(*                                                                         *)
(* Digest and reminder mark and queue in one transaction; the other three in   *)
(* separate statements. The offer is decided by two jobs, the discovery of the *)
(* tournament and the sweep. Left out: what the messages say, the order of     *)
(* several tournaments except as a count of those ahead of this one.          *)
(***************************************************************************)
EXTENDS Publishing

CONSTANTS PerChatPerRun, \* offers one sweep may make to a chat
          MaxAhead       \* undecided tournaments that come first

ASSUME NoticesConstants == PerChatPerRun \in Nat \ {0} /\ MaxAhead \in Nat

VARIABLES
    phase,   \* the notice's time: early, due, over
    active,  \* there is something to report, or somebody who has not voted
    ahead,   \* undecided tournaments before this one
    jobs,    \* the deciders in flight
    cut,     \* the chats for which something came between mark and message
    quiet    \* the chats for which there was nothing to tell

decidingVars == <<phase, active, ahead, jobs, cut, quiet>>
vars == <<publishingVars, decidingVars>>

Deciders == {"sweep", "discovery"}
NoJob == [chat |-> "none", stage |-> "idle", wanted |-> FALSE, auto |-> FALSE]
Job == [chat : Ids, stage : {"read", "join", "tell"}, wanted : BOOLEAN, auto : BOOLEAN]

TypeOK ==
    /\ kind \in Kinds /\ group \in Ids /\ topicOpen \in BOOLEAN /\ blocked \in BOOLEAN
    /\ rows \subseteq Ids /\ history \in rows \cup {"lost"}
    /\ games \in [Ids -> {"off", "on", "auto"}] /\ subscribed \subseteq rows
    /\ wants \subseteq Ids \cup {User} /\ claims \subseteq Ids /\ reachable \in BOOLEAN
    /\ messages \in [Ids -> Message] /\ call \in Call \cup {NoCall}
    /\ phase \in {"early", "due", "over"} /\ active \in BOOLEAN /\ ahead \in 0 .. MaxAhead
    /\ jobs \in [Deciders -> Job \cup {NoJob}] /\ cut \subseteq Ids /\ quiet \subseteq Ids

Init ==
    /\ PublishingInit
    /\ phase = "early" /\ active \in BOOLEAN
    /\ ahead \in (IF kind = "offer" THEN 0 .. MaxAhead ELSE {0})
    /\ jobs = [d \in Deciders |-> NoJob] /\ cut = {} /\ quiet = {}

-----------------------------------------------------------------------------
(* Reading                                                                 *)

Followed(c) == games[c] # "off"
AutoSubscribesTo(c) == games[c] = "auto"
Wants(c) == IF kind = "reminder" THEN User \in wants ELSE c \in wants

\* Mutant: the pair is recorded whatever the chat wants.
Concerns_always(c) == TRUE
\* Mutant: the sweep gives up on a chat that does not want to be told.
Concerns_wantedOnly(c) == c \in wants

\* reconcileChat and decide: told, or joined without being told.
Concerns(c) == c \in wants \/ AutoSubscribesTo(c)

\* The row of a chat; a followed team or player is kept by the old id.
Reads(c, d) ==
    /\ phase = "due"
    /\ CASE Digest -> d = "sweep" /\ c \in rows /\ c \notin claims /\ (active /\ c = history => Wants(c))
         [] kind = "eve" -> d = "sweep" /\ c \in subscribed /\ c \notin claims /\ Wants(c)
         [] kind = "offer" -> c \in rows /\ Followed(c) /\ c \notin subscribed /\ Concerns(c)
                              /\ (d = "sweep" => c \notin claims /\ ahead < PerChatPerRun)
         [] kind = "crosssell" -> d = "discovery" /\ c = "old" /\ c \notin subscribed /\ Wants(c)
         [] kind = "reminder" -> d = "sweep" /\ c = history /\ c \notin claims
         [] OTHER -> FALSE

Begin(d, c) ==
    /\ jobs[d] = NoJob /\ Reads(c, d)
    /\ jobs' = [jobs EXCEPT ![d] = [chat |-> c, stage |-> "read",
                                    wanted |-> Wants(c) /\ (Digest => active /\ c = history),
                                    auto |-> kind = "offer" /\ AutoSubscribesTo(c)]]
    /\ UNCHANGED <<publishingVars, phase, active, ahead, cut, quiet>>

\* A sweep that spends its budget on the tournaments ahead.
SweepOthers ==
    /\ kind = "offer" /\ phase = "due" /\ jobs["sweep"] = NoJob /\ ahead >= PerChatPerRun
    /\ ahead' = ahead - PerChatPerRun
    /\ UNCHANGED <<publishingVars, phase, active, jobs, cut, quiet>>

-----------------------------------------------------------------------------
(* Marking and queueing                                                    *)

Idle(d) == jobs' = [jobs EXCEPT ![d] = NoJob]
Goes(d, stage) == jobs' = [jobs EXCEPT ![d].stage = stage]

Enqueue(c) ==
    messages' = [messages EXCEPT ![c] =
                     [NoMessage EXCEPT !.status = "queued", !.topic = Publisher.topic,
                                       !.times = messages[c].times + 1]]

TellsIf(due, c) == IF due THEN Enqueue(c) /\ UNCHANGED quiet
                   ELSE quiet' = quiet \cup {c} /\ UNCHANGED messages

\* DigestScheduler.claim: a period without activity, when it was read, is marked
\* and not told.
ClaimReport(d) ==
    LET j == jobs[d] IN
    /\ Digest /\ j.stage = "read"
    /\ IF j.chat \in rows \ claims
       THEN /\ claims' = claims \cup {j.chat}
            /\ TellsIf(j.wanted, j.chat)
       ELSE UNCHANGED <<claims, messages, quiet>>
    /\ Idle(d)
    /\ UNCHANGED <<kind, telegramVars, rows, history, games, subscribed, wants, reachable, call,
                   announced, raced, trouble, phase, active, ahead, cut>>

\* remind: one transaction marks the poll, by its id, and asks who plays in the
\* chat it was read with, opted in, is reachable and has not voted (active). Nobody
\* plays under an id the group has left meanwhile.
Remind(d) ==
    LET j == jobs[d] IN
    /\ kind = "reminder" /\ j.stage = "read"
    /\ claims' = claims \cup ({history} \cap Ids)
    /\ IF j.chat = history
       THEN TellsIf(active /\ User \in wants /\ reachable, j.chat) /\ UNCHANGED cut
       ELSE cut' = cut \cup {j.chat} /\ UNCHANGED <<messages, quiet>>
    /\ Idle(d)
    /\ UNCHANGED <<kind, telegramVars, rows, history, games, subscribed, wants, reachable, call,
                   announced, raced, trouble, phase, active, ahead>>

\* Mutant: the insert updates the row it meets and counts as new.
IsNew_upsert(c) == TRUE

\* ON CONFLICT DO NOTHING: one caller gets the pair.
IsNew(c) == c \notin claims

\* Claim, RecordEventOffer, RecordOffer, each a statement of its own.
Record(d) ==
    LET j == jobs[d] IN
    /\ ~Atomic /\ j.stage = "read" /\ (kind = "eve" => j.chat \in rows)
    /\ claims' = claims \cup {j.chat}
    /\ IF IsNew(j.chat) /\ (j.auto \/ j.wanted)
       THEN Goes(d, IF j.auto THEN "join" ELSE "tell") ELSE Idle(d)
    /\ UNCHANGED <<kind, telegramVars, rows, history, games, subscribed, wants, reachable, messages, call,
                   announced, raced, trouble, phase, active, ahead, cut, quiet>>

Join(d) ==
    LET j == jobs[d] IN
    /\ j.stage = "join" /\ j.chat \in rows
    /\ subscribed' = subscribed \cup {j.chat}
    /\ IF j.wanted THEN Goes(d, "tell") /\ UNCHANGED quiet
       ELSE Idle(d) /\ quiet' = quiet \cup {j.chat}
    /\ UNCHANGED <<kind, telegramVars, rows, history, games, claims, wants, reachable, messages, call,
                   announced, raced, trouble, phase, active, ahead, cut>>

Tell(d) ==
    LET j == jobs[d] IN
    /\ j.stage = "tell"
    /\ Enqueue(j.chat) /\ Idle(d)
    /\ UNCHANGED <<kind, telegramVars, rowVars, wants, reachable, call, announced, raced, trouble,
                   phase, active, ahead, cut, quiet>>

\* A statement fails or the run is cut; a row that is gone makes it fail.
JobFails(d) ==
    LET j == jobs[d] IN
    /\ j # NoJob
    /\ IF j.chat \notin rows THEN UNCHANGED trouble ELSE Troubled
    /\ cut' = IF j.stage = "read" THEN cut ELSE cut \cup {j.chat}
    /\ Idle(d)
    /\ UNCHANGED <<kind, telegramVars, rowVars, wants, reachable, messages, call, announced, raced,
                   phase, active, ahead, quiet>>

-----------------------------------------------------------------------------
(* Time and people                                                         *)

TimePasses ==
    /\ phase # "over"
    /\ phase' = IF phase = "early" THEN "due" ELSE "over"
    /\ UNCHANGED <<publishingVars, active, ahead, jobs, cut, quiet>>

\* A match is settled late, or the person votes after all.
ActivityChanges ==
    /\ (Digest \/ kind = "reminder") /\ active = (kind = "reminder")
    /\ active' = ~active
    /\ UNCHANGED <<publishingVars, phase, ahead, jobs, cut, quiet>>

\* A switch of the chat, or the person's own.
SetNotifyEnabled(s) ==
    /\ s \in (IF Personal THEN {User} ELSE rows) /\ Troubled
    /\ wants' = IF s \in wants THEN wants \ {s} ELSE wants \cup {s}
    /\ UNCHANGED <<kind, telegramVars, rowVars, reachable, messages, call, announced, raced, decidingVars>>

SetGame(c, g) ==
    /\ kind = "offer" /\ c \in rows /\ games[c] # g /\ Troubled
    /\ games' = [games EXCEPT ![c] = g]
    /\ UNCHANGED <<kind, telegramVars, rows, history, subscribed, claims, wants, reachable, messages, call,
                   announced, raced, decidingVars>>

Subscribe(c) ==
    /\ kind \in Decided /\ c \in rows \ subscribed /\ Troubled
    /\ subscribed' = subscribed \cup {c}
    /\ UNCHANGED <<kind, telegramVars, rows, history, games, claims, wants, reachable, messages, call,
                   announced, raced, decidingVars>>

Unsubscribe(c) ==
    /\ kind \in Decided /\ c \in subscribed /\ Troubled
    /\ subscribed' = subscribed \ {c}
    /\ UNCHANGED <<kind, telegramVars, rows, history, games, claims, wants, reachable, messages, call,
                   announced, raced, decidingVars>>

Decides(d) ==
    \/ \E c \in Ids : Begin(d, c)
    \/ ClaimReport(d) \/ Remind(d) \/ Record(d) \/ Join(d) \/ Tell(d)

Next ==
    \/ PublishingNext /\ UNCHANGED decidingVars
    \/ \E d \in Deciders : Decides(d) \/ JobFails(d)
    \/ SweepOthers \/ TimePasses \/ ActivityChanges
    \/ \E s \in Ids \cup {User} : SetNotifyEnabled(s)
    \/ \E c \in Ids : Subscribe(c) \/ Unsubscribe(c) \/ \E g \in {"off", "on", "auto"} : SetGame(c, g)

\* The scheduler runs the sweep again and again (runBackground).
Sweeps == SweepOthers \/ Decides("sweep") \/ (JobFails("sweep") /\ UNCHANGED trouble)

Spec == Init /\ [][Next]_vars /\ WF_vars(Sweeps)

-----------------------------------------------------------------------------
(* Properties                                                              *)

\* One message per chat and period, tournament or poll, whichever of the two
\* jobs comes first and however often a run is repeated (RecordEventOffer, Claim).
NobodyIsToldTwice == \A c \in Ids : messages[c].times <= 1

\* What is marked as told has been told or joined, or there was nothing to tell,
\* or something came between mark and message (cut): a failure, where they are
\* separate statements (decide, notifyIfDue, offerOne), or the upgrade of a group
\* whose poll was read to remind its players. Digests are never lost (claim).
InFlight == {jobs[d].chat : d \in {e \in Deciders : jobs[e].stage \in {"join", "tell"}}}
Told == {c \in Ids : messages[c].times = 1}
Same(c) == IF Cascades THEN Ids ELSE {c}   \* the ids a mark may have been set under
ClaimedNoticesAreSent ==
    \A c \in claims : Same(c) \cap (Told \cup quiet \cup InFlight \cup IF Digest THEN {} ELSE cut) # {}

\* A top-tier tournament a chat could join reaches it, in whatever order the tier,
\* the game and the switch arrive (EventOfferReconciler, "ordering stops mattering").
Owed(c) == /\ kind = "offer" /\ phase = "due"
           /\ c \in rows \ subscribed /\ Followed(c) /\ (c \in wants \/ AutoSubscribesTo(c))
OfferArrives == \A c \in Ids : <>[]Owed(c) => <>(c \in claims)
=============================================================================
