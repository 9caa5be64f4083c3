-------------------------------- MODULE Screens --------------------------------
(***************************************************************************)
(* One person, one panel: taps on its buttons, deep links, commands and       *)
(* search answers, in a private chat or in a group, while the person's rights  *)
(* shrink, another panel is used elsewhere and a group becomes a supergroup.   *)
(*                                                                         *)
(* Callback data of a private panel is stamped with the chat it was rendered   *)
(* for (callbackdata.go); data too long for the stamp goes without. A tap on   *)
(* an unstamped button of a managed chat goes to the chat of the person's DM    *)
(* session. "none" is no chat, "gone" the stamp of a chat whose id has changed. *)
(* Other people's taps on a group's panel, answered with an alert, and the     *)
(* commands a group hands over to the private chat are left out.               *)
(***************************************************************************)
EXTENDS ChatScreens, Naturals

CONSTANT Chats, Roles, Operators

ASSUME ScreensConstants ==
    /\ "none" \notin Chats /\ "gone" \notin Chats
    /\ Roles \subseteq {"member", "moderator", "keeper", "admin"}
    /\ Operators \subseteq {"none", "delegated", "root"}

VARIABLES
    panel,    \* what the message offers
    place,    \* "dm" or "group"
    about,    \* the chat the screen shows, or "none"
    stamp,    \* the chat its buttons carry
    invited,  \* the chat of the invitation whose token they carry, or "none"
    session,  \* dm_admin_session
    role,     \* the person's role in each chat; a keeper may change settings
    operator, \* among the team-match operators
    backs,    \* how often in a row "back" was tapped
    last      \* the last tap: what it did, the chat it went to, the chats it changed

view == <<panel, place, about, stamp, invited>>
rights == <<role, operator>>
screensVars == <<panel, place, about, stamp, invited, session, role, operator, backs, last>>

ScreensTypeOK ==
    /\ place \in {"dm", "group"}
    /\ about \in Chats \cup {"none"}
    /\ place = "group" => about \in Chats
    /\ stamp \in Chats \cup {"none", "gone"}
    /\ invited \in Chats \cup {"none"}
    /\ session \in Chats \cup {"none"}
    /\ role \in [Chats -> {"member", "moderator", "keeper", "admin"}]
    /\ operator \in {"none", "delegated", "root"}
    /\ backs \in Nat
    /\ last.via \in Chats \cup {"none"} /\ last.on \subseteq Chats \cup {"none"}

NoTap == [op |-> "none", via |-> "none", on |-> {}]

CanManage(c) == role[c] # "member"
HasSettings(c) == role[c] \in {"keeper", "admin"}
IsTelegramAdmin(c) == role[c] = "admin"
RightsIn(c) ==
    [manager |-> CanManage(c), settings |-> HasSettings(c), admin |-> IsTelegramAdmin(c)]

Manages == \E c \in Chats : CanManage(c)
HasHubAccess == Manages \/ operator # "none"
Viewer == [operator |-> operator, hub |-> HasHubAccess, manages |-> Manages]

ScreensInit ==
    /\ panel = Closed /\ place = "dm" /\ about = "none" /\ stamp = "none"
    /\ invited = "none" /\ session = "none"
    /\ role \in [Chats -> Roles] /\ operator \in Operators
    /\ backs = 0 /\ last = NoTap

\* The token a panel carries on: of the invitation just made in c, or of the
\* one that is asked about.
InvitationShown(outcome, c) ==
    CASE outcome.op = "CreateInvitation"            -> c
      [] outcome.panel = InvitationRevokeAskView -> invited
      [] OTHER                                      -> "none"

\* The screen after an outcome: kept, or rendered about c with stamp s.
RespondWith(outcome, c, s) ==
    IF outcome.panel = Same THEN UNCHANGED view
    ELSE /\ panel' = outcome.panel /\ about' = c /\ stamp' = s
         /\ invited' = InvitationShown(outcome, c)
         /\ UNCHANGED place

\* A copy asks for the manager's right in every other group and passes over those
\* that refuse, that are not in the index of managed chats, that have the value
\* already or cannot be saved.
CopyTargets(c) == {d \in Chats \ {c} : CanManage(d)}

\* The sets of groups that a tap routed to c may change. An invitation is revoked
\* by its token alone.
ChangedBy(op, c) ==
    CASE op = "none"             -> {{}}
      [] op = "CopySettings"     -> SUBSET CopyTargets(c)
      [] op = "RevokeInvitation" -> {{invited} \cap Chats}
      [] OTHER                   -> {{c}}

Did(outcome, c) ==
    \E changed \in ChangedBy(outcome.op, c) :
        last' = [op |-> outcome.op, via |-> c, on |-> changed]

Counted(b) ==
    backs' = IF b # panel.back THEN 0 ELSE IF panel' = panel THEN backs ELSE backs + 1

-----------------------------------------------------------------------------
(* Taps in the private chat *)

\* The buttons whose data, with a stamp, is longer than Telegram takes.
TooLong == {"stats:evbets:u", "stats:target:team", "stats:rankchart:e"}

\* The stamp a tapped button carries: splitCallbackScope of what scopeKeyboard wrote.
Scope(b) == IF b \in TooLong THEN "none" ELSE stamp

\* Mutant of TargetManagedChat: the stored session comes first.
TargetManagedChat_session(scope) ==
    CASE session # "none" -> session [] scope \in Chats -> scope [] OTHER -> "none"

\* The chat stamped into the button, if it is still known; else the session's.
TargetManagedChat(scope) == IF scope \in Chats THEN scope ELSE session

TapPersonal(b) ==
    \E outcome \in PersonalCallback(b, Viewer) :
        /\ RespondWith(outcome, "none", Scope(b))
        /\ last' = [op |-> outcome.op, via |-> "none", on |-> {}]
        /\ UNCHANGED session

OpenManagedChat(c, scope) ==
    IF CanManage(c)
    THEN /\ panel' = Menu(TRUE) /\ about' = c /\ stamp' = c
         /\ session' = c /\ invited' = "none"
    ELSE /\ panel' = Panel("manage:chats", {}) /\ about' = "none" /\ stamp' = scope
         /\ invited' = "none"
         /\ UNCHANGED session

TapOpenManagedChat(b) ==
    /\ b = "manage:open"
    /\ \E c \in Chats : OpenManagedChat(c, Scope(b))
    /\ last' = NoTap
    /\ UNCHANGED place

\* An approval is about the chat of the request, whatever the session.
TapApproval(b) ==
    /\ b \in {"unsubok", "unsubreject"}
    /\ \E outcome \in RouteCallback(b, RightsIn(about), TRUE) :
        /\ RespondWith(outcome, about, Scope(b))
        /\ Did(outcome, about)
    /\ UNCHANGED session

DelegatedButton(b) ==
    /\ PersonalCallback(b, Viewer) = {}
    /\ b \notin {"manage:open", "unsubok", "unsubreject"}

TryDelegateToManagedChat(b) ==
    LET chat == TargetManagedChat(Scope(b))
    IN  /\ DelegatedButton(b)
        /\ IF chat = "none"
           THEN /\ RespondWith(Shows(PrivateStatsMenu(Viewer)), "none", Scope(b))
                /\ last' = NoTap
                /\ UNCHANGED session
           ELSE /\ \E outcome \in RouteCallback(b, RightsIn(chat), TRUE) :
                       /\ RespondWith(outcome, chat, Scope(b))
                       /\ Did(outcome, chat)
                /\ session' = IF Scope(b) = chat THEN chat ELSE session

HandlePrivateCallback(b) ==
    /\ place = "dm"
    /\ TapPersonal(b) \/ TapOpenManagedChat(b) \/ TapApproval(b) \/ TryDelegateToManagedChat(b)
    /\ Counted(b)
    /\ UNCHANGED rights

-----------------------------------------------------------------------------
(* Taps in a group *)

HandleCallback(b) ==
    /\ place = "group"
    /\ \E outcome \in RouteCallback(b, RightsIn(about), FALSE) :
        /\ RespondWith(outcome, about, "none")
        /\ Did(outcome, about)
    /\ Counted(b)
    /\ UNCHANGED <<session, rights>>

-----------------------------------------------------------------------------
(* New messages, which take the place of the panel *)

Sent(p, where, c, s) ==
    /\ panel' = p /\ place' = where /\ about' = c /\ stamp' = s
    /\ invited' = "none" /\ backs' = 0 /\ last' = NoTap
    /\ UNCHANGED rights

SentPanel(p, where, c, s) == Sent(p, where, c, s) /\ UNCHANGED session

\* Commands of the private chat.
PersonalCommand ==
    \E outcome \in {Shows(StartLanding(Viewer)), Shows(PrivateResultsMenu), Shows(RenderPersonalBets),
                    Shows(HelpView("pstats:menu")), TeamMatchQueueMenu(Viewer),
                    ProviderStatusView(Viewer), ListTeamMatchOperators(Viewer)} :
        SentPanel(outcome.panel, "dm", "none", "none")

AdminDeepLink(c) ==
    /\ OpenManagedChat(c, "none")
    /\ place' = "dm" /\ backs' = 0 /\ last' = NoTap
    /\ UNCHANGED rights

OpenGroupStatsInDM(c) == SentPanel(StatsMenu, "dm", c, c)
OpenPersonalEventStats(c) == SentPanel(PersonalStats, "dm", c, "none")
OpenInvitation == \E p \in OpenInvitationAccept : SentPanel(p, "dm", "none", "none")

\* The answer to a search prompt, or /events, is about the session's chat.
SearchReply ==
    /\ session # "none" /\ CanManage(session)
    /\ \E p \in SearchEvents \cup SearchTargets \cup SearchPlayers :
           SentPanel(p, "dm", session, "none")

\* Another manager's request, a helper's question, an access request.
ConfirmationRequest(c) ==
    CanManage(c) /\ SentPanel(Panel(NoBack, {"unsubok", "unsubreject"}), "dm", c, "none")
AskMessage == SentPanel(AskPanel, "dm", "none", "none")
AccessRequest == operator = "root" /\ SentPanel(MiniAppDecisionPanel, "dm", "none", "none")

GroupCommand(c) ==
    \E p \in {Menu(FALSE), SubscribedEvents(FALSE), HelpView("menu:main"),
              Panel(NoBack, {"settings:games", "menu:help"})} : SentPanel(p, "group", c, "none")

OfferMessage(c) == SentPanel(CrossSellOffer, "group", c, "none")

-----------------------------------------------------------------------------
(* Meanwhile *)

\* Another panel of the same person, further up in the chat, is used.
OpenElsewhere(c) ==
    /\ CanManage(c)
    /\ session' = c /\ last' = NoTap
    /\ UNCHANGED <<view, rights, backs>>

\* The group becomes a supergroup. The session follows the new id, a stamp does not.
Migrate(c) ==
    /\ stamp = c
    /\ stamp' = "gone" /\ last' = NoTap
    /\ UNCHANGED <<panel, place, about, invited, session, rights, backs>>

Demote(c) ==
    /\ role[c] # "member"
    /\ role' = [role EXCEPT ![c] = "member"]
    /\ last' = NoTap
    /\ UNCHANGED <<view, session, operator, backs>>

Relieve ==
    /\ operator = "delegated"
    /\ operator' = "none" /\ last' = NoTap
    /\ UNCHANGED <<view, session, role, backs>>

-----------------------------------------------------------------------------

Tap == \E b \in (panel.buttons \cup {panel.back}) \ {NoBack} :
           HandlePrivateCallback(b) \/ HandleCallback(b)
Message == \/ PersonalCommand \/ OpenInvitation \/ SearchReply \/ AskMessage \/ AccessRequest
           \/ \E c \in Chats : \/ AdminDeepLink(c) \/ OpenGroupStatsInDM(c)
                               \/ OpenPersonalEventStats(c) \/ ConfirmationRequest(c)
                               \/ GroupCommand(c) \/ OfferMessage(c)
Meanwhile == Relieve \/ \E c \in Chats : OpenElsewhere(c) \/ Migrate(c) \/ Demote(c)

ScreensNext == Tap \/ Message \/ Meanwhile

ScreensSpec == ScreensInit /\ [][ScreensNext]_screensVars

-----------------------------------------------------------------------------
(* Properties *)

\* A stamp that still names a chat names the one on the screen: no panel shows
\* one chat and acts on another, whatever other panels were used in between
\* (targetManagedChat, callbacks.go).
StampTellsTheChat == about # "none" /\ stamp \in Chats => stamp = about

\* Tapping "back" again and again ends at a screen without one: no two screens
\* name each other as the way back (dead_ends_test.go; the back targets that
\* travel in the callback data: statsBackCode, rulesTarget, permWizardBackTarget).
\* A tap that leaves the screen as it is, such as one refused to a demoted
\* person, is not one step of the way.
BackLeadsHome == backs <= 8

SettingsOps == {"SaveSettings", "ToggleAutoSubscribe", "ToggleChatNotification", "EnableGame",
                "RequestGameDisable", "CopySettings"}
StaffOps == {"EditPermissions", "AddModerator", "RemoveModerator", "CreateInvitation", "RevokeInvitation"}
RootOps == {"ReplayDeadLetters", "ToggleAlert", "ToggleCrestSource", "AppointOperator",
            "RemoveOperator", "DecideMiniApp"}
QueueOps == {"ConfirmTeamMatch", "RejectTeamMatch"}

\* What a change of the chats in on asks for, tapped on a button that went to
\* chat via: the right in via, the manager's right wherever something changes,
\* and nothing changes elsewhere, but for a copy and a revocation.
MayDo(op, via, on) ==
    /\ op \in SettingsOps => HasSettings(via)
    /\ op \in StaffOps => IsTelegramAdmin(via)
    /\ op \notin {"DismissOffer", "RevokeInvitation"} => \A c \in on : CanManage(c)
    /\ op \notin {"CopySettings", "RevokeInvitation"} => on \subseteq {via}
    /\ op \in RootOps => operator = "root"
    /\ op \in QueueOps => operator # "none"

\* Whatever old panel a button is tapped on, its change is made with the rights
\* that the person has now: in the chat it was routed to, the settings right for
\* settings and an admin's for the staff; in each chat it changes, the manager's,
\* copies into other chats included. Two changes ask for less: an offer is waved
\* off by anyone in the group, and an invitation is revoked by its token, whose
\* chat may be another than the one where the admin's right was asked for. The
\* deployment is changed by its operators (guards of callback_routes.go and the
\* checks inside the handlers; bulk_settings.go:158, callback_routes.go:273, 655).
NothingWithoutRights == [][MayDo(last'.op, last'.via, last'.on)]_screensVars

(* What the source says, and the code does not do: no run checks it (README, 5). *)

\* "each button carries the chat it belongs to, so a panel scrolled back to still
\* acts on its own chat rather than on whatever was opened most recently"
\* (callbackdata.go:27). Search results, an approver's panel and a migrated
\* chat's panel carry no chat that is known.
PanelActsOnItsChat ==
    [][about # "none" /\ last'.via # "none" => last'.via = about]_screensVars

\* "re-verifying rights per chat" (bulk_settings.go:142): the copy asks each target
\* for the manager's right, where its own settings screen asks for the settings
\* right. "a moderator must never be able to manage other moderators"
\* (callback_routes.go:239): nor does a revocation ask in the invitation's chat.
RightsAreThoseOfEachChat ==
    [][\A c \in last'.on : /\ last'.op \in SettingsOps => HasSettings(c)
                          /\ last'.op \in StaffOps => IsTelegramAdmin(c)]_screensVars
=============================================================================
