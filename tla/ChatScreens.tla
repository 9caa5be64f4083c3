------------------------------ MODULE ChatScreens ------------------------------
(***************************************************************************)
(* The screens about one group, shown in the group itself or, by delegation, *)
(* in a manager's private chat, and the table that routes their buttons      *)
(* (callback_routes.go). r is what the tapping person may do in that group:   *)
(* r.manager, r.settings (ManageGroupSettings) and r.admin; dm says that the   *)
(* screen is in a private chat. A leaderboard is known by its period, whether  *)
(* it is narrowed to a game, and the screen behind it; a chart's button leaves    *)
(* the period out, but for the one whose data is too long for a stamp.         *)
(***************************************************************************)
EXTENDS PersonalScreens

-----------------------------------------------------------------------------
(* Menus: screens_events.go, screens_help.go *)

Menu(dm) ==
    IF dm THEN Panel("manage:chats", {"menu:stats", "menu:upcoming", "menu:events",
                                      "menu:settings", "menu:help", "settings:games"})
    ELSE Panel(NoBack, {"menu:stats", "menu:upcoming", "menu:help", "menu:events", "menu:settings"})
ReadOnlyGroupMenu == Panel("pstats:menu", {"menu:stats", "menu:upcoming", "menu:help"})
RouteMenuMain(r, dm) == IF dm /\ ~r.manager THEN ReadOnlyGroupMenu ELSE Menu(dm)

Upcoming == Panel("menu:main", {"events:add"})
EventMenu == Panel("menu:main", {"events:add", "events:mine", "menu:targets"})
EventAddMenu == Panel("menu:events", {"events:browse", "events:search"})
RenderEventBrowse == Panel("events:add", {"subscribe", "events:browse"})
SubscribedEvents(dm) ==
    Panel("menu:events", {"events:view"} \cup IF dm THEN {"events:cleanup", "events:add"} ELSE {})
\* Or the list, when the event is no longer there.
EventDetails(dm) ==
    {Panel("events:mine", {"stats:event", IF dm THEN "unsubscribe" ELSE "event-topic"}),
     SubscribedEvents(dm)}
CleanupMenu == Panel("events:mine", {"events:cleanup:go"})

-----------------------------------------------------------------------------
(* Statistics: screens_stats.go, event_bets.go, progression_screen.go,         *)
(* screens_target_stats.go                                                    *)

StatsMenu ==
    Panel("menu:main", {"stats:month:menu", "stats:year:menu", "stats:all", "stats:events",
                        "stats:years", "stats:teams"})
YearMenu == Panel("menu:stats", {"stats:year:years", "stats:months"})
MonthMenu == Panel("stats:years", {"stats:month:months"})
EventStatsMenu == Panel("menu:stats", {"stats:event"})
TargetStatsMenu == Panel("menu:stats", {"stats:target:team"})
PersonalStats == Panel("stats:events", {})

\* The data of a button, narrowed to a game.
Filtered(data, game) ==
    CASE ~game                      -> data
      [] data = "stats:all"         -> "stats:all:g"
      [] data = "stats:month:menu"  -> "stats:month:menu:g"
      [] data = "stats:year:menu"   -> "stats:year:menu:g"
      [] data = "stats:p:a"         -> "stats:p:a:g"
      [] data = "stats:p:y:y"       -> "stats:p:y:y:g"
      [] data = "stats:p:y:r"       -> "stats:p:y:r:g"
      [] data = "stats:p:m:m"       -> "stats:p:m:m:g"
      [] data = "stats:p:m:r"       -> "stats:p:m:r:g"
      [] OTHER                      -> "stats:p:e:g"

\* A page's data: its period, and the back target as one letter.
LeaderboardPageBase(period, back) ==
    CASE period = "y" -> (IF back = "stats:years" THEN "stats:p:y:y" ELSE "stats:p:y:r")
      [] period = "m" -> (IF back = "stats:months" THEN "stats:p:m:m" ELSE "stats:p:m:r")
      [] period = "e" -> "stats:p:e"
      [] OTHER        -> "stats:p:a"

PeriodTabs(period, game) ==
    {Filtered("stats:all", game), "stats:events"}
        \cup CASE period = "m" -> {Filtered("stats:month:menu", game), Filtered("stats:year:menu", game)}
               [] period = "y" -> {"stats:years", Filtered("stats:year:menu", game)}
               [] OTHER        -> {"stats:years"}

LeaderboardKeyboard(period, game, back) ==
    Panel(back,
        PeriodTabs(period, game)
          \cup {Filtered(LeaderboardPageBase(period, back), g) : g \in BOOLEAN}
          \cup {"stats:chart", RulesTarget(back)}
          \cup IF period = "e" THEN {"stats:rankchart:e", "stats:evbets:me", "stats:evpick"}
               ELSE {"stats:rankchart"})

RenderLeaderboard(period, game, back) == Shows(LeaderboardKeyboard(period, game, back))
\* The board of a team's matches: its buttons are those of all time.
TargetTeamStats == RenderLeaderboard("a", FALSE, "stats:teams")

RenderEventBets(back) == Panel(back, {})
RenderEventParticipantPicker == Panel("stats:event", {"stats:evbets:u", "stats:evpick"})

\* The picture is a new message; without data the panel says so.
SendProgressionChart == {Stays, Shows(Panel("menu:stats", {}))}
SendRankChart == {Stays, Shows(Panel("menu:stats", {}))}

-----------------------------------------------------------------------------
(* Settings: screens_settings.go, screens_timezone.go, quiet_hours.go,          *)
(* notification_prefs.go, bulk_settings.go                                     *)

SettingsView(dm) ==
    Panel("menu:main",
          {"settings:games", "settings:top_tier", "settings:auto_subscribe", "settings:notify",
           "settings:quiet", "settings:timezone", "settings:stream_language", "settings:locale",
           "settings:flags", "settings:moderators", "settings:history"}
            \cup IF dm THEN {"bulk:menu"} ELSE {})
GamesView == Panel("menu:settings", {"settings:games:toggle"})
AutoSubscribeView == Panel("menu:settings", {"settings:auto_subscribe:"})
ChatNotificationsMenu == Panel("menu:settings", {"settings:notify:"})
QuietHoursView == Panel("menu:settings", {"settings:quiet:"})
TimezoneView == Panel("menu:settings", {"settings:tz"})
HistoryView == Panel("menu:settings", {})
BulkMenu == Panel("menu:settings", {"bulk:ask"})
BulkConfirm == Panel("bulk:menu", {"bulk:do"})
BulkApply == Does("CopySettings", Panel("menu:settings", {}))

\* Enabled at once; disabling asks another manager, or the same one again.
RequestGameDisable ==
    {Does("RequestGameDisable", Panel(NoBack, {button})) : button \in {"unsubok", "unsubreject"}}
RouteSettingsGamesToggle == {Does("EnableGame", GamesView), Stays} \cup RequestGameDisable

RouteSettingsAutoSubscribe == {Shows(AutoSubscribeView), Stays}

-----------------------------------------------------------------------------
(* Moderators: screens_moderators.go, invitation.go *)

ModeratorsView == Panel("menu:settings", {"moderators:card", "moderators:add"})
ModeratorCardView ==
    Panel("settings:moderators", {"moderators:permstart:e", "moderators:remove:ask"})
AssignMenuView == Panel("settings:moderators", {"moderators:permstart:i", "moderators:pick"})
ParticipantPickView == Panel("moderators:add", {"moderators:permstart:a", "moderators:pick"})

\* The wizard serves three flows, told apart by one letter: edit, invite, assign.
Flows == {"e", "i", "a"}
InFlow(f, edit, invite, assign) == CASE f = "e" -> edit [] f = "i" -> invite [] OTHER -> assign

PermStart(f) ==
    InFlow(f, "moderators:permstart:e", "moderators:permstart:i", "moderators:permstart:a")
PermPreset(f) ==
    InFlow(f, "moderators:permpreset:e", "moderators:permpreset:i", "moderators:permpreset:a")
PermToggle(f) ==
    InFlow(f, "moderators:permtoggle:e", "moderators:permtoggle:i", "moderators:permtoggle:a")
PermConfirm(f) ==
    InFlow(f, "moderators:permconfirm:e", "moderators:permconfirm:i", "moderators:permconfirm:a")
PermApply(f) ==
    InFlow(f, "moderators:permapply:e", "moderators:permapply:i", "moderators:permapply:a")

PermWizardBackTarget(f) == IF f = "e" THEN "moderators:card" ELSE "moderators:add"
PermPresetView(f) == Panel(PermWizardBackTarget(f), {PermPreset(f)})
PermToggleView(f) == Panel(PermStart(f), {PermToggle(f), PermConfirm(f)})
PermConfirmView(f) == Panel(PermStart(f), {PermApply(f)})
RoutePermPreset(f) == {Shows(PermConfirmView(f)), Shows(PermToggleView(f))}

InvitationCreatedView == Panel("settings:moderators", {"moderators:invite:revoke:ask"})
InvitationRevokeAskView == Panel("settings:moderators", {"moderators:invite:revoke:do"})
RemoveAskView == Panel("settings:moderators", {"moderators:remove:do"})

ApplyEditPermissions == Does("EditPermissions", ModeratorCardView)
ApplyAssignNew == Does("AddModerator", ModeratorsView)
CreateInvitation == Does("CreateInvitation", InvitationCreatedView)
RoutePermApply(f) ==
    InFlow(f, ApplyEditPermissions, CreateInvitation, ApplyAssignNew)

-----------------------------------------------------------------------------
(* Following events, teams and players: subscription_flow.go,                  *)
(* target_subscribe_flow.go, target_player_flow.go, target_browse.go           *)

EventsExit == Panel(NoBack, {"events:mine"})

\* Each of these asks for the manager's right itself.
ForManager(r, outcomes) == IF r.manager THEN outcomes ELSE {Stays}

\* Finished, unknown or subscribed already: a toast.
Subscribe(r) ==
    ForManager(r, {Stays, Does("Subscribe", Panel(NoBack, {"events:add", "events:mine"}))})
\* The request for a second opinion; the requester may confirm or withdraw it.
Unsubscribe(r) ==
    ForManager(r, {Stays, Does("RequestUnsubscribe", Panel("events:mine", {"unsubok"})),
                   Does("RequestUnsubscribe", Panel("events:mine", {"unsubreject"}))})
\* Expired, decided already, or the requester's own with other managers: a
\* toast. A game switched off leaves no keyboard at all.
ConfirmUnsubscribe(r) ==
    ForManager(r, {Stays, Does("Unsubscribe", EventsExit), Does("DisableGame", Closed)})
RejectUnsubscribe(r) == ForManager(r, {Stays, Does("RejectRequest", EventsExit)})
SetEventTopic(r) == ForManager(r, {Does("SetEventTopic", Same)})
CleanupFinished(dm) == Does("Cleanup", SubscribedEvents(dm))

TargetsMenu == Panel("menu:events", {"targets:browse", "targets:pbrowse", "targets:mine"})
BrowseTeams == Panel("menu:targets", {"targets:sub", "targets:browse", "targets:search"})
BrowsePlayers == Panel("menu:targets", {"targets:psub", "targets:pbrowse", "targets:psearch"})
TargetsMine == Panel("menu:targets", {"targets:unsub", "targets:punsub"})
SubscribeTarget == {Stays, Does("FollowTeam", Panel(NoBack, {"targets:search", "targets:mine"}))}
SubscribePlayer == {Stays, Does("FollowPlayer", Panel(NoBack, {"targets:psearch", "targets:mine"}))}
UnsubscribeTarget == Does("UnfollowTeam", TargetsMine)
UnsubscribePlayer == Does("UnfollowPlayer", TargetsMine)

\* A tournament of a team the group follows: target_cross_sell_flow.go, publishers.go.
\* Anyone in the group may wave the offer off.
CrossSellOffer == Panel(NoBack, {"subscribe", "crosssell:dismiss"})
DismissCrossSell == Does("DismissOffer", Closed)

\* The panels that search results arrive in, as new messages.
SearchEvents == {Panel("events:add", {"subscribe"}), RenderEventBrowse}
SearchTargets == {Panel("menu:targets", {"targets:sub"})}
SearchPlayers == {Panel("menu:targets", {"targets:psub"})}
-----------------------------------------------------------------------------
(* The route table: callback_routes.go. A route's guard is refused before its *)
(* handler runs, with a message; the screen stays.                            *)

EventRoute(b, r, dm) ==
    CASE b = "events:mine"       -> {Shows(SubscribedEvents(dm))}
      [] b = "events:view"       -> {Shows(p) : p \in EventDetails(dm)}
      [] b = "events:add"        -> ForManager(r, {Shows(EventAddMenu)})
      [] b = "events:search"     -> ForManager(r, {Stays})
      [] b = "events:browse"     -> ForManager(r, {Shows(RenderEventBrowse)})
      [] b = "events:cleanup"    -> ForManager(r, {Shows(CleanupMenu)})
      [] b = "events:cleanup:go" -> ForManager(r, {CleanupFinished(dm)})
      [] b = "subscribe"         -> Subscribe(r)
      [] b = "unsubscribe"       -> Unsubscribe(r)
      [] b = "unsubok"           -> ConfirmUnsubscribe(r)
      [] b = "unsubreject"       -> RejectUnsubscribe(r)
      [] b = "event-topic"       -> SetEventTopic(r)
      [] b = "crosssell:dismiss" -> {DismissCrossSell}
      [] OTHER -> {}

TargetOutcomes(b) ==
    CASE b = "menu:targets"    -> {Shows(TargetsMenu)}
      [] b \in {"targets:search", "targets:psearch"} -> {Stays}
      [] b = "targets:mine"    -> {Shows(TargetsMine)}
      [] b = "targets:browse"  -> {Shows(BrowseTeams)}
      [] b = "targets:pbrowse" -> {Shows(BrowsePlayers)}
      [] b = "targets:sub"     -> SubscribeTarget
      [] b = "targets:psub"    -> SubscribePlayer
      [] b = "targets:unsub"   -> {UnsubscribeTarget}
      [] b = "targets:punsub"  -> {UnsubscribePlayer}
      [] OTHER -> {}

TargetRoute(b, r, dm) == IF TargetOutcomes(b) = {} THEN {} ELSE ForManager(r, TargetOutcomes(b))

\* Each of these settings is toggled, saved and shown again in the list.
SavedSettings == {"settings:locale", "settings:top_tier", "settings:flags", "settings:stream_language"}

SettingOutcomes(b, dm) ==
    CASE b \in SavedSettings       -> {Does("SaveSettings", SettingsView(dm))}
      [] b = "settings:auto_subscribe"  -> RouteSettingsAutoSubscribe \cup {Does("ToggleAutoSubscribe", SettingsView(dm))}
      [] b = "settings:auto_subscribe:" -> {Does("ToggleAutoSubscribe", AutoSubscribeView), Stays}
      [] b = "settings:notify"      -> {Shows(ChatNotificationsMenu)}
      [] b = "settings:notify:"     -> {Does("ToggleChatNotification", ChatNotificationsMenu)}
      [] b = "settings:quiet"       -> {Shows(QuietHoursView)}
      [] b = "settings:quiet:"      -> {Does("SaveSettings", QuietHoursView)}
      [] b = "settings:timezone"    -> {Shows(TimezoneView)}
      [] b = "settings:tz"          -> {Does("SaveSettings", TimezoneView), Stays}
      [] b = "settings:games"       -> {Shows(GamesView)}
      [] b = "settings:games:toggle" -> RouteSettingsGamesToggle
      [] b = "bulk:menu"            -> {Shows(BulkMenu)}
      [] b = "bulk:ask"             -> {Shows(BulkConfirm)}
      [] b = "bulk:do"              -> {BulkApply}
      [] OTHER -> {}

SettingRoute(b, r, dm) ==
    CASE b = "menu:settings"       -> ForManager(r, {Shows(SettingsView(dm))})
      [] b = "settings:moderators" -> ForManager(r, {Shows(ModeratorsView)})
      [] b = "settings:history"    -> ForManager(r, {Shows(HistoryView), Stays})
      [] SettingOutcomes(b, dm) # {} -> IF r.settings THEN SettingOutcomes(b, dm) ELSE {Stays}
      [] OTHER -> {}

WizardOutcomes(b) ==
    UNION {CASE b = PermStart(f)   -> {Shows(PermPresetView(f))}
             [] b = PermPreset(f)  -> RoutePermPreset(f)
             [] b = PermToggle(f)  -> {Shows(PermToggleView(f))}
             [] b = PermConfirm(f) -> {Shows(PermConfirmView(f))}
             [] b = PermApply(f)   -> {RoutePermApply(f)}
             [] OTHER -> {} : f \in Flows}

ModeratorOutcomes(b) ==
    CASE b = "moderators:add"       -> {Shows(AssignMenuView)}
      [] b = "moderators:pick"      -> {Shows(ParticipantPickView)}
      [] b = "moderators:card"      -> {Shows(ModeratorCardView)}
      [] b = "moderators:remove:ask" -> {Shows(RemoveAskView)}
      [] b = "moderators:remove:do"  -> {Does("RemoveModerator", ModeratorsView)}
      [] b = "moderators:invite:revoke:ask" -> {Shows(InvitationRevokeAskView)}
      [] b = "moderators:invite:revoke:do"  -> {Does("RevokeInvitation", ModeratorsView)}
      [] OTHER -> WizardOutcomes(b)

\* Mutant of ModeratorRoute: a moderator is let in as any manager is.
ModeratorRoute_forManagers(b, r, dm) ==
    IF ModeratorOutcomes(b) = {} THEN {} ELSE ForManager(r, ModeratorOutcomes(b))

\* "a moderator must never be able to manage other moderators"
ModeratorRoute(b, r, dm) ==
    CASE ModeratorOutcomes(b) = {} -> {} [] r.admin -> ModeratorOutcomes(b) [] OTHER -> {Stays}

BoardRoute(b) ==
    UNION {CASE b = Filtered("stats:all", g)        -> {RenderLeaderboard("a", g, "menu:stats")}
             [] b = Filtered("stats:year:menu", g)  -> {RenderLeaderboard("y", g, "menu:stats")}
             [] b = "stats:year:years"              -> {RenderLeaderboard("y", FALSE, "stats:years")}
             [] b = Filtered("stats:month:menu", g) -> {RenderLeaderboard("m", g, "menu:stats")}
             [] b = "stats:month:months"            -> {RenderLeaderboard("m", FALSE, "stats:months")}
             [] b = "stats:event"                   -> {RenderLeaderboard("e", FALSE, "stats:events")}
             [] OTHER -> {} : g \in BOOLEAN}

\* A page finds its way back from the letter its button carries.
RouteStatsPage(b) ==
    UNION {CASE b = Filtered("stats:p:a", g)   -> {RenderLeaderboard("a", g, "menu:stats")}
             [] b = Filtered("stats:p:y:y", g) -> {RenderLeaderboard("y", g, "stats:years")}
             [] b = Filtered("stats:p:y:r", g) -> {RenderLeaderboard("y", g, "menu:stats")}
             [] b = Filtered("stats:p:m:m", g) -> {RenderLeaderboard("m", g, "stats:months")}
             [] b = Filtered("stats:p:m:r", g) -> {RenderLeaderboard("m", g, "menu:stats")}
             [] b = Filtered("stats:p:e", g)   -> {RenderLeaderboard("e", g, "stats:events")}
             [] OTHER -> {} : g \in BOOLEAN}

StatsRoute(b, r, dm) ==
    CASE b = "menu:stats"        -> {Shows(StatsMenu)}
      [] b = "stats:years"       -> {Shows(YearMenu)}
      [] b = "stats:months"      -> {Shows(MonthMenu)}
      [] b = "stats:events"      -> {Shows(EventStatsMenu)}
      [] b = "stats:teams"       -> {Shows(TargetStatsMenu)}
      [] b = "stats:target:team" -> {TargetTeamStats}
      [] b = "stats:evbets:me"   -> {Shows(RenderEventBets("stats:event"))}
      [] b = "stats:evbets:u"    -> {Shows(RenderEventBets("stats:evpick"))}
      [] b = "stats:evpick"      -> {Shows(RenderEventParticipantPicker)}
      [] b = "stats:chart"       -> SendProgressionChart
      [] b \in {"stats:rankchart", "stats:rankchart:e"} -> SendRankChart
      [] OTHER -> BoardRoute(b) \cup RouteStatsPage(b)

\* Where a screen that shows the rules may have been opened from.
RulesOrigins ==
    {"menu:main", "menu:stats", "hub:root", "pstats:menu", "stats:years", "stats:months",
     "stats:events", "stats:teams"}

MenuRoute(b, r, dm) ==
    CASE b = "menu:main"     -> {Shows(RouteMenuMain(r, dm))}
      [] b = "menu:events"   -> {Shows(EventMenu)}
      [] b = "menu:upcoming" -> {Shows(Upcoming)}
      [] b = "menu:help"     -> {Shows(HelpView("menu:main"))}
      [] OTHER -> {Shows(Panel(back, {})) : back \in {o \in RulesOrigins : b = RulesTarget(o)}}

\* No route: "this button is out of date".
RouteCallback(b, r, dm) ==
    LET found == MenuRoute(b, r, dm) \cup StatsRoute(b, r, dm) \cup EventRoute(b, r, dm)
                     \cup TargetRoute(b, r, dm) \cup SettingRoute(b, r, dm) \cup ModeratorRoute(b, r, dm)
    IN IF found = {} THEN {Stays} ELSE found
=============================================================================
