---------------------------- MODULE PersonalScreens ----------------------------
(***************************************************************************)
(* The screens of a private chat that are about the person or the           *)
(* deployment, not about a group: the personal cabinet, its settings, the    *)
(* hub, the operator's tools and the team-match queue.                       *)
(*                                                                         *)
(* A screen is the buttons it can offer and where its back button leads. A    *)
(* button is the family of its callback data: ids, pages and years are left    *)
(* out, a button that depends on the data shown is always there, and noop      *)
(* rows and links are left out. v is the viewer: v.operator is "none",         *)
(* "delegated" or "root"; v.manages that there is a group to manage; v.hub     *)
(* that there is a hub above the cabinet.                                     *)
(***************************************************************************)
NoBack == "none"
Panel(back, buttons) == [back |-> back, buttons |-> buttons]

\* The tapped message keeps its screen: an error, a refusal or a toast.
Same == Panel("same", {})
\* A closing word without a keyboard.
Closed == Panel(NoBack, {})

\* What a tap may do: the change it makes, and the screen it leaves.
Does(op, panel) == [op |-> op, panel |-> panel]
Shows(panel) == Does("none", panel)
Stays == Shows(Same)

-----------------------------------------------------------------------------
(* render.go, hub.go, screens_dm.go *)

\* A refusal is a screen too, with a way out of it.
Refuse(back) == Shows(Panel(back, {}))

PersonalRootBack(v) == IF v.hub THEN "hub:root" ELSE "pstats:menu"

PrivateStatsMenu(v) ==
    Panel(IF v.hub THEN "hub:root" ELSE NoBack,
          {"pstats:results", "pstats:insights", "pstats:bets", "pstats:achievements"}
              \cup IF v.hub THEN {} ELSE {"pstats:settings", "pstats:help"})

ModeHub(v) ==
    Panel(NoBack, {"hub:personal", "pstats:settings", "pstats:help"}
                      \cup (IF v.manages THEN {"hub:manage"} ELSE {})
                      \cup (IF v.operator # "none" THEN {"hub:system"} ELSE {}))

StartLanding(v) == IF v.hub THEN ModeHub(v) ELSE PrivateStatsMenu(v)

ManagedChatsMenu(v, back) == Panel(back, IF v.manages THEN {"manage:open"} ELSE {})

PrivateResultsMenu ==
    Panel("pstats:menu", {"pstats:month", "pstats:year", "pstats:all", "pstats:years", "pstats:chats"})

\* Mutant of PrivateYearMenu: back to a screen that leads here again.
PrivateYearMenu_loops == Panel("pstats:months", {"pstats:year", "pstats:months"})

PrivateYearMenu == Panel("pstats:results", {"pstats:year", "pstats:months"})
PrivateMonthMenu == Panel("pstats:years", {"pstats:month"})
RenderPrivateStats == Panel("pstats:results", {})
PrivateChatsMenu == Panel("pstats:results", {"pstats:chat", "pstats:chats"})
\* Or the list again, when the person has left that chat's table.
RenderPrivateChatStats == {Panel("pstats:chats", {"pstats:bets:c"}), PrivateChatsMenu}

PrivateSettingsMenu(v) ==
    Panel(PersonalRootBack(v),
          {"notify:menu", "pstats:locale", "pstats:timezone", "pstats:rename", "idea:menu"})
NotificationsMenu == Panel("pstats:settings", {"notify:toggle"})
RenameMenu == Panel("pstats:settings", {"pstats:rename:ask", "pstats:rename:reset"})
SuggestionMenu == Panel("pstats:settings", {"idea:write"})
UserTimezoneView == Panel("pstats:settings", {"pstats:tz"})

\* The rules remember the screen they were opened from.
RulesTarget(back) ==
    CASE back = "menu:main"    -> "menu:rules:menu:main"
      [] back = "menu:stats"   -> "menu:rules:menu:stats"
      [] back = "hub:root"     -> "menu:rules:hub:root"
      [] back = "pstats:menu"  -> "menu:rules:pstats:menu"
      [] back = "stats:years"  -> "menu:rules:stats:years"
      [] back = "stats:months" -> "menu:rules:stats:months"
      [] back = "stats:events" -> "menu:rules:stats:events"
      [] back = "stats:teams"  -> "menu:rules:stats:teams"
      [] OTHER -> "menu:rules"
HelpView(back) == Panel(back, {RulesTarget(back)})
AchievementsView(v) == Panel(PersonalRootBack(v), {})

\* The list of one chat goes back to that chat.
PrivateBetsMenu(back) == Panel(back, {"pstats:bets:c"})
RenderPersonalBets == Panel("pstats:menu", {"pstats:bets", "pstats:bets:f"})
RenderPersonalInsights ==
    Panel("pstats:menu", {"pstats:insights:", "miniapp:request", "miniapp:pending"})

-----------------------------------------------------------------------------
(* The operator's tools: hub.go, provider_status.go, host_status.go,          *)
(* outbox_status.go, notification_prefs.go, team_match.go, miniapp_access.go  *)

SystemToolsMenu(v) ==
    IF v.operator = "none" THEN Refuse("hub:root")
    ELSE Shows(Panel("hub:root",
            {"team_matches:list"} \cup
            IF v.operator = "delegated" THEN {}
            ELSE {"hub:provider_status", "hub:host_status", "hub:outbox", "hub:alerts",
                  "hub:crest_source", "hub:team_match_operators"}))

\* Every tool below the menu checks again: the panel may be an old one.
ForRoot(v, outcome) == IF v.operator = "root" THEN outcome ELSE Refuse("hub:system")
ForOperator(v, outcome) == IF v.operator # "none" THEN outcome ELSE Refuse("hub:system")

ProviderStatusView(v) == ForRoot(v, Shows(Panel("hub:system", {"hub:provider_status"})))
HostStatusView(v) == ForRoot(v, Shows(Panel("hub:system", {"hub:host_status"})))
OutboxPanel == Panel("hub:system", {"hub:outbox", "hub:outbox:replay"})
OutboxStatusView(v) == ForRoot(v, Shows(OutboxPanel))
ReplayDeadLetters(v) == ForRoot(v, Does("ReplayDeadLetters", OutboxPanel))
AlertsPanel == Panel("hub:system", {"alerts:toggle"})
AlertsMenu(v) == ForRoot(v, Shows(AlertsPanel))
ToggleAlert(v) == ForRoot(v, Does("ToggleAlert", AlertsPanel))
ToggleCrestSource(v) == ForRoot(v, Does("ToggleCrestSource", SystemToolsMenu(v).panel))

OperatorsPanel == Panel("hub:system", {"tmatch_admin:add", "tmatch_admin:remove"})
ListTeamMatchOperators(v) == ForRoot(v, Shows(OperatorsPanel))
TeamMatchAdminAddMenu(v) ==
    ForRoot(v, Shows(Panel("hub:team_match_operators", {"tmatch_admin:chat"})))
TeamMatchAdminPickUserMenu(v) ==
    ForRoot(v, Shows(Panel("tmatch_admin:add", {"tmatch_admin:appoint"})))
AppointTeamMatchOperator(v) == ForRoot(v, Does("AppointOperator", OperatorsPanel))
RemoveTeamMatchOperator(v) == ForRoot(v, Does("RemoveOperator", OperatorsPanel))

QueuePanel == Panel("hub:system", {"team_matches:open", "team_matches:list"})
TeamMatchQueueMenu(v) == ForOperator(v, Shows(QueuePanel))
TeamMatchCardMenu(v) ==
    {ForOperator(v, Shows(Panel("team_matches:list", {"team_matches:reject", "team_matches:pick"}))),
     TeamMatchQueueMenu(v)}
\* Answered already by somebody else: an alert, and the card stays.
ConfirmTeamMatch(v) ==
    {Stays} \cup IF v.operator = "none" THEN {} ELSE {Does("ConfirmTeamMatch", QueuePanel)}
RejectTeamMatch(v) ==
    {Stays} \cup IF v.operator = "none" THEN {} ELSE {Does("RejectTeamMatch", QueuePanel)}

\* The question asked of a helper, and "keep asking me?".
AskPanel == Panel(NoBack, {"tmatch:ans"})
AnswerTeamMatchAsk ==
    {Shows(Closed), Does("AnswerTeamMatch", Panel(NoBack, {"tmatch:continue:yes", "tmatch:continue:no"}))}
SetTeamMatchHelperOptOut == Does("OptOut", Closed)

MiniAppDecisionPanel == Panel(NoBack, {"miniapp:grant", "miniapp:deny"})
DecideMiniAppAccess(v) == IF v.operator = "root" THEN Does("DecideMiniApp", Same) ELSE Stays
\* Asked or decided already: a toast.
RequestMiniAppAccess(v) == {Does("RequestMiniApp", PrivateStatsMenu(v)), Stays}

\* invitation.go: the question behind an invitation's link.
OpenInvitationAccept == {Closed, Panel(NoBack, {"invite:accept", "invite:decline"})}
AcceptInvitation == {Shows(Closed), Does("AcceptInvitation", Closed)}

-----------------------------------------------------------------------------
(* handlePrivateCallback, the cases that are not about a managed chat *)

ResultsCallback(b) ==
    CASE b = "pstats:results" -> {PrivateResultsMenu}
      [] b \in {"pstats:all", "pstats:year", "pstats:month"} -> {RenderPrivateStats}
      [] b = "pstats:years"   -> {PrivateYearMenu}
      [] b = "pstats:months"  -> {PrivateMonthMenu}
      [] b = "pstats:chats"   -> {PrivateChatsMenu}
      [] b = "pstats:chat"    -> RenderPrivateChatStats
      [] b = "pstats:bets:c"  -> {PrivateBetsMenu("pstats:chat")}
      [] b \in {"pstats:bets", "pstats:bets:f"} -> {RenderPersonalBets}
      [] b \in {"pstats:insights", "pstats:insights:"} -> {RenderPersonalInsights}
      [] OTHER -> {}

CabinetCallback(b, v) ==
    CASE b \in {"pstats:menu", "hub:personal"} -> {Shows(PrivateStatsMenu(v))}
      [] b = "hub:root"            -> {Shows(StartLanding(v))}
      [] b = "hub:manage"          -> {Shows(ManagedChatsMenu(v, "hub:root"))}
      [] b = "manage:chats"        -> {Shows(ManagedChatsMenu(v, "pstats:menu"))}
      [] b = "pstats:settings"     -> {Shows(PrivateSettingsMenu(v))}
      [] b = "pstats:achievements" -> {Shows(AchievementsView(v))}
      [] b = "pstats:help"         -> {Shows(HelpView(PersonalRootBack(v)))}
      [] OTHER -> {}

PreferenceCallback(b, v) ==
    CASE b = "pstats:locale"       -> {Does("SetUserLocale", PrivateSettingsMenu(v))}
      [] b = "notify:menu"         -> {Shows(NotificationsMenu)}
      [] b = "notify:toggle"       -> {Does("ToggleNotification", NotificationsMenu)}
      [] b = "pstats:rename"       -> {Shows(RenameMenu)}
      [] b = "pstats:rename:ask"   -> {Stays}
      [] b = "pstats:rename:reset" -> {Does("ResetNickname", RenameMenu)}
      [] b = "pstats:timezone"     -> {Shows(UserTimezoneView)}
      [] b = "pstats:tz"           -> {Does("SetUserTimezone", UserTimezoneView)}
      [] b = "idea:menu"           -> {Shows(SuggestionMenu)}
      [] b = "idea:write"          -> {Stays}
      [] b = "miniapp:request"     -> RequestMiniAppAccess(v)
      [] b = "miniapp:pending"     -> {Stays}
      [] b = "invite:accept"       -> AcceptInvitation
      [] b = "invite:decline"      -> {Shows(Closed)}
      [] OTHER -> {}

SystemCallback(b, v) ==
    CASE b = "hub:system"           -> {SystemToolsMenu(v)}
      [] b = "hub:provider_status"  -> {ProviderStatusView(v)}
      [] b = "hub:host_status"      -> {HostStatusView(v)}
      [] b = "hub:outbox"           -> {OutboxStatusView(v)}
      [] b = "hub:outbox:replay"    -> {ReplayDeadLetters(v)}
      [] b = "hub:alerts"           -> {AlertsMenu(v)}
      [] b = "alerts:toggle"        -> {ToggleAlert(v)}
      [] b = "hub:crest_source"     -> {ToggleCrestSource(v)}
      [] b = "hub:team_match_operators" -> {ListTeamMatchOperators(v)}
      [] b = "tmatch_admin:add"     -> {TeamMatchAdminAddMenu(v)}
      [] b = "tmatch_admin:chat"    -> {TeamMatchAdminPickUserMenu(v)}
      [] b = "tmatch_admin:appoint" -> {AppointTeamMatchOperator(v)}
      [] b = "tmatch_admin:remove"  -> {RemoveTeamMatchOperator(v)}
      [] b \in {"miniapp:grant", "miniapp:deny"} -> {DecideMiniAppAccess(v)}
      [] OTHER -> {}

TeamMatchCallback(b, v) ==
    CASE b = "tmatch:ans"           -> AnswerTeamMatchAsk
      [] b \in {"tmatch:continue:yes", "tmatch:continue:no"} -> {SetTeamMatchHelperOptOut}
      [] b = "team_matches:list"    -> {TeamMatchQueueMenu(v)}
      [] b = "team_matches:open"    -> TeamMatchCardMenu(v)
      [] b = "team_matches:pick"    -> ConfirmTeamMatch(v)
      [] b = "team_matches:reject"  -> RejectTeamMatch(v)
      [] OTHER -> {}

\* The outcomes of a personal button; none for a button of a managed chat.
PersonalCallback(b, v) ==
    {Shows(p) : p \in ResultsCallback(b)} \cup CabinetCallback(b, v)
        \cup PreferenceCallback(b, v) \cup SystemCallback(b, v) \cup TeamMatchCallback(b, v)
=============================================================================
