------------------------------- MODULE ChatAccess -------------------------------
(***************************************************************************)
(* What a group has chosen, and how its managers change it: the settings row, *)
(* the games it follows, its tournaments, and the removals that need a second *)
(* manager. ChatRoles says who the managers are.                            *)
(*                                                                         *)
(* ChatRepository.Save writes the whole settings row, whoever calls it: a     *)
(* button, a PATCH of the Mini App, every message of the group and every      *)
(* change of the bot's membership read the row first and save all of it       *)
(* later. The games a chat follows are replaced as a set in a transaction.    *)
(*                                                                         *)
(* Left out: the fields that behave like zone, the announcements in the       *)
(* group, the polls a new subscription sends (PredictionPolls), the message   *)
(* that starts a chat's row, and the 24 hours of a request as a clock.        *)
(***************************************************************************)
EXTENDS ChatRoles

CONSTANTS Fields,     \* the settings with a value of their own; "active" is one
          Games,
          MaxRequests \* how often removal is requested

ASSUME AccessConstants == "active" \in Fields /\ Fields \cap Games = {} /\ MaxRequests \in Nat

VARIABLES
    row,       \* telegram_chat: field -> value
    chosen,    \* the value each setting was last given, and whether each game was last switched on
    overlapped,\* those given while another writer had read and was still to write
    saves,     \* saves in flight: the row as read, the field and its new value
    games,     \* chat_enabled_game: "off", "on" or "auto"
    toggles,   \* replacements of that set in flight
    subscribed,\* event_subscription.active of one tournament
    reachable, \* telegram_user.dm_reachable
    request,   \* pending_approval, and what came of it
    requests,
    answers    \* confirmations and rejections between the read and the write

settingsVars == <<row, chosen, overlapped, saves, games, toggles, subscribed, reachable,
                  request, requests, answers>>
vars == <<rolesVars, started, faults, settingsVars>>

Subjects == {"tournament"} \cup Games
NoRequest == [subject |-> "none", by |-> NoOne, asked |-> {}, self |-> FALSE, status |-> "none",
              removedBy |-> NoOne, removals |-> 0, rejected |-> FALSE, excused |-> FALSE]

TypeOK ==
    /\ RolesTypeOK
    /\ row \in [Fields -> BOOLEAN] /\ chosen \in [Fields \cup Games -> BOOLEAN]
    /\ overlapped \subseteq Fields \cup Games
    /\ saves \subseteq [row : [Fields -> BOOLEAN], field : Fields, value : BOOLEAN]
    /\ games \in [Games -> {"off", "on", "auto"}]
    /\ toggles \subseteq [follow : SUBSET Games, game : Games, stage : {"read", "cleared"},
                          late : BOOLEAN, by : People, approved : BOOLEAN]
    /\ subscribed \in BOOLEAN /\ reachable \subseteq People
    /\ request \in [subject : Subjects \cup {"none"}, by : People \cup {NoOne}, asked : SUBSET People,
                    self : BOOLEAN, status : {"none", "open", "expired", "resolved"},
                    removedBy : People \cup {NoOne}, removals : 0 .. MaxTasks, rejected : BOOLEAN,
                    excused : BOOLEAN]
    /\ requests \in 0 .. MaxRequests
    /\ answers \subseteq [by : People, kind : {"confirm", "reject"}, stage : {"read", "acted"},
                          follow : SUBSET Games]

Init ==
    /\ RolesInit
    /\ row = [f \in Fields |-> f = "active"] /\ saves = {}
    /\ chosen = [x \in Fields \cup Games |-> x = "active"] /\ overlapped = {}
    /\ games = [g \in Games |-> "off"] /\ toggles = {}
    /\ subscribed = FALSE
    /\ reachable \in {{}, People}
    /\ request = NoRequest /\ requests = 0 /\ answers = {}

-----------------------------------------------------------------------------
(* The settings row.                                                        *)

Choose(x, value, overlaps) ==
    /\ chosen' = [chosen EXCEPT ![x] = value]
    /\ overlapped' = IF overlaps THEN overlapped \cup {x} ELSE overlapped \ {x}

ReadForSave(field, value) ==
    /\ Start
    /\ saves' = saves \cup {[row |-> row, field |-> field, value |-> value]}
    /\ UNCHANGED <<rolesVars, row, chosen, overlapped, games, toggles, subscribed, reachable, request,
                   requests, answers, faults>>

\* A settings button, or PATCH chats/{id}/settings (patchChatSettingsHandler).
ChangeSetting(p, field) ==
    /\ HasPermission(p, "manage_group_settings")
    /\ ReadForSave(field, ~row[field])

\* handleMessage: a message shows that the bot is in the group.
HandleMessage == ReadForSave("active", TRUE)

\* handleMyChatMember: the bot was removed, or added again.
HandleMyChatMember(member) == ReadForSave("active", member)

Saved(save) == [save.row EXCEPT ![save.field] = save.value]

Save(save) ==
    /\ save \in saves
    /\ saves' = saves \ {save}
    /\ row' = Saved(save)
    /\ Choose(save.field, save.value, saves # {save})
    /\ UNCHANGED <<rolesVars, started, faults, games, toggles, subscribed, reachable, request,
                   requests, answers>>

-----------------------------------------------------------------------------
(* The games: SetEnabledGames deletes the chat's rows and inserts the new set, *)
(* each game with its default flag; SetAutoSubscribeGame updates one row.      *)

Followed == {g \in Games : games[g] # "off"}

BeginToggle(p, g, follow, approved) ==
    toggles' = toggles \cup {[follow |-> follow, game |-> g, stage |-> "read", late |-> FALSE,
                              by |-> p, approved |-> approved]}

\* The bot's button: on at once, off by request (RequestRemoval).
EnableGame(p, g) ==
    /\ HasPermission(p, "manage_group_settings")
    /\ games[g] = "off"
    /\ Start
    /\ BeginToggle(p, g, Followed \cup {g}, FALSE)
    /\ UNCHANGED <<rolesVars, faults, row, chosen, overlapped, saves, games, subscribed, reachable,
                   request, requests, answers>>

\* The Mini App's switch: on or off at once (applyChatPatch).
PatchGame(p, g, on) ==
    /\ HasPermission(p, "manage_group_settings")
    /\ Start
    /\ BeginToggle(p, g, IF on THEN Followed \cup {g} ELSE Followed \ {g}, FALSE)
    /\ UNCHANGED <<rolesVars, faults, row, chosen, overlapped, saves, games, subscribed, reachable,
                   request, requests, answers>>

ClearGames(toggle) ==
    /\ toggle \in toggles /\ toggle.stage = "read"
    /\ toggles' = (toggles \ {toggle}) \cup {[toggle EXCEPT !.stage = "cleared"]}
    /\ UNCHANGED <<rolesVars, started, faults, row, chosen, overlapped, saves, games, subscribed,
                   reachable, request, requests, answers>>

\* Mutant of Replaced: the new set is inserted, and nothing deleted before.
Replaced_adds(toggle) ==
    [g \in Games |-> IF games[g] = "off" /\ g \in toggle.follow THEN "on" ELSE games[g]]

Replaced(toggle) ==
    [g \in Games |-> IF g \in toggle.follow THEN "on" ELSE IF toggle.late THEN games[g] ELSE "off"]

\* Confirmations that have read the games of the chat (ReadRequest, below).
Confirming == {a \in answers : a.kind = "confirm" /\ a.stage = "read" /\ request.subject \in Games}

\* A row another transaction has inserted meanwhile is a duplicate key: nothing changes.
SetEnabledGames(toggle) ==
    /\ toggle \in toggles /\ toggle.stage = "cleared"
    /\ IF toggle.late /\ toggle.follow \cap Followed # {}
       THEN UNCHANGED <<games, chosen, overlapped>>
       ELSE /\ games' = Replaced(toggle)
            /\ Choose(toggle.game, toggle.game \in toggle.follow,
                      toggle.late \/ toggles # {toggle} \/ Confirming # {})
    /\ toggles' = {IF o.stage = "cleared" /\ games' # games THEN [o EXCEPT !.late = TRUE] ELSE o :
                   o \in toggles \ {toggle}}
    /\ UNCHANGED <<rolesVars, started, faults, row, saves, subscribed, reachable, request, requests,
                   answers>>

SetAutoSubscribeGame(p, g) ==
    /\ HasPermission(p, "manage_group_settings")
    /\ games[g] # "off"
    /\ Start
    /\ games' = [games EXCEPT ![g] = IF @ = "on" THEN "auto" ELSE "on"]
    /\ UNCHANGED <<rolesVars, faults, row, chosen, overlapped, saves, toggles, subscribed, reachable,
                   request, requests, answers>>

-----------------------------------------------------------------------------
(* Tournaments, and the removals another manager has to agree to.             *)

Subscribe(p) ==
    /\ CanManage(p) /\ ~subscribed
    /\ subscribed' = TRUE
    /\ UNCHANGED <<rolesVars, started, faults, row, chosen, overlapped, saves, games, toggles, reachable,
                   request, requests, answers>>

\* unsubscribe and requestGameDisable: one transaction stores the request and
\* asks every other manager the bot can write to.
Requested(p, subject) ==
    [subject |-> subject, by |-> p, asked |-> OtherManagers(p) \cap reachable,
     self |-> OtherManagers(p) \cap reachable = {}, status |-> "open", removedBy |-> NoOne,
     removals |-> 0, rejected |-> FALSE, excused |-> FALSE]

RequestRemoval(p, subject) ==
    /\ IF subject = "tournament" THEN CanManage(p)
       ELSE HasPermission(p, "manage_group_settings") /\ games[subject] # "off"
    /\ requests < MaxRequests /\ requests' = requests + 1
    /\ answers = {}                            \* the earlier request has no tap in flight
    /\ request' = Requested(p, subject)
    /\ UNCHANGED <<rolesVars, started, faults, row, chosen, overlapped, saves, games, toggles, subscribed,
                   reachable, answers>>

RequestExpires ==
    /\ request.status = "open"
    /\ request' = [request EXCEPT !.status = "expired"]
    /\ UNCHANGED <<rolesVars, started, faults, row, chosen, overlapped, saves, games, toggles, subscribed,
                   reachable, requests, answers>>

\* Mutant: Find without "resolved_at IS NULL".
Answerable_resolved == request.status \in {"open", "resolved"}

\* Find returns unresolved requests only; an expired one is refused.
Answerable == request.status = "open"

MayConfirm(p) == CanManage(p) /\ (request.self \/ p # request.by)

ReadRequest(p, kind) ==
    /\ Answerable
    /\ IF kind = "confirm" THEN MayConfirm(p) ELSE CanManage(p)
    /\ Start
    /\ answers' = answers \cup {[by |-> p, kind |-> kind, stage |-> "read", follow |-> Followed]}
    /\ request' = [request EXCEPT !.excused = @ \/ answers # {}]
    /\ UNCHANGED <<rolesVars, faults, row, chosen, overlapped, saves, games, toggles, subscribed,
                   reachable, requests>>

\* Nothing reads the request again before the removal. The games are those the
\* chat followed when the tap was read.
ConfirmRemoval(answer) ==
    /\ answer \in answers /\ answer.kind = "confirm" /\ answer.stage = "read"
    /\ IF request.subject = "tournament"
       THEN subscribed' = FALSE /\ UNCHANGED toggles
       ELSE /\ BeginToggle(answer.by, request.subject, answer.follow \ {request.subject}, TRUE)
            /\ UNCHANGED subscribed
    /\ request' = [request EXCEPT !.removedBy = answer.by, !.removals = @ + 1]
    /\ answers' = (answers \ {answer}) \cup {[answer EXCEPT !.stage = "acted"]}
    /\ UNCHANGED <<rolesVars, started, faults, row, chosen, overlapped, saves, games, reachable, requests>>

\* Resolving is best effort: when it fails, only a warning is logged.
Resolve(answer) ==
    /\ answer \in answers /\ (answer.stage = "acted" \/ answer.kind = "reject")
    /\ answers' = answers \ {answer}
    /\ \/ /\ request' = [request EXCEPT !.status = "resolved", !.rejected = @ \/ answer.kind = "reject"]
          /\ UNCHANGED faults
       \/ /\ faults < MaxFaults /\ faults' = faults + 1
          /\ request' = [request EXCEPT !.excused = TRUE]
    /\ UNCHANGED <<rolesVars, started, row, chosen, overlapped, saves, games, toggles, subscribed,
                   reachable, requests>>

-----------------------------------------------------------------------------
Roles == RolesNext /\ UNCHANGED settingsVars

Next ==
    \/ Roles
    \/ \E p \in People :
           \/ \E f \in Fields \ {"active"} : ChangeSetting(p, f)
           \/ \E g \in Games :
                  \/ EnableGame(p, g) \/ SetAutoSubscribeGame(p, g)
                  \/ \E on \in BOOLEAN : PatchGame(p, g, on)
           \/ Subscribe(p)
           \/ \E subject \in Subjects : RequestRemoval(p, subject)
           \/ \E kind \in {"confirm", "reject"} : ReadRequest(p, kind)
    \/ HandleMessage
    \/ \E member \in BOOLEAN : HandleMyChatMember(member)
    \/ \E save \in saves : Save(save)
    \/ \E toggle \in toggles : ClearGames(toggle) \/ SetEnabledGames(toggle)
    \/ RequestExpires
    \/ \E answer \in answers : ConfirmRemoval(answer) \/ Resolve(answer)

Spec == Init /\ [][Next]_vars

-----------------------------------------------------------------------------
(* Properties                                                               *)

\* What a manager has set stands: a setting keeps the value it was last given, and a
\* game stays on or off, unless another writer had read the row or the games
\* before and was still to write. Messages, membership changes, buttons, the Mini
\* App and confirmed removals all write back whole what they have read; none that
\* begins later undoes it (Save, SetEnabledGames).
ChoicesStand ==
    /\ \A f \in Fields \ overlapped : row[f] = chosen[f]
    /\ \A g \in Games \ overlapped : (games[g] # "off") = chosen[g]

\* One request removes once, and not after a rejection, though the tournament may
\* have been added again meanwhile - unless two taps overlapped or the resolving
\* failed (PendingApprovalRepository.Resolve). Where another manager was asked to
\* agree, it is not the one who requested it that removes (SelfConfirmable).
RequestRemovesOnce ==
    /\ \/ request.excused
       \/ request.removals <= 1 /\ (request.rejected => request.removals = 0)
    /\ request.removedBy # NoOne /\ request.asked # {} => request.removedBy # request.by

(* What the repository's comments say, and the code does not do: no run checks it (README, 5). *)

\* A game is switched off by an approved request only (games_flow.go).
GamesGoOffByApproval ==
    [][\A t \in toggles' \ toggles : t.approved \/ Followed \subseteq t.follow]_toggles
==============================================================================
