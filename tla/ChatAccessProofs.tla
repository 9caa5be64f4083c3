---------------------------- MODULE ChatAccessProofs ----------------------------
(***************************************************************************)
(* Proofs about ChatRoles and ChatAccess: whom an invitation appoints, which  *)
(* rights a person keeps, which settings and games stand, and what one        *)
(* removal request may do.                                                  *)
(*                                                                         *)
(* Each holds because of what the tasks in flight have read: a task that       *)
(* claimed an invitation is the one the invitation is marked used by           *)
(* (RolesInv); what an appointment or edit may still write was given, as long  *)
(* as the row it refers to can be there (GivenInv); what a writer read of       *)
(* another's field or game is what was last chosen (FieldsStand, GamesStand);  *)
(* and a tap on a request that no other overlapped found it neither carried    *)
(* out nor rejected (RequestInv). Types hold because every removal, done or     *)
(* still to be done, is one of the handlers started.                         *)
(***************************************************************************)
EXTENDS ChatAccess, FiniteSetTheorems, TLAPS

\* A task that has claimed an invitation is the one it is marked used by.
ClaimsAreMarked ==
    \A task \in appointing :
        task.stage = "claimed" /\ task.token # NoOne =>
            invites[task.token].status = "used" /\ invites[task.token].usedBy = task.who

Invites == [Tokens -> [perms : SUBSET Permissions, usedBy : People \cup {NoOne},
                       status : {"none", "open", "expired", "used", "revoked"}]]

Tasks == [who : People, perms : SUBSET Permissions, token : Tokens \cup {NoOne},
          stage : {"read", "claimed", "row", "cleared"}, late : BOOLEAN]

RolesTypes ==
    /\ invites \in Invites
    /\ appointing \subseteq Tasks
    /\ \A task \in appointing : (task.stage = "read" => task.token \in Tokens)
    /\ appointed \in [Tokens -> SUBSET People]
    /\ perms \in [People -> SUBSET Permissions]

\* Rights refer to the moderator's row.
RightsNeedARow == \A p \in People : perms[p] # {} => p \in moderators

RolesInv == RolesTypes /\ ClaimsAreMarked /\ InvitationAppointsOne /\ RightsNeedARow

\* What those in flight for p may still write was given to p, as long as the rows
\* they refer to can be there; what p holds was given once a task reads on beside
\* others, and once none is left.
GivenTo(p) ==
    /\ p \in moderators \/ (\E o \in UnderWay(p) : o.stage = "claimed") =>
           \A task \in UnderWay(p) : task.perms \subseteq given[p]
    /\ (\E task \in UnderWay(p) : task.late) \/ UnderWay(p) = {} => perms[p] \subseteq given[p]

\* Only a task that has deleted the rows it saw misses those of another.
LateAreCleared == \A task \in appointing : task.late => task.stage = "cleared"

GivenInv ==
    /\ given \in [People -> SUBSET Permissions]
    /\ LateAreCleared
    /\ \A p \in People : GivenTo(p)

Requests == [subject : Subjects \cup {"none"}, by : People \cup {NoOne}, asked : SUBSET People,
             self : BOOLEAN, status : {"none", "open", "expired", "resolved"},
             removedBy : People \cup {NoOne}, removals : Nat, rejected : BOOLEAN, excused : BOOLEAN]

Answers == [by : People, kind : {"confirm", "reject"}, stage : {"read", "acted"}, follow : SUBSET Games]

Settings == [row : [Fields -> BOOLEAN], field : Fields, value : BOOLEAN]

Toggles == [follow : SUBSET Games, game : Games, stage : {"read", "cleared"}, late : BOOLEAN,
            by : People, approved : BOOLEAN]

AccessTypes ==
    /\ row \in [Fields -> BOOLEAN] /\ chosen \in [Fields \cup Games -> BOOLEAN]
    /\ overlapped \subseteq Fields \cup Games
    /\ saves \subseteq Settings
    /\ games \in [Games -> {"off", "on", "auto"}]
    /\ toggles \subseteq Toggles
    /\ request \in Requests
    /\ answers \subseteq Answers

\* What a writer has read of a field or a game it does not change is what was last
\* chosen, unless that choice was made while another had still to write.
FieldStands(f, value) == f \in overlapped \/ value = chosen[f]
GameStands(g, follow) == g \in overlapped \/ (g \in follow <=> chosen[g])

FieldsStand ==
    /\ \A f \in Fields : FieldStands(f, row[f])
    /\ \A save \in saves, f \in Fields : FieldStands(f, save.row[f])

GamesStand ==
    /\ \A g \in Games : GameStands(g, Followed)
    /\ \A toggle \in toggles, g \in Games : g # toggle.game => GameStands(g, toggle.follow)
    /\ \A a \in Confirming, g \in Games : GameStands(g, a.follow)

\* Taps are on a request that was made.
SubjectKnown == request.status # "none" \/ answers # {} => request.subject \in Subjects

\* Who may confirm, and who did.
ConfirmedByAnother ==
    /\ (request.self => request.asked = {})
    /\ \A a \in answers : (a.kind = "confirm" => request.self \/ a.by # request.by)
    /\ (request.removedBy # NoOne /\ request.asked # {} => request.removedBy # request.by)

Untouched == request.removals = 0 /\ ~request.rejected

\* What a request that nobody overlapped on has come to.
OneAtATime ==
    /\ \A a, b \in answers : a = b
    /\ \A a \in answers : (a.stage = "read" => Untouched)
    /\ \A a \in answers : (a.stage = "acted" => a.kind = "confirm" /\ request.removals = 1 /\ ~request.rejected)
    /\ (answers = {} /\ request.status \in {"open", "expired"} => Untouched)
    /\ request.removals <= 1 /\ (request.rejected => request.removals = 0)

RequestInv == ConfirmedByAnother /\ (request.excused \/ OneAtATime)

IInv == /\ RolesInv /\ GivenInv
        /\ AccessTypes /\ FieldsStand /\ GamesStand
        /\ SubjectKnown /\ RequestInv


-----------------------------------------------------------------------------
(* Roles *)

LEMMA InitRolesInv == RolesInit => RolesInv
  <1> SUFFICES ASSUME RolesInit PROVE RolesInv
    OBVIOUS
  <1>1. RolesTypes
    <2>1. NoInvite \in [perms : SUBSET Permissions, usedBy : People \cup {NoOne},
                        status : {"none", "open", "expired", "used", "revoked"}]
      BY DEF NoInvite
    <2> QED BY <2>1 DEF RolesInit, RolesTypes, Invites
  <1> QED BY <1>1 DEF RolesInit, RolesInv, ClaimsAreMarked, InvitationAppointsOne, RightsNeedARow

\* A task that goes on to another stage keeps what it is about.
LEMMA StageOnly ==
  ASSUME NEW task \in Tasks, NEW s \in {"read", "claimed", "row", "cleared"}
  PROVE  /\ [task EXCEPT !.stage = s] \in Tasks
         /\ [task EXCEPT !.stage = s].stage = s
         /\ [task EXCEPT !.stage = s].token = task.token
         /\ [task EXCEPT !.stage = s].who = task.who
         /\ [task EXCEPT !.stage = s].perms = task.perms
         /\ [task EXCEPT !.stage = s].late = task.late
         /\ [task EXCEPT !.late = TRUE] \in Tasks
         /\ [task EXCEPT !.late = TRUE].stage = task.stage
         /\ [task EXCEPT !.late = TRUE].token = task.token
         /\ [task EXCEPT !.late = TRUE].who = task.who
  BY DEF Tasks

LEMMA NextRolesInv == RolesInv /\ (RolesNext \/ UNCHANGED rolesVars) => RolesInv'
  <1> SUFFICES ASSUME RolesInv, RolesNext \/ UNCHANGED rolesVars PROVE RolesInv'
    OBVIOUS
  <1>0. RolesTypes /\ ClaimsAreMarked /\ InvitationAppointsOne /\ RightsNeedARow
    BY DEF RolesInv
  <1> USE <1>0
  \* Steps that change no invitation, appointment or permission.
  <1>a. UNCHANGED <<moderators, perms, invites, appointing, appointed>> => RolesInv'
    BY DEF RolesInv, RolesTypes, ClaimsAreMarked, InvitationAppointsOne, RightsNeedARow
  \* Steps that start a task with nothing claimed from an invitation, or drop one.
  <1>b. ASSUME UNCHANGED <<moderators, perms, invites, appointed>>, appointing' \subseteq Tasks,
               \A task \in appointing' \ appointing :
                   /\ (task.stage = "read" => task.token \in Tokens)
                   /\ (task.stage # "claimed" \/ task.token = NoOne)
        PROVE  RolesInv'
    BY <1>b DEF RolesInv, RolesTypes, ClaimsAreMarked, InvitationAppointsOne, RightsNeedARow
  <1>1. CASE UNCHANGED rolesVars
    BY <1>1, <1>a DEF rolesVars
  <1>2. ASSUME NEW admin \in Admins, NEW p \in People, NEW grant \in Grants,
               AssignNew(admin, p, grant) \/ EditPermissions(admin, p, grant)
        PROVE  RolesInv'
    <2> DEFINE new(s) == [who |-> p, perms |-> grant, token |-> NoOne, stage |-> s, late |-> FALSE]
    <2>1. PICK s \in {"claimed", "row"} : appointing' = appointing \cup {new(s)}
      BY <1>2 DEF AssignNew, EditPermissions, Appoint
    <2>2. new(s) \in Tasks /\ new(s).token = NoOne /\ new(s).stage # "read"
      BY RolesConstants DEF Tasks
    <2> HIDE DEF new
    <2> QED BY <1>2, <1>b, <2>1, <2>2 DEF AssignNew, EditPermissions, RolesTypes
  <1>3. ASSUME NEW t \in Tokens, NEW row1,
               row1 \in [perms : SUBSET Permissions, usedBy : People \cup {NoOne},
                         status : {"none", "open", "expired", "used", "revoked"}],
               invites' = [invites EXCEPT ![t] = row1], invites[t].status # "used",
               UNCHANGED <<moderators, perms, appointing, appointed>>
        PROVE  RolesInv'
    <2>1. RolesTypes'
      BY <1>3 DEF RolesTypes, Invites
    <2>2. ClaimsAreMarked'
      BY <1>3 DEF ClaimsAreMarked, RolesTypes, Invites
    <2>3. InvitationAppointsOne'
      BY <1>3 DEF InvitationAppointsOne, RolesTypes, Invites
    <2>4. RightsNeedARow'
      BY <1>3 DEF RightsNeedARow
    <2> QED BY <2>1, <2>2, <2>3, <2>4 DEF RolesInv
  <1>4. ASSUME NEW admin \in Admins, NEW t \in Tokens, NEW grant \in Grants, CreateInvitation(admin, t, grant)
        PROVE  RolesInv'
    <2>1. [perms |-> grant, status |-> "open", usedBy |-> NoOne]
             \in [perms : SUBSET Permissions, usedBy : People \cup {NoOne},
                  status : {"none", "open", "expired", "used", "revoked"}]
      BY RolesConstants
    <2>2. invites[t].status # "used"
      BY <1>4 DEF CreateInvitation
    <2> QED BY <1>3, <1>4, <2>1, <2>2 DEF CreateInvitation
  <1>5. ASSUME NEW t \in Tokens, InvitationExpires(t) \/ \E admin \in Admins : RevokeInvitation(admin, t)
        PROVE  RolesInv'
    <2>1. PICK s \in {"expired", "revoked"} : invites' = [invites EXCEPT ![t].status = s]
      BY <1>5 DEF InvitationExpires, RevokeInvitation
    <2>2. invites' = [invites EXCEPT ![t] = [invites[t] EXCEPT !.status = s]]
      BY <2>1
    <2>3. [invites[t] EXCEPT !.status = s] \in [perms : SUBSET Permissions, usedBy : People \cup {NoOne},
                  status : {"none", "open", "expired", "used", "revoked"}]
      BY DEF RolesTypes, Invites
    <2>4. invites[t].status # "used" /\ UNCHANGED <<moderators, perms, appointing, appointed>>
      BY <1>5 DEF InvitationExpires, RevokeInvitation
    <2> QED BY <1>3, <2>2, <2>3, <2>4
  <1>6. ASSUME NEW t \in Tokens, NEW p \in People, AcceptInvitation(p, t) PROVE RolesInv'
    <2> DEFINE new == [who |-> p, perms |-> invites[t].perms, token |-> t, stage |-> "read", late |-> FALSE]
    <2>1. appointing' = appointing \cup {new} /\ UNCHANGED <<moderators, perms, invites, appointed>>
      BY <1>6 DEF AcceptInvitation, Appoint
    <2>2. invites[t].perms \in SUBSET Permissions
      BY DEF RolesTypes, Invites
    <2>3. new \in Tasks /\ new.token \in Tokens /\ new.stage = "read"
      BY <2>2 DEF Tasks
    <2> HIDE DEF new
    <2>4. appointing' \subseteq Tasks /\ \A task \in appointing' \ appointing : task = new
      BY <2>1, <2>3 DEF RolesTypes
    <2> QED BY <1>b, <2>1, <2>3, <2>4
  <1>7. ASSUME NEW task \in appointing, UseInvitation(task) PROVE RolesInv'
    <2>1. task \in Tasks /\ task.stage = "read" /\ task.token \in Tokens /\ task.who \in People
      BY <1>7 DEF UseInvitation, RolesTypes, Tasks
    <2>2. UNCHANGED <<moderators, perms, appointed>>
      BY <1>7 DEF UseInvitation
    <2>3. CASE ~Claimable(task.token)
      <3>1. appointing' = appointing \ {task} /\ invites' = invites
        BY <1>7, <2>3 DEF UseInvitation
      <3> QED BY <1>b, <2>2, <3>1 DEF RolesTypes
    <2>4. CASE Claimable(task.token)
      <3> DEFINE claimed == [task EXCEPT !.stage = "claimed"]
                 t == task.token
      <3>1. /\ appointing' = (appointing \ {task}) \cup {claimed}
            /\ invites' = [invites EXCEPT ![t].status = "used", ![t].usedBy = task.who]
            /\ invites[t].status \in {"open", "expired"}
        BY <1>7, <2>4 DEF UseInvitation, Becomes, Claimable
      <3>2. claimed \in Tasks /\ claimed.stage = "claimed" /\ claimed.token = t /\ claimed.who = task.who
        BY <2>1, StageOnly
      <3>3. /\ invites' \in Invites /\ invites'[t].status = "used" /\ invites'[t].usedBy = task.who
            /\ \A o \in Tokens \ {t} : invites'[o] = invites[o]
        BY <2>1, <3>1 DEF RolesTypes, Invites
      <3> HIDE DEF claimed, t
      <3>4. RolesTypes'
        BY <2>1, <2>2, <3>1, <3>2, <3>3 DEF RolesTypes
      <3>5. ClaimsAreMarked'
        <4> SUFFICES ASSUME NEW o \in appointing', o.stage = "claimed", o.token # NoOne
                     PROVE  invites'[o.token].status = "used" /\ invites'[o.token].usedBy = o.who
          BY DEF ClaimsAreMarked
        <4>1. CASE o = claimed
          BY <3>2, <3>3, <4>1 DEF t
        <4>2. CASE o # claimed
          <5>1. o \in appointing /\ invites[o.token].status = "used" /\ invites[o.token].usedBy = o.who
            BY <3>1, <4>2 DEF ClaimsAreMarked
          <5>2. o.token \in Tokens \ {t}
            BY <3>1, <5>1 DEF RolesTypes, Tasks
          <5> QED BY <3>3, <5>1, <5>2
        <4> QED BY <4>1, <4>2
      <3>6. InvitationAppointsOne'
        <4>1. appointed[t] = {}
          BY <2>1, <3>1 DEF InvitationAppointsOne, t
        <4> QED BY <2>2, <3>3, <4>1 DEF InvitationAppointsOne
      <3> QED BY <2>2, <3>4, <3>5, <3>6 DEF RolesInv, RightsNeedARow
    <2> QED BY <2>3, <2>4
  \* A task's next step, which claims nothing.
  <1>c. ASSUME NEW task \in appointing, NEW s \in {"row", "cleared"}, Becomes(task, s),
               UNCHANGED invites
        PROVE  /\ appointing' \subseteq Tasks /\ ClaimsAreMarked'
               /\ \A o \in appointing' : (o.stage = "read" => o.token \in Tokens)
    <2> DEFINE next == [task EXCEPT !.stage = s]
    <2>1. appointing' = (appointing \ {task}) \cup {next} /\ next \in Tasks /\ next.stage = s
      <3>1. task \in Tasks
        BY DEF RolesTypes
      <3>2. s \in {"read", "claimed", "row", "cleared"}
        OBVIOUS
      <3>3. next \in Tasks /\ next.stage = s
        BY <3>1, <3>2 DEF Tasks
      <3> QED BY <1>c, <3>3 DEF Becomes
    <2> HIDE DEF next
    <2> QED BY <1>c, <2>1 DEF RolesTypes, ClaimsAreMarked
  <1>8. ASSUME NEW task \in appointing, AddModerator(task) PROVE RolesInv'
    <2>1. /\ task.stage = "claimed" /\ moderators' = moderators \cup {task.who} /\ Becomes(task, "row")
          /\ UNCHANGED <<perms, invites>> /\ task \in Tasks /\ task.who \in People
          /\ appointed' = IF task.token = NoOne THEN appointed
                          ELSE [appointed EXCEPT ![task.token] = @ \cup {task.who}]
      BY <1>8 DEF AddModerator, RolesTypes, Tasks
    <2>2. RolesTypes' /\ ClaimsAreMarked'
      BY <1>c, <2>1 DEF RolesTypes
    <2>3. InvitationAppointsOne'
      <3>1. CASE task.token = NoOne
        BY <2>1, <3>1 DEF InvitationAppointsOne
      <3>2. CASE task.token # NoOne
        <4>1. invites[task.token].status = "used" /\ invites[task.token].usedBy = task.who
          BY <2>1, <3>2 DEF ClaimsAreMarked
        <4>2. task.token \in Tokens /\ appointed'[task.token] = {task.who}
          BY <2>1, <3>2, <4>1 DEF RolesTypes, Tasks, InvitationAppointsOne
        <4>3. \A o \in Tokens \ {task.token} : appointed'[o] = appointed[o]
          BY <2>1, <3>2 DEF RolesTypes
        <4> QED BY <2>1, <4>1, <4>2, <4>3 DEF InvitationAppointsOne
      <3> QED BY <3>1, <3>2
    <2>4. RightsNeedARow'
      BY <2>1 DEF RightsNeedARow
    <2> QED BY <2>2, <2>3, <2>4 DEF RolesInv
  <1>9. ASSUME NEW task \in appointing, ClearPermissions(task) PROVE RolesInv'
    <2>1. Becomes(task, "cleared") /\ UNCHANGED <<moderators, perms, invites, appointed>>
      BY <1>9 DEF ClearPermissions
    <2>2. RolesTypes' /\ ClaimsAreMarked'
      BY <1>c, <2>1 DEF RolesTypes
    <2> QED BY <2>1, <2>2 DEF RolesInv, InvitationAppointsOne, RightsNeedARow
  <1>10. ASSUME NEW task \in appointing, SetModeratorPermissions(task) PROVE RolesInv'
    <2>1. task \in Tasks /\ task.who \in People /\ task.perms \in SUBSET Permissions
      BY DEF RolesTypes, Tasks
    <2>2. UNCHANGED <<moderators, invites, appointed>>
      BY <1>10 DEF SetModeratorPermissions
    <2>3. CASE InsertsFail(task)
      <3>1. perms' = perms /\ appointing' = appointing \ {task}
        BY <1>10, <2>3 DEF SetModeratorPermissions
      <3> QED BY <1>b, <2>2, <3>1 DEF RolesTypes
    <2>4. CASE ~InsertsFail(task)
      <3>1. /\ perms' = [perms EXCEPT ![task.who] = IF task.late THEN @ \cup task.perms ELSE task.perms]
            /\ appointing' = {IF o.who = task.who /\ o.stage = "cleared"
                              THEN [o EXCEPT !.late = TRUE] ELSE o : o \in appointing \ {task}}
        BY <1>10, <2>4 DEF SetModeratorPermissions
      <3>2. ASSUME NEW n \in appointing'
            PROVE  n \in Tasks /\ \E o \in appointing : n.stage = o.stage /\ n.token = o.token /\ n.who = o.who
        <4>1. PICK o \in appointing : n = (IF o.who = task.who /\ o.stage = "cleared"
                                          THEN [o EXCEPT !.late = TRUE] ELSE o)
          BY <3>1
        <4>2. o \in Tasks
          BY DEF RolesTypes
        <4> QED BY <4>1, <4>2, StageOnly
      <3>3. perms' \in [People -> SUBSET Permissions]
        BY <2>1, <3>1 DEF RolesTypes
      <3>4. RolesTypes' /\ ClaimsAreMarked'
        BY <2>2, <3>2, <3>3 DEF RolesTypes, ClaimsAreMarked
      <3>5. RightsNeedARow'
        <4> SUFFICES ASSUME NEW p \in People, perms'[p] # {} PROVE p \in moderators
          BY <2>2 DEF RightsNeedARow
        <4>1. CASE p = task.who
          <5>1. perms'[p] \subseteq perms[p] \cup task.perms
            BY <2>1, <3>1, <4>1 DEF RolesTypes
          <5> QED BY <2>4, <4>1, <5>1 DEF InsertsFail, RightsNeedARow
        <4>2. CASE p # task.who
          BY <3>1, <4>2 DEF RolesTypes, RightsNeedARow
        <4> QED BY <4>1, <4>2
      <3> QED BY <2>2, <3>4, <3>5 DEF RolesInv, InvitationAppointsOne
    <2> QED BY <2>3, <2>4
  <1>11. ASSUME NEW task \in appointing, AppointmentFails(task) PROVE RolesInv'
    BY <1>11, <1>b DEF AppointmentFails, RolesTypes
  <1>12. ASSUME NEW admin \in Admins, NEW p \in People, RemoveModerator(admin, p) PROVE RolesInv'
    <2>1. /\ moderators' = moderators \ {p} /\ perms' = [perms EXCEPT ![p] = {}]
          /\ UNCHANGED <<invites, appointing, appointed>>
      BY <1>12 DEF RemoveModerator
    <2>2. RolesTypes' /\ RightsNeedARow'
      BY <2>1 DEF RolesTypes, RightsNeedARow
    <2> QED BY <2>1, <2>2 DEF RolesInv, ClaimsAreMarked, InvitationAppointsOne
  <1>13. ASSUME NEW p \in People, NEW status,
                \/ Leaves(p) \/ AskForMiniApp(p) \/ RequestMiniAppAccess(p) \/ DecideMiniAppAccess(p, status)
         PROVE  RolesInv'
    BY <1>13, <1>a DEF Leaves, AskForMiniApp, RequestMiniAppAccess, DecideMiniAppAccess
  <1> QED
    BY <1>1, <1>2, <1>4, <1>5, <1>6, <1>7, <1>8, <1>9, <1>10, <1>11, <1>12, <1>13 DEF RolesNext

-----------------------------------------------------------------------------
(* The rights that were given *)

LEMMA InitGivenInv == RolesInit => GivenInv
  BY DEF RolesInit, GivenInv, GivenTo, UnderWay, LateAreCleared

LEMMA NextGivenInv == RolesInv /\ GivenInv /\ (RolesNext \/ UNCHANGED rolesVars) => GivenInv'
  <1> SUFFICES ASSUME RolesInv, GivenInv, RolesNext \/ UNCHANGED rolesVars PROVE GivenInv'
    OBVIOUS
  <1>0. /\ appointing \subseteq Tasks /\ perms \in [People -> SUBSET Permissions]
        /\ given \in [People -> SUBSET Permissions] /\ LateAreCleared /\ \A p \in People : GivenTo(p)
        /\ RightsNeedARow
    BY DEF RolesInv, RolesTypes, GivenInv
  <1>f. \A task \in Tasks : /\ task.who \in People /\ task.perms \in SUBSET Permissions
                            /\ task.late \in BOOLEAN
    BY DEF Tasks
  \* Whom a step does not concern.
  <1>o. ASSUME NEW p \in People, perms'[p] = perms[p], given'[p] = given[p],
               p \in moderators' <=> p \in moderators, UnderWay(p)' = UnderWay(p)
        PROVE  GivenTo(p)'
    BY <1>0, <1>o DEF GivenTo
  <1>a. UNCHANGED <<moderators, perms, given, appointing>> => GivenInv'
    BY DEF GivenInv, GivenTo, UnderWay, LateAreCleared
  <1>1. CASE UNCHANGED rolesVars
    BY <1>1, <1>a DEF rolesVars
  \* Rights given, and the task that is to write them.
  <1>g. ASSUME NEW p \in People, NEW grant \in SUBSET Permissions, GiveRights(p, grant),
               NEW new \in Tasks, new.who = p, new.perms = grant, new.stage # "read", ~new.late,
               NEW old \in SUBSET appointing, \A o \in old : o.stage = "read",
               appointing' = (appointing \ old) \cup {new},
               UNCHANGED <<moderators, perms>>
        PROVE  GivenInv'
    <2> DEFINE before == UNION {task.perms : task \in UnderWay(p)}
    <2>1. /\ given' = [given EXCEPT ![p] =
                grant \cup (IF UnderWay(p) = {} THEN {} ELSE @ \cup before)]
          /\ \A task \in UnderWay(p) : task.perms \subseteq before
      BY <1>g DEF GiveRights
    <2>2. before \in SUBSET Permissions
      BY <1>0, <1>f DEF UnderWay
    <2> HIDE DEF before
    <2>3. given' \in [People -> SUBSET Permissions]
      BY <1>0, <2>1, <2>2
    <2>4. UnderWay(p)' = UnderWay(p) \cup {new}
      BY <1>g DEF UnderWay
    <2>5. \A q \in People \ {p} : UnderWay(q)' = UnderWay(q) /\ given'[q] = given[q]
      BY <1>0, <1>g, <2>1 DEF UnderWay
    <2>6. LateAreCleared'
      BY <1>0, <1>g DEF LateAreCleared
    <2>7. \A task \in UnderWay(p)' : task.perms \subseteq given'[p]
      BY <1>0, <1>g, <2>1, <2>4
    <2>8. GivenTo(p)'
      <3>1. ASSUME NEW task \in UnderWay(p)', task.late PROVE perms'[p] \subseteq given'[p]
        <4>1. task \in UnderWay(p) /\ perms[p] \subseteq given[p]
          BY <1>0, <1>g, <2>4, <3>1 DEF GivenTo
        <4>2. given[p] \subseteq given'[p]
          BY <1>0, <2>1, <4>1
        <4> QED BY <1>g, <4>1, <4>2
      <3>2. UnderWay(p)' # {}
        BY <2>4
      <3> QED BY <2>7, <3>1, <3>2 DEF GivenTo
    <2>9. \A q \in People \ {p} : GivenTo(q)'
      BY <1>g, <1>o, <2>5
    <2> QED BY <2>3, <2>6, <2>8, <2>9 DEF GivenInv
  <1>2. ASSUME NEW admin \in Admins, NEW p \in People, NEW grant \in Grants,
               AssignNew(admin, p, grant) \/ EditPermissions(admin, p, grant)
        PROVE  GivenInv'
    <2> DEFINE new(s) == [who |-> p, perms |-> grant, token |-> NoOne, stage |-> s, late |-> FALSE]
    <2>1. PICK s \in {"claimed", "row"} : appointing' = appointing \cup {new(s)}
      BY <1>2 DEF AssignNew, EditPermissions, Appoint
    <2>2. /\ new(s) \in Tasks /\ new(s).who = p /\ new(s).perms = grant /\ new(s).stage # "read" /\ ~new(s).late
          /\ grant \in SUBSET Permissions
      BY RolesConstants DEF Tasks
    <2>3. GiveRights(p, grant) /\ UNCHANGED <<moderators, perms>>
      BY <1>2 DEF AssignNew, EditPermissions
    <2>4. PICK task : task = new(s)
      OBVIOUS
    <2>5. /\ task \in Tasks /\ task.who = p /\ task.perms = grant /\ task.stage # "read" /\ ~task.late
          /\ grant \in SUBSET Permissions /\ {} \in SUBSET appointing
          /\ \A o \in {} : o.stage = "read"
      BY <2>2, <2>4
    <2>6. appointing' = (appointing \ {}) \cup {task}
      BY <2>1, <2>4
    <2> HIDE DEF new
    <2> QED BY <1>g, <2>3, <2>5, <2>6
  <1>3. ASSUME NEW t \in Tokens, NEW p \in People, AcceptInvitation(p, t) PROVE GivenInv'
    <2> DEFINE new == [who |-> p, perms |-> invites[t].perms, token |-> t, stage |-> "read", late |-> FALSE]
    <2>1. appointing' = appointing \cup {new} /\ UNCHANGED <<moderators, perms, given>>
      BY <1>3 DEF AcceptInvitation, Appoint
    <2>2. new.stage = "read" /\ ~new.late
      OBVIOUS
    <2> HIDE DEF new
    <2>3. \A q \in People : UnderWay(q)' = UnderWay(q)
      BY <2>1, <2>2 DEF UnderWay
    <2>4. LateAreCleared'
      BY <1>0, <2>1, <2>2 DEF LateAreCleared
    <2> QED BY <1>0, <1>o, <2>1, <2>3, <2>4 DEF GivenInv
  <1>4. ASSUME NEW task \in appointing, UseInvitation(task) PROVE GivenInv'
    <2>1. task.stage = "read" /\ UNCHANGED <<moderators, perms>> /\ task \in Tasks /\ ~task.late
      BY <1>0, <1>4, <1>f DEF UseInvitation, LateAreCleared
    <2>2. CASE ~Claimable(task.token)
      <3>1. appointing' = appointing \ {task} /\ given' = given
        BY <1>4, <2>2 DEF UseInvitation
      <3>2. \A q \in People : UnderWay(q)' = UnderWay(q)
        BY <2>1, <3>1 DEF UnderWay
      <3>3. LateAreCleared'
        BY <1>0, <3>1 DEF LateAreCleared
      <3> QED BY <1>0, <1>o, <2>1, <3>1, <3>2, <3>3 DEF GivenInv
    <2>3. CASE Claimable(task.token)
      <3> DEFINE claimed == [task EXCEPT !.stage = "claimed"]
      <3>1. appointing' = (appointing \ {task}) \cup {claimed} /\ GiveRights(task.who, task.perms)
        BY <1>4, <2>3 DEF UseInvitation, Becomes
      <3>2. /\ claimed \in Tasks /\ claimed.stage = "claimed" /\ claimed.who = task.who
            /\ claimed.perms = task.perms /\ ~claimed.late
        BY <2>1, StageOnly
      <3> HIDE DEF claimed
      <3>3. /\ {task} \in SUBSET appointing /\ (\A o \in {task} : o.stage = "read")
            /\ task.who \in People /\ task.perms \in SUBSET Permissions /\ claimed.stage # "read"
        BY <1>f, <2>1, <3>2
      <3> QED BY <1>g, <2>1, <3>1, <3>2, <3>3
    <2> QED BY <2>2, <2>3
  \* A task's next statement; the rights it brings stay those it began with.
  <1>s. ASSUME NEW task \in appointing, NEW s \in {"row", "cleared"}, Becomes(task, s),
               task.stage \in {"claimed", "row"}, UNCHANGED <<perms, given>>,
               moderators' = moderators \cup (IF task.stage = "claimed" THEN {task.who} ELSE {})
        PROVE  GivenInv'
    <2> DEFINE next == [task EXCEPT !.stage = s]
               p == task.who
    <2>1. appointing' = (appointing \ {task}) \cup {next}
      BY <1>s DEF Becomes
    <2>2. /\ task \in Tasks /\ ~task.late /\ p \in People /\ next \in Tasks /\ next.stage = s
          /\ next.who = p /\ next.perms = task.perms /\ ~next.late
      <3>1. task \in Tasks /\ ~task.late /\ p \in People
        BY <1>0, <1>f, <1>s DEF LateAreCleared
      <3>2. s \in {"read", "claimed", "row", "cleared"}
        OBVIOUS
      <3>3. /\ next \in Tasks /\ next.stage = s /\ next.who = task.who /\ next.perms = task.perms
            /\ next.late = task.late
        BY <3>1, <3>2 DEF Tasks
      <3> QED BY <3>1, <3>3
    <2> HIDE DEF next, p
    <2>3. UnderWay(p)' = (UnderWay(p) \ {task}) \cup {next} /\ task \in UnderWay(p)
      BY <1>s, <2>1, <2>2 DEF UnderWay, p
    <2>4. \A q \in People \ {p} : UnderWay(q)' = UnderWay(q) /\ (q \in moderators' <=> q \in moderators)
      BY <1>s, <2>1, <2>2 DEF UnderWay, p
    <2>5. LateAreCleared'
      BY <1>0, <2>1, <2>2 DEF LateAreCleared
    <2>6. GivenTo(p)'
      <3>1. p \in moderators' \/ (\E o \in UnderWay(p)' : o.stage = "claimed") =>
                p \in moderators \/ (\E o \in UnderWay(p) : o.stage = "claimed")
        BY <1>s, <2>2, <2>3 DEF p
      <3>2. (\E o \in UnderWay(p)' : o.late) => \E o \in UnderWay(p) : o.late
        BY <2>2, <2>3
      <3> QED BY <1>0, <1>s, <2>2, <2>3, <3>1, <3>2 DEF GivenTo
    <2> QED BY <1>0, <1>o, <1>s, <2>4, <2>5, <2>6 DEF GivenInv
  <1>5. ASSUME NEW task \in appointing, AddModerator(task) \/ ClearPermissions(task) PROVE GivenInv'
    <2>1. CASE AddModerator(task)
      BY <1>s, <2>1 DEF AddModerator
    <2>2. CASE ClearPermissions(task)
      BY <1>s, <2>2 DEF ClearPermissions
    <2> QED BY <1>5, <2>1, <2>2
  <1>6. ASSUME NEW task \in appointing, SetModeratorPermissions(task) PROVE GivenInv'
    <2> DEFINE p == task.who
    <2>1. /\ task.stage = "cleared" /\ UNCHANGED <<moderators, given>> /\ task \in Tasks /\ p \in People
          /\ task \in UnderWay(p)
      BY <1>0, <1>6, <1>f DEF SetModeratorPermissions, UnderWay
    <2> HIDE DEF p
    <2>2. CASE InsertsFail(task)
      <3>1. perms' = perms /\ appointing' = appointing \ {task} /\ perms[p] = {}
        BY <1>0, <1>6, <2>1, <2>2 DEF SetModeratorPermissions, InsertsFail, RightsNeedARow, p
      <3>2. UnderWay(p)' \subseteq UnderWay(p) /\ \A q \in People \ {p} : UnderWay(q)' = UnderWay(q)
        BY <3>1 DEF UnderWay, p
      <3>3. GivenTo(p)' /\ LateAreCleared'
        BY <1>0, <2>1, <3>1, <3>2 DEF GivenTo, LateAreCleared
      <3> QED BY <1>0, <1>o, <2>1, <3>1, <3>2, <3>3 DEF GivenInv
    <2>3. CASE ~InsertsFail(task)
      <3> DEFINE Later(o) == IF o.who = p /\ o.stage = "cleared" THEN [o EXCEPT !.late = TRUE] ELSE o
      <3>1. /\ perms' = [perms EXCEPT ![p] = IF task.late THEN @ \cup task.perms ELSE task.perms]
            /\ appointing' = {Later(o) : o \in appointing \ {task}}
        BY <1>6, <2>3 DEF SetModeratorPermissions, p
      <3>2. \A o \in Tasks : /\ Later(o).who = o.who /\ Later(o).stage = o.stage /\ Later(o).perms = o.perms
                             /\ (o.who # p => Later(o) = o)
                             /\ (Later(o).late => o.late \/ o.stage = "cleared")
        BY DEF Tasks
      <3> HIDE DEF Later
      <3>3. \A n \in appointing' : \E o \in appointing :
                n.who = o.who /\ n.stage = o.stage /\ n.perms = o.perms /\ (n.late => o.stage = "cleared")
        BY <1>0, <3>1, <3>2 DEF LateAreCleared
      <3>4. LateAreCleared'
        BY <3>3 DEF LateAreCleared
      <3>5. \A q \in People \ {p} : UnderWay(q)' = UnderWay(q) /\ perms'[q] = perms[q]
        <4>1. ASSUME NEW q \in People \ {p} PROVE UnderWay(q)' = UnderWay(q)
          <5>1. UnderWay(q)' \subseteq UnderWay(q)
            BY <1>0, <3>1, <3>2 DEF UnderWay
          <5>2. ASSUME NEW o \in UnderWay(q) PROVE o \in UnderWay(q)'
            <6>1. o \in appointing \ {task} /\ o \in Tasks /\ o.who = q /\ o.stage # "read"
              BY <1>0 DEF UnderWay, p
            <6>2. Later(o) = o
              BY <3>2, <6>1
            <6> QED BY <3>1, <6>1, <6>2 DEF UnderWay
          <5> QED BY <5>1, <5>2
        <4> QED BY <1>0, <3>1, <4>1
      <3>6. perms'[p] \subseteq given'[p]
        <4>1. task.perms \subseteq given[p]
          <5>1. CASE p \in moderators
            BY <1>0, <2>1, <5>1 DEF GivenTo
          <5>2. CASE p \notin moderators
            BY <2>3, <5>2 DEF InsertsFail, p
          <5> QED BY <5>1, <5>2
        <4>2. task.late => perms[p] \subseteq given[p]
          BY <1>0, <2>1 DEF GivenTo
        <4> QED BY <1>0, <2>1, <3>1, <4>1, <4>2
      <3>7. \A n \in UnderWay(p)' : \E o \in UnderWay(p) : n.perms = o.perms /\ n.stage = o.stage
        BY <3>3 DEF UnderWay
      <3>8. GivenTo(p)'
        BY <1>0, <2>1, <3>6, <3>7 DEF GivenTo
      <3> QED BY <1>0, <1>o, <2>1, <3>4, <3>5, <3>8 DEF GivenInv
    <2> QED BY <2>2, <2>3
  <1>7. ASSUME NEW task \in appointing, AppointmentFails(task) PROVE GivenInv'
    <2> DEFINE p == task.who
    <2>1. /\ appointing' = appointing \ {task} /\ UNCHANGED <<moderators, perms>> /\ p \in People
          /\ given' = IF task.stage = "read" THEN given ELSE [given EXCEPT ![p] = @ \cup perms[p]]
      BY <1>0, <1>7, <1>f DEF AppointmentFails
    <2> HIDE DEF p
    <2>2. given' \in [People -> SUBSET Permissions] /\ LateAreCleared'
      BY <1>0, <2>1 DEF LateAreCleared
    <2>3. \A q \in People \ {p} : UnderWay(q)' = UnderWay(q) /\ given'[q] = given[q]
      BY <1>0, <2>1 DEF UnderWay, p
    <2>4. GivenTo(p)'
      <3>1. CASE task.stage = "read"
        <4>1. UnderWay(p)' = UnderWay(p)
          BY <2>1, <3>1 DEF UnderWay
        <4> QED BY <1>o, <2>1, <3>1, <4>1
      <3>2. CASE task.stage # "read"
        <4>1. UnderWay(p)' \subseteq UnderWay(p)
          BY <2>1 DEF UnderWay
        <4>2. perms'[p] \subseteq given'[p] /\ given[p] \subseteq given'[p]
          BY <1>0, <2>1, <3>2
        <4> QED BY <1>0, <2>1, <4>1, <4>2 DEF GivenTo
      <3> QED BY <3>1, <3>2
    <2> QED BY <1>o, <2>1, <2>2, <2>3, <2>4 DEF GivenInv
  <1>8. ASSUME NEW admin \in Admins, NEW p \in People, RemoveModerator(admin, p) PROVE GivenInv'
    <2>1. /\ moderators' = moderators \ {p} /\ perms' = [perms EXCEPT ![p] = {}] /\ appointing' = appointing
          /\ given' = IF \E task \in UnderWay(p) : task.stage = "claimed" THEN given
                      ELSE [given EXCEPT ![p] = {}]
      BY <1>8 DEF RemoveModerator
    <2>2. given' \in [People -> SUBSET Permissions] /\ LateAreCleared'
      BY <1>0, <2>1 DEF LateAreCleared
    <2>3. \A q \in People : UnderWay(q)' = UnderWay(q)
      BY <2>1 DEF UnderWay
    <2>4. GivenTo(p)'
      BY <1>0, <2>1, <2>3 DEF GivenTo
    <2>5. \A q \in People \ {p} : /\ given'[q] = given[q] /\ perms'[q] = perms[q]
                                  /\ (q \in moderators' <=> q \in moderators)
      BY <1>0, <2>1
    <2> QED BY <1>o, <2>2, <2>3, <2>4, <2>5 DEF GivenInv
  <1>9. ASSUME NEW admin \in Admins, NEW t \in Tokens, NEW grant \in Grants,
               CreateInvitation(admin, t, grant)
        PROVE  GivenInv'
    BY <1>9, <1>a DEF CreateInvitation
  <1>10. ASSUME NEW admin \in Admins, NEW t \in Tokens, RevokeInvitation(admin, t)
         PROVE  GivenInv'
    BY <1>10, <1>a DEF RevokeInvitation
  <1>11. ASSUME NEW t \in Tokens, InvitationExpires(t) PROVE GivenInv'
    BY <1>11, <1>a DEF InvitationExpires
  <1>12. ASSUME NEW p \in People, NEW status,
                \/ Leaves(p) \/ AskForMiniApp(p) \/ RequestMiniAppAccess(p) \/ DecideMiniAppAccess(p, status)
         PROVE  GivenInv'
    BY <1>12, <1>a DEF Leaves, AskForMiniApp, RequestMiniAppAccess, DecideMiniAppAccess
  <1> QED
    BY <1>1, <1>2, <1>3, <1>4, <1>5, <1>6, <1>7, <1>8, <1>9, <1>10, <1>11, <1>12 DEF RolesNext

-----------------------------------------------------------------------------
(* Settings and requests *)

LEMMA InitIInv == Init => IInv
  <1> SUFFICES ASSUME Init PROVE IInv
    OBVIOUS
  <1>1. RolesInv /\ GivenInv
    BY InitRolesInv, InitGivenInv DEF Init
  <1>2. request \in Requests
    BY DEF Init, NoRequest, Requests
  <1>3. AccessTypes
    <2>1. chosen \in [Fields \cup Games -> BOOLEAN] /\ row \in [Fields -> BOOLEAN]
      BY DEF Init
    <2>2. games \in [Games -> {"off", "on", "auto"}]
      BY DEF Init
    <2>3. overlapped = {} /\ saves = {} /\ toggles = {} /\ answers = {}
      BY DEF Init
    <2> QED BY <1>2, <2>1, <2>2, <2>3 DEF AccessTypes
  <1>4. SubjectKnown /\ RequestInv
    BY DEF Init, NoRequest, SubjectKnown, RequestInv, ConfirmedByAnother, OneAtATime, Untouched
  <1>5. FieldsStand
    BY DEF Init, FieldsStand, FieldStands
  <1>6. GamesStand
    <2>1. \A g \in Games : g # "active"
      BY AccessConstants
    <2>2. \A g \in Games : chosen[g] = FALSE /\ g \notin Followed
      BY <2>1 DEF Init, Followed
    <2>3. toggles = {} /\ Confirming = {}
      BY DEF Init, Confirming
    <2> QED BY <2>2, <2>3 DEF GamesStand, GameStands
  <1> QED BY <1>1, <1>3, <1>4, <1>5, <1>6 DEF IInv

handlerVars == <<row, chosen, overlapped, saves, games, toggles, request, answers>>

LEMMA AccessStands ==
  ASSUME IInv, UNCHANGED handlerVars
  PROVE  AccessTypes' /\ FieldsStand' /\ GamesStand' /\ SubjectKnown' /\ RequestInv'
  <1>1. AccessTypes' /\ SubjectKnown'
    BY DEF IInv, handlerVars, AccessTypes, SubjectKnown
  <1>2. FieldsStand' /\ GamesStand'
    BY DEF IInv, handlerVars, FieldsStand, FieldStands, GamesStand, GameStands, Followed, Confirming
  <1>3. RequestInv'
    BY DEF IInv, handlerVars, RequestInv, ConfirmedByAnother, OneAtATime, Untouched
  <1> QED BY <1>1, <1>2, <1>3

LEMMA RequestStands ==
  ASSUME IInv, UNCHANGED <<request, answers>>
  PROVE  SubjectKnown' /\ RequestInv' /\ request' \in Requests /\ answers' \subseteq Answers
         /\ Confirming' = Confirming
  BY DEF IInv, AccessTypes, SubjectKnown, RequestInv, ConfirmedByAnother, OneAtATime, Untouched, Confirming

LEMMA NextSettings ==
  ASSUME IInv, NEW save \in saves, Save(save)
  PROVE  AccessTypes' /\ FieldsStand' /\ GamesStand' /\ SubjectKnown' /\ RequestInv'
  <1>0. /\ save.row \in [Fields -> BOOLEAN] /\ save.value \in BOOLEAN /\ save.field \in Fields
        /\ row \in [Fields -> BOOLEAN] /\ chosen \in [Fields \cup Games -> BOOLEAN]
        /\ overlapped \subseteq Fields \cup Games
    BY DEF IInv, AccessTypes, Settings
  <1>1. /\ saves' = saves \ {save}
        /\ row' = [save.row EXCEPT ![save.field] = save.value]
        /\ chosen' = [chosen EXCEPT ![save.field] = save.value]
        /\ overlapped' = IF saves # {save} THEN overlapped \cup {save.field} ELSE overlapped \ {save.field}
        /\ UNCHANGED <<games, toggles, request, answers>>
    BY DEF Save, Saved, Choose
  <1>2. /\ row' \in [Fields -> BOOLEAN] /\ chosen' \in [Fields \cup Games -> BOOLEAN]
        /\ overlapped' \subseteq Fields \cup Games
    BY <1>0, <1>1
  <1>3. AccessTypes'
    BY <1>1, <1>2 DEF IInv, AccessTypes
  <1>4. \A f \in Fields : f # save.field => chosen'[f] = chosen[f] /\ (f \in overlapped' <=> f \in overlapped)
    BY <1>0, <1>1
  <1>5. FieldsStand'
    <2>1. ASSUME NEW f \in Fields PROVE FieldStands(f, row[f])'
      <3>1. CASE f = save.field
        BY <1>0, <1>1, <3>1 DEF FieldStands
      <3>2. CASE f # save.field
        <4>1. row'[f] = save.row[f] /\ FieldStands(f, save.row[f])
          BY <1>0, <1>1, <3>2 DEF IInv, FieldsStand
        <4> QED BY <1>4, <3>2, <4>1 DEF FieldStands
      <3> QED BY <3>1, <3>2
    <2>2. ASSUME NEW o \in saves', NEW f \in Fields PROVE f \in overlapped' \/ o.row[f] = chosen'[f]
      <3>1. o \in saves /\ saves # {save}
        BY <1>1
      <3>2. CASE f = save.field
        BY <1>1, <3>1, <3>2
      <3>3. CASE f # save.field
        BY <1>4, <3>1, <3>3 DEF IInv, FieldsStand, FieldStands
      <3> QED BY <3>2, <3>3
    <2> QED BY <2>1, <2>2 DEF FieldsStand, FieldStands
  <1>6. GamesStand'
    <2>1. \A g \in Games : chosen'[g] = chosen[g] /\ (g \in overlapped' <=> g \in overlapped)
      BY <1>0, <1>1, AccessConstants
    <2>2. Followed' = Followed /\ toggles' = toggles /\ Confirming' = Confirming
      BY <1>1, RequestStands DEF Followed
    <2>3. ASSUME NEW g \in Games, NEW follow, GameStands(g, follow)
          PROVE  g \in overlapped' \/ (g \in follow <=> chosen'[g])
      BY <2>1, <2>3 DEF GameStands
    <2> QED BY <2>2, <2>3 DEF IInv, GamesStand, GameStands
  <1> QED BY <1>1, <1>3, <1>5, <1>6, RequestStands

LEMMA NextToggle ==
  ASSUME IInv, NEW toggle \in toggles, SetEnabledGames(toggle)
  PROVE  AccessTypes' /\ FieldsStand' /\ GamesStand' /\ SubjectKnown' /\ RequestInv'
  <1>0. /\ toggle \in Toggles /\ toggle.follow \in SUBSET Games /\ toggle.game \in Games
        /\ toggles \subseteq Toggles /\ games \in [Games -> {"off", "on", "auto"}]
        /\ chosen \in [Fields \cup Games -> BOOLEAN] /\ overlapped \subseteq Fields \cup Games
    BY DEF IInv, AccessTypes, Toggles
  <1>1. /\ UNCHANGED <<row, saves, request, answers>>
        /\ toggles' = {IF o.stage = "cleared" /\ games' # games THEN [o EXCEPT !.late = TRUE] ELSE o :
                       o \in toggles \ {toggle}}
    BY DEF SetEnabledGames
  <1>2. SubjectKnown' /\ RequestInv' /\ request' \in Requests /\ answers' \subseteq Answers
        /\ Confirming' = Confirming
    BY <1>1, RequestStands
  \* Those left in flight want what they wanted.
  <1>3. \A o \in Toggles : /\ [o EXCEPT !.late = TRUE] \in Toggles
                           /\ [o EXCEPT !.late = TRUE].follow = o.follow
                           /\ [o EXCEPT !.late = TRUE].game = o.game
    BY DEF Toggles
  <1>4. ASSUME NEW n \in toggles'
        PROVE  n \in Toggles /\ \E o \in toggles \ {toggle} : n.follow = o.follow /\ n.game = o.game
    <2>1. PICK o \in toggles \ {toggle} :
              n = (IF o.stage = "cleared" /\ games' # games THEN [o EXCEPT !.late = TRUE] ELSE o)
      BY <1>1
    <2> QED BY <1>0, <1>3, <2>1
  <1>5. CASE toggle.late /\ toggle.follow \cap Followed # {}
    <2>1. UNCHANGED <<games, chosen, overlapped>>
      BY <1>5 DEF SetEnabledGames
    <2>2. AccessTypes'
      BY <1>1, <1>2, <1>4, <2>1 DEF IInv, AccessTypes
    <2>3. FieldsStand'
      BY <1>1, <2>1 DEF IInv, FieldsStand, FieldStands
    <2>4. GamesStand'
      <3>1. Followed' = Followed
        BY <2>1 DEF Followed
      <3> QED BY <1>2, <1>4, <2>1, <3>1 DEF IInv, GamesStand, GameStands
    <2> QED BY <1>2, <2>2, <2>3, <2>4
  <1>6. CASE ~(toggle.late /\ toggle.follow \cap Followed # {})
    <2> DEFINE x == toggle.game
               overlaps == toggle.late \/ toggles # {toggle} \/ Confirming # {}
    <2>1. /\ games' = [g \in Games |-> IF g \in toggle.follow THEN "on"
                                       ELSE IF toggle.late THEN games[g] ELSE "off"]
          /\ chosen' = [chosen EXCEPT ![x] = (x \in toggle.follow)]
          /\ overlapped' = IF overlaps THEN overlapped \cup {x} ELSE overlapped \ {x}
      BY <1>6 DEF SetEnabledGames, Replaced, Choose
    <2> HIDE DEF overlaps
    <2>2. /\ games' \in [Games -> {"off", "on", "auto"}] /\ chosen' \in [Fields \cup Games -> BOOLEAN]
          /\ overlapped' \subseteq Fields \cup Games
      BY <1>0, <2>1
    <2>3. AccessTypes'
      BY <1>1, <1>2, <1>4, <2>2 DEF IInv, AccessTypes
    <2>4. \A y \in Fields \cup Games : y # x => chosen'[y] = chosen[y] /\ (y \in overlapped' <=> y \in overlapped)
      BY <1>0, <2>1
    <2>5. FieldsStand'
      <3>1. \A f \in Fields : chosen'[f] = chosen[f] /\ (f \in overlapped' <=> f \in overlapped)
        BY <1>0, <2>4, AccessConstants
      <3> QED BY <1>1, <3>1 DEF IInv, FieldsStand, FieldStands
    <2>6. \A g \in Games : g \in Followed' <=> g \in toggle.follow \/ (toggle.late /\ g \in Followed)
      BY <1>0, <2>1 DEF Followed
    <2>7. overlaps => x \in overlapped'
      BY <2>1
    <2>8. x \in overlapped' \/ (x \in Followed' <=> chosen'[x])
      <3>1. CASE overlaps
        BY <2>7, <3>1
      <3>2. CASE ~overlaps
        BY <1>0, <2>1, <2>6, <3>2 DEF overlaps
      <3> QED BY <3>1, <3>2
    <2>9. ASSUME NEW g \in Games, g # x PROVE g \in overlapped' \/ (g \in Followed' <=> chosen'[g])
      <3>1. GameStands(g, Followed) /\ GameStands(g, toggle.follow)
        BY <2>9 DEF IInv, GamesStand
      <3> QED BY <2>4, <2>6, <2>9, <3>1 DEF GameStands
    <2>10. ASSUME NEW n \in toggles', NEW g \in Games, g # n.game
           PROVE  g \in overlapped' \/ (g \in n.follow <=> chosen'[g])
      <3>1. PICK o \in toggles \ {toggle} : n.follow = o.follow /\ n.game = o.game
        BY <1>4
      <3>2. overlaps
        BY <3>1 DEF overlaps
      <3>3. GameStands(g, o.follow)
        BY <2>10, <3>1 DEF IInv, GamesStand
      <3> QED BY <2>4, <2>7, <3>1, <3>2, <3>3 DEF GameStands
    <2>11. ASSUME NEW a \in Confirming', NEW g \in Games
           PROVE  g \in overlapped' \/ (g \in a.follow <=> chosen'[g])
      <3>1. a \in Confirming /\ overlaps
        BY <1>2 DEF overlaps
      <3>2. GameStands(g, a.follow)
        BY <3>1 DEF IInv, GamesStand
      <3> QED BY <2>4, <2>7, <3>1, <3>2 DEF GameStands
    <2>12. GamesStand'
      BY <2>8, <2>9, <2>10, <2>11 DEF GamesStand, GameStands
    <2> QED BY <1>2, <2>3, <2>5, <2>12
  <1> QED BY <1>5, <1>6

\* A replacement that joins those in flight has read games that stand.
LEMMA NewToggle ==
  ASSUME IInv, NEW p \in People, NEW g \in Games, NEW follow \in SUBSET Games, NEW approved \in BOOLEAN,
         BeginToggle(p, g, follow, approved),
         \A o \in Games \ {g} : GameStands(o, follow)
  PROVE  /\ toggles' \subseteq Toggles
         /\ \A toggle \in toggles', o \in Games : o # toggle.game => GameStands(o, toggle.follow)
  <1> DEFINE new == [follow |-> follow, game |-> g, stage |-> "read", late |-> FALSE,
                     by |-> p, approved |-> approved]
  <1>1. toggles' = toggles \cup {new}
    BY DEF BeginToggle
  <1>2. new \in Toggles /\ new.follow = follow /\ new.game = g
    BY DEF Toggles
  <1> HIDE DEF new
  <1> QED BY <1>1, <1>2 DEF IInv, AccessTypes, GamesStand

\* The requests and the taps on them.
RequestStep ==
    \/ \E p \in People, subject \in Subjects : RequestRemoval(p, subject)
    \/ \E p \in People, kind \in {"confirm", "reject"} : ReadRequest(p, kind)
    \/ RequestExpires
    \/ \E answer \in answers : ConfirmRemoval(answer) \/ Resolve(answer)

\* A tap has read the games as they stand, and so has the replacement it starts.
LEMMA NextTaps ==
  ASSUME IInv, RequestStep
  PROVE  toggles' \subseteq Toggles /\ GamesStand' /\ SubjectKnown'
  <1>0. /\ request \in Requests /\ answers \subseteq Answers /\ toggles \subseteq Toggles
        /\ SubjectKnown /\ GamesStand
    BY DEF IInv, AccessTypes
  <1>t. \A toggle \in toggles, o \in Games : o # toggle.game => GameStands(o, toggle.follow)
    BY <1>0 DEF GamesStand
  <1>g. ASSUME UNCHANGED <<games, chosen, overlapped>>,
               \A toggle \in toggles', o \in Games : o # toggle.game => GameStands(o, toggle.follow),
               \A a \in Confirming' : a \in Confirming \/ a.follow = Followed
        PROVE  GamesStand'
    <2>1. Followed' = Followed
      BY <1>g DEF Followed
    <2>2. \A g \in Games : GameStands(g, Followed)
      BY <1>0 DEF GamesStand
    <2>3. \A a \in Confirming', g \in Games : GameStands(g, a.follow)
      BY <1>0, <1>g, <2>2 DEF GamesStand
    <2> QED BY <1>g, <2>1, <2>2, <2>3 DEF GamesStand, GameStands
  <1>1. ASSUME NEW p \in People, NEW subject \in Subjects, RequestRemoval(p, subject)
        PROVE  toggles' \subseteq Toggles /\ GamesStand' /\ SubjectKnown'
    <2>1. /\ request'.subject \in Subjects /\ answers' = {}
          /\ UNCHANGED <<toggles, games, chosen, overlapped>>
      BY <1>1 DEF RequestRemoval, Requested
    <2>2. Confirming' = {}
      BY <2>1 DEF Confirming
    <2> QED BY <1>0, <1>g, <1>t, <2>1, <2>2 DEF SubjectKnown
  <1>2. ASSUME NEW p \in People, NEW kind \in {"confirm", "reject"}, ReadRequest(p, kind)
        PROVE  toggles' \subseteq Toggles /\ GamesStand' /\ SubjectKnown'
    <2> DEFINE new == [by |-> p, kind |-> kind, stage |-> "read", follow |-> Followed]
    <2>1. /\ request.status = "open" /\ answers' = answers \cup {new}
          /\ request' = [request EXCEPT !.excused = @ \/ answers # {}]
          /\ UNCHANGED <<toggles, games, chosen, overlapped>>
      BY <1>2 DEF ReadRequest, Answerable
    <2>2. new.follow = Followed
      OBVIOUS
    <2> HIDE DEF new
    <2>3. request'.subject = request.subject
      BY <1>0, <2>1 DEF Requests
    <2>4. \A a \in Confirming' : a \in Confirming \/ a.follow = Followed
      BY <2>1, <2>2, <2>3 DEF Confirming
    <2> QED BY <1>0, <1>g, <1>t, <2>1, <2>3, <2>4 DEF SubjectKnown
  <1>3. CASE RequestExpires
    <2>1. /\ request.status = "open" /\ answers' = answers /\ request' = [request EXCEPT !.status = "expired"]
          /\ UNCHANGED <<toggles, games, chosen, overlapped>>
      BY <1>3 DEF RequestExpires
    <2>2. request'.subject = request.subject
      BY <1>0, <2>1 DEF Requests
    <2>3. Confirming' = Confirming
      BY <2>1, <2>2 DEF Confirming
    <2> QED BY <1>0, <1>g, <1>t, <2>1, <2>2, <2>3 DEF SubjectKnown
  <1>4. ASSUME NEW a \in answers, ConfirmRemoval(a)
        PROVE  toggles' \subseteq Toggles /\ GamesStand' /\ SubjectKnown'
    <2> DEFINE acted == [a EXCEPT !.stage = "acted"]
    <2>1. /\ a.kind = "confirm" /\ a.stage = "read" /\ a \in Answers
          /\ IF request.subject = "tournament" THEN toggles' = toggles
             ELSE BeginToggle(a.by, request.subject, a.follow \ {request.subject}, TRUE)
          /\ request' = [request EXCEPT !.removedBy = a.by, !.removals = @ + 1]
          /\ answers' = (answers \ {a}) \cup {acted}
          /\ UNCHANGED <<games, chosen, overlapped>>
      BY <1>0, <1>4 DEF ConfirmRemoval
    <2>2. /\ request.subject \in Subjects /\ request'.subject = request.subject
          /\ acted.stage = "acted" /\ a.by \in People /\ a.follow \in SUBSET Games
      BY <1>0, <2>1 DEF SubjectKnown, Requests, Answers
    <2> HIDE DEF acted
    <2>3. \A o \in Confirming' : o \in Confirming
      BY <2>1, <2>2 DEF Confirming
    <2>4. /\ toggles' \subseteq Toggles
          /\ \A toggle \in toggles', o \in Games : o # toggle.game => GameStands(o, toggle.follow)
      <3>1. CASE request.subject = "tournament"
        BY <1>0, <1>t, <2>1, <3>1
      <3>2. CASE request.subject # "tournament"
        <4> DEFINE g == request.subject
        <4>1. g \in Games /\ BeginToggle(a.by, g, a.follow \ {g}, TRUE) /\ a \in Confirming
          BY <2>1, <2>2, <3>2 DEF Subjects, Confirming
        <4> HIDE DEF g
        <4>2. \A o \in Games \ {g} : GameStands(o, a.follow \ {g})
          BY <1>0, <4>1 DEF GamesStand, GameStands
        <4>3. a.follow \ {g} \in SUBSET Games /\ TRUE \in BOOLEAN
          BY <2>2
        <4> QED BY <2>2, <4>1, <4>2, <4>3, NewToggle
      <3> QED BY <3>1, <3>2
    <2>5. SubjectKnown'
      BY <2>2 DEF SubjectKnown
    <2> QED BY <1>g, <2>1, <2>3, <2>4, <2>5
  <1>5. ASSUME NEW a \in answers, Resolve(a)
        PROVE  toggles' \subseteq Toggles /\ GamesStand' /\ SubjectKnown'
    <2>1. /\ answers' = answers \ {a} /\ UNCHANGED <<toggles, games, chosen, overlapped>>
          /\ \/ request' = [request EXCEPT !.status = "resolved", !.rejected = @ \/ a.kind = "reject"]
             \/ request' = [request EXCEPT !.excused = TRUE]
      BY <1>5 DEF Resolve
    <2>2. request'.subject = request.subject /\ request.subject \in Subjects
      BY <1>0, <2>1 DEF Requests, SubjectKnown
    <2>3. \A o \in Confirming' : o \in Confirming
      BY <2>1, <2>2 DEF Confirming
    <2> QED BY <1>0, <1>g, <1>t, <2>1, <2>2, <2>3 DEF SubjectKnown
  <1> QED BY <1>1, <1>2, <1>3, <1>4, <1>5 DEF RequestStep

LEMMA NextRequest ==
  ASSUME IInv, RequestStep
  PROVE  request' \in Requests /\ answers' \subseteq Answers /\ RequestInv'
  <1>0. /\ request \in Requests /\ answers \subseteq Answers /\ ConfirmedByAnother
        /\ (request.excused \/ OneAtATime) /\ NoOne \notin People
    BY RolesConstants DEF IInv, AccessTypes, RequestInv
  <1>1. ASSUME NEW p \in People, NEW subject \in Subjects, RequestRemoval(p, subject)
        PROVE  request' \in Requests /\ answers' \subseteq Answers /\ RequestInv'
    <2>1. request' = Requested(p, subject) /\ answers = {} /\ answers' = {}
      BY <1>1 DEF RequestRemoval
    <2>2. OtherManagers(p) \cap reachable \in SUBSET People
      BY DEF OtherManagers
    <2>3. request' \in Requests
      BY <2>1, <2>2 DEF Requested, Requests
    <2>4. /\ request'.removals = 0 /\ request'.rejected = FALSE /\ request'.removedBy = NoOne
          /\ request'.self = (request'.asked = {})
      BY <2>1 DEF Requested
    <2>5. ConfirmedByAnother'
      BY <2>1, <2>4 DEF ConfirmedByAnother
    <2>6. OneAtATime'
      BY <2>1, <2>4 DEF OneAtATime, Untouched
    <2>7. answers' \subseteq Answers
      BY <2>1
    <2> QED BY <2>3, <2>5, <2>6, <2>7 DEF RequestInv
  <1>2. ASSUME NEW p \in People, NEW kind \in {"confirm", "reject"}, ReadRequest(p, kind)
        PROVE  request' \in Requests /\ answers' \subseteq Answers /\ RequestInv'
    <2> DEFINE new == [by |-> p, kind |-> kind, stage |-> "read", follow |-> Followed]
    <2>1. /\ request.status = "open" /\ (kind = "confirm" => request.self \/ p # request.by)
          /\ answers' = answers \cup {new}
          /\ request' = [request EXCEPT !.excused = @ \/ answers # {}]
      BY <1>2 DEF ReadRequest, Answerable, MayConfirm
    <2>2. new \in Answers /\ new.by = p /\ new.kind = kind /\ new.stage = "read"
      BY DEF Answers, Followed
    <2> HIDE DEF new
    <2>3. /\ request' \in Requests /\ request'.excused = (request.excused \/ answers # {})
          /\ request'.self = request.self /\ request'.asked = request.asked /\ request'.by = request.by
          /\ request'.removedBy = request.removedBy /\ request'.removals = request.removals
          /\ request'.rejected = request.rejected /\ request'.status = request.status
      BY <1>0, <2>1 DEF Requests
    <2>4. ConfirmedByAnother'
      BY <1>0, <2>1, <2>2, <2>3 DEF ConfirmedByAnother
    <2>5. request'.excused \/ OneAtATime'
      BY <1>0, <2>1, <2>2, <2>3 DEF OneAtATime, Untouched
    <2> QED BY <1>0, <2>1, <2>2, <2>3, <2>4, <2>5 DEF RequestInv
  <1>3. CASE RequestExpires
    <2>1. answers' = answers /\ request' = [request EXCEPT !.status = "expired"] /\ request.status = "open"
      BY <1>3 DEF RequestExpires
    <2>2. /\ request' \in Requests /\ request'.excused = request.excused
          /\ request'.self = request.self /\ request'.asked = request.asked /\ request'.by = request.by
          /\ request'.removedBy = request.removedBy /\ request'.removals = request.removals
          /\ request'.rejected = request.rejected
      BY <1>0, <2>1 DEF Requests
    <2> QED BY <1>0, <2>1, <2>2 DEF RequestInv, ConfirmedByAnother, OneAtATime, Untouched
  <1>4. ASSUME NEW a \in answers, ConfirmRemoval(a)
        PROVE  request' \in Requests /\ answers' \subseteq Answers /\ RequestInv'
    <2> DEFINE acted == [a EXCEPT !.stage = "acted"]
    <2>1. /\ a.kind = "confirm" /\ a.stage = "read"
          /\ request' = [request EXCEPT !.removedBy = a.by, !.removals = @ + 1]
          /\ answers' = (answers \ {a}) \cup {acted}
      BY <1>4 DEF ConfirmRemoval
    <2>2. a \in Answers
      BY <1>0
    <2>3. acted \in Answers /\ acted.by = a.by /\ acted.kind = a.kind /\ acted.stage = "acted" /\ a.by \in People
      BY <2>2 DEF Answers
    <2> HIDE DEF acted
    <2>4. /\ request' \in Requests /\ request'.excused = request.excused
          /\ request'.self = request.self /\ request'.asked = request.asked /\ request'.by = request.by
          /\ request'.removedBy = a.by /\ request'.removals = request.removals + 1
          /\ request'.rejected = request.rejected /\ request'.status = request.status
      <3>1. request.removals \in Nat
        BY <1>0 DEF Requests
      <3>2. request.removals + 1 \in Nat
        BY <3>1
      <3> DEFINE count == request.removals + 1
      <3>3. request' = [request EXCEPT !.removedBy = a.by, !.removals = count] /\ count \in Nat
        BY <2>1, <3>2
      <3> HIDE DEF count
      <3>4. /\ request' \in Requests /\ request'.excused = request.excused
            /\ request'.self = request.self /\ request'.asked = request.asked /\ request'.by = request.by
            /\ request'.removedBy = a.by /\ request'.removals = count
            /\ request'.rejected = request.rejected /\ request'.status = request.status
        BY <1>0, <2>3, <3>3 DEF Requests
      <3> QED BY <3>4 DEF count
    <2>5. ConfirmedByAnother'
      BY <1>0, <2>1, <2>3, <2>4 DEF ConfirmedByAnother
    <2>6. CASE OneAtATime
      <3>1. request.removals = 0 /\ ~request.rejected /\ answers' = {acted}
        BY <2>1, <2>6 DEF OneAtATime, Untouched
      <3>2. OneAtATime'
        BY <2>1, <2>3, <2>4, <3>1 DEF OneAtATime, Untouched
      <3> QED BY <1>0, <2>1, <2>3, <2>4, <2>5, <3>2 DEF RequestInv
    <2>7. CASE request.excused
      BY <1>0, <2>1, <2>3, <2>4, <2>5, <2>7 DEF RequestInv
    <2> QED BY <1>0, <2>6, <2>7
  <1>5. ASSUME NEW a \in answers, Resolve(a)
        PROVE  request' \in Requests /\ answers' \subseteq Answers /\ RequestInv'
    <2>1. /\ a.stage = "acted" \/ a.kind = "reject"
          /\ answers' = answers \ {a}
          /\ \/ request' = [request EXCEPT !.status = "resolved", !.rejected = @ \/ a.kind = "reject"]
             \/ request' = [request EXCEPT !.excused = TRUE]
      BY <1>5 DEF Resolve
    <2>2. a \in Answers
      BY <1>0
    <2>3. CASE request' = [request EXCEPT !.excused = TRUE]
      <3>1. /\ request' \in Requests /\ request'.excused
            /\ request'.self = request.self /\ request'.asked = request.asked /\ request'.by = request.by
            /\ request'.removedBy = request.removedBy
        BY <1>0, <2>3 DEF Requests
      <3> QED BY <1>0, <2>1, <3>1 DEF RequestInv, ConfirmedByAnother
    <2>4. CASE request' = [request EXCEPT !.status = "resolved", !.rejected = @ \/ a.kind = "reject"]
      <3>1. /\ request' \in Requests /\ request'.excused = request.excused
            /\ request'.self = request.self /\ request'.asked = request.asked /\ request'.by = request.by
            /\ request'.removedBy = request.removedBy /\ request'.removals = request.removals
            /\ request'.rejected = (request.rejected \/ a.kind = "reject") /\ request'.status = "resolved"
        BY <1>0, <2>4 DEF Requests
      <3>2. ConfirmedByAnother'
        BY <1>0, <2>1, <3>1 DEF ConfirmedByAnother
      <3>3. CASE OneAtATime
        <4>1. answers' = {}
          BY <2>1, <3>3 DEF OneAtATime
        <4>2. a.stage \in {"read", "acted"}
          BY <2>2 DEF Answers
        <4>3. CASE a.kind = "reject"
          <5>1. a.stage = "read" /\ request.removals = 0
            BY <3>3, <4>2, <4>3 DEF OneAtATime, Untouched
          <5> QED BY <1>0, <3>1, <3>2, <4>1, <5>1 DEF RequestInv, OneAtATime
        <4>4. CASE a.kind # "reject"
          <5>1. request.removals = 1 /\ ~request.rejected
            BY <2>1, <3>3, <4>4 DEF OneAtATime
          <5> QED BY <1>0, <3>1, <3>2, <4>1, <4>4, <5>1 DEF RequestInv, OneAtATime
        <4> QED BY <4>3, <4>4
      <3>4. CASE request.excused
        BY <1>0, <2>1, <3>1, <3>2, <3>4 DEF RequestInv
      <3> QED BY <1>0, <3>3, <3>4
    <2> QED BY <2>1, <2>3, <2>4
  <1> QED BY <1>1, <1>2, <1>3, <1>4, <1>5 DEF RequestStep

LEMMA NextIInv == IInv /\ [Next]_vars => IInv'
  <1> SUFFICES ASSUME IInv, [Next]_vars PROVE IInv'
    OBVIOUS
  <1> USE DEF settingsVars
  <1>0. /\ RolesInv /\ GivenInv /\ AccessTypes /\ FieldsStand /\ GamesStand /\ SubjectKnown /\ RequestInv
    BY DEF IInv
  <1>r. RolesNext \/ UNCHANGED rolesVars => RolesInv' /\ GivenInv'
    BY <1>0, NextRolesInv, NextGivenInv
  <1>q. AccessTypes' /\ FieldsStand' /\ GamesStand' /\ SubjectKnown' /\ RequestInv' /\ RolesInv' /\ GivenInv' => IInv'
    BY DEF IInv
  <1>a. UNCHANGED rolesVars /\ UNCHANGED handlerVars => IInv'
    BY <1>q, <1>r, AccessStands
  <1>1. CASE Roles
    <2>1. UNCHANGED handlerVars
      BY <1>1 DEF Roles, handlerVars
    <2> QED BY <1>1, <1>q, <1>r, <2>1, AccessStands DEF Roles
  <1>2. CASE UNCHANGED vars
    BY <1>2, <1>a DEF vars, handlerVars
  \* Only a save joins those in flight.
  <1>3. ASSUME NEW field \in Fields, NEW value \in BOOLEAN, ReadForSave(field, value) PROVE IInv'
    <2> DEFINE new == [row |-> row, field |-> field, value |-> value]
    <2>1. /\ saves' = saves \cup {new}
          /\ UNCHANGED <<rolesVars, row, chosen, overlapped, games, toggles, request, answers>>
      BY <1>3 DEF ReadForSave
    <2>2. new \in Settings /\ new.row = row
      BY <1>0 DEF AccessTypes, Settings
    <2> HIDE DEF new
    <2>3. AccessTypes'
      BY <1>0, <2>1, <2>2 DEF AccessTypes
    <2>4. FieldsStand'
      BY <1>0, <2>1, <2>2 DEF FieldsStand, FieldStands
    <2>5. GamesStand'
      BY <1>0, <2>1 DEF GamesStand, GameStands, Followed, Confirming
    <2> QED BY <1>q, <1>r, <2>1, <2>3, <2>4, <2>5, RequestStands
  <1>4. ASSUME NEW p \in People, NEW field \in Fields, ChangeSetting(p, field) PROVE IInv'
    <2>1. (~row[field]) \in BOOLEAN
      OBVIOUS
    <2> QED BY <1>3, <1>4, <2>1 DEF ChangeSetting
  <1>5. CASE HandleMessage \/ \E member \in BOOLEAN : HandleMyChatMember(member)
    BY <1>3, <1>5, AccessConstants DEF HandleMessage, HandleMyChatMember
  <1>6. ASSUME NEW save \in saves, Save(save) PROVE IInv'
    BY <1>6, <1>q, <1>r, NextSettings DEF Save
  \* Only a replacement of the games joins those in flight.
  <1>7. ASSUME NEW p \in People, NEW g \in Games, NEW on \in BOOLEAN, EnableGame(p, g) \/ PatchGame(p, g, on)
        PROVE  IInv'
    <2>1. PICK follow \in {Followed \cup {g}, Followed \ {g}} : BeginToggle(p, g, follow, FALSE)
      BY <1>7 DEF EnableGame, PatchGame
    <2>2. follow \in SUBSET Games /\ \A o \in Games \ {g} : GameStands(o, follow)
      <3>1. Followed \subseteq Games
        BY DEF Followed
      <3>2. \A o \in Games \ {g} : GameStands(o, Followed) /\ (o \in follow <=> o \in Followed)
        BY <1>0, <2>1 DEF GamesStand
      <3> QED BY <2>1, <3>1, <3>2 DEF GameStands
    <2>3. UNCHANGED <<rolesVars, row, chosen, overlapped, saves, games, request, answers>>
      BY <1>7 DEF EnableGame, PatchGame
    <2>4. /\ toggles' \subseteq Toggles
          /\ \A toggle \in toggles', o \in Games : o # toggle.game => GameStands(o, toggle.follow)
      BY <2>1, <2>2, NewToggle
    <2>5. AccessTypes'
      BY <1>0, <2>3, <2>4 DEF AccessTypes
    <2>6. FieldsStand'
      BY <1>0, <2>3 DEF FieldsStand, FieldStands
    <2>7. GamesStand'
      BY <1>0, <2>3, <2>4 DEF GamesStand, GameStands, Followed, Confirming
    <2> QED BY <1>q, <1>r, <2>3, <2>5, <2>6, <2>7, RequestStands
  <1>8. ASSUME NEW p \in People, NEW g \in Games, SetAutoSubscribeGame(p, g) PROVE IInv'
    <2>1. /\ games[g] # "off" /\ games' = [games EXCEPT ![g] = IF @ = "on" THEN "auto" ELSE "on"]
          /\ UNCHANGED <<rolesVars, row, chosen, overlapped, saves, toggles, request, answers>>
      BY <1>8 DEF SetAutoSubscribeGame
    <2>2. games' \in [Games -> {"off", "on", "auto"}] /\ Followed' = Followed
      BY <1>0, <2>1 DEF AccessTypes, Followed
    <2>3. AccessTypes'
      BY <1>0, <2>1, <2>2 DEF AccessTypes
    <2>4. FieldsStand'
      BY <1>0, <2>1 DEF FieldsStand, FieldStands
    <2>5. GamesStand'
      BY <1>0, <2>1, <2>2 DEF GamesStand, GameStands, Confirming
    <2> QED BY <1>q, <1>r, <2>1, <2>3, <2>4, <2>5, RequestStands
  <1>9. ASSUME NEW p \in People, Subscribe(p) PROVE IInv'
    BY <1>9, <1>a DEF Subscribe, handlerVars
  <1>10. ASSUME NEW toggle \in toggles, ClearGames(toggle) PROVE IInv'
    <2> DEFINE cleared == [toggle EXCEPT !.stage = "cleared"]
    <2>1. /\ toggles' = (toggles \ {toggle}) \cup {cleared}
          /\ UNCHANGED <<rolesVars, row, chosen, overlapped, saves, games, request, answers>>
      BY <1>10 DEF ClearGames
    <2>2. cleared \in Toggles /\ cleared.follow = toggle.follow /\ cleared.game = toggle.game
      <3>1. toggle \in Toggles
        BY <1>0 DEF AccessTypes
      <3> QED BY <3>1 DEF Toggles
    <2> HIDE DEF cleared
    <2>3. AccessTypes'
      BY <1>0, <2>1, <2>2 DEF AccessTypes
    <2>4. FieldsStand'
      BY <1>0, <2>1 DEF FieldsStand, FieldStands
    <2>5. GamesStand'
      BY <1>0, <2>1, <2>2 DEF GamesStand, GameStands, Followed, Confirming
    <2> QED BY <1>q, <1>r, <2>1, <2>3, <2>4, <2>5, RequestStands
  <1>11. ASSUME NEW toggle \in toggles, SetEnabledGames(toggle) PROVE IInv'
    BY <1>11, <1>q, <1>r, NextToggle DEF SetEnabledGames
  <1>12. ASSUME RequestStep PROVE IInv'
    <2>1. UNCHANGED <<rolesVars, row, chosen, overlapped, saves, games>>
      BY <1>12 DEF RequestStep, RequestRemoval, ReadRequest, RequestExpires, ConfirmRemoval, Resolve
    <2>2. request' \in Requests /\ answers' \subseteq Answers /\ RequestInv'
      BY <1>12, NextRequest
    <2>3. toggles' \subseteq Toggles /\ GamesStand' /\ SubjectKnown'
      BY <1>12, NextTaps
    <2>4. AccessTypes'
      BY <1>0, <2>1, <2>2, <2>3 DEF AccessTypes
    <2>5. FieldsStand'
      BY <1>0, <2>1 DEF FieldsStand, FieldStands
    <2> QED BY <1>q, <1>r, <2>1, <2>2, <2>3, <2>4, <2>5
  <1> QED
    BY <1>1, <1>2, <1>4, <1>5, <1>6, <1>7, <1>8, <1>9, <1>10, <1>11, <1>12 DEF Next, RequestStep

-----------------------------------------------------------------------------
(* Types. How often a request was carried out is bounded by the taps on it.    *)

\* Only what the wizard offers is ever invited to.
GrantsKnown == \A t \in Tokens : invites[t].status # "none" => invites[t].perms \in Grants

Reading == {a \in answers : a.stage = "read"}

\* Every removal, done or still to be done, is one of the handlers started.
TapsAddUp ==
    /\ IsFiniteSet(answers)
    /\ request.removals + Cardinality(Reading) <= started

TypesInv == TypeOK /\ GrantsKnown /\ TapsAddUp

LEMMA InitTypesInv == Init => TypesInv
  <1> SUFFICES ASSUME Init PROVE TypesInv
    OBVIOUS
  <1>1. /\ NoInvite \in [perms : SUBSET Permissions, usedBy : People \cup {NoOne},
                         status : {"none", "open", "expired", "used", "revoked"}]
        /\ NoInvite.status = "none"
    BY DEF NoInvite
  <1>2. RolesTypeOK
    BY <1>1, RolesConstants DEF Init, RolesInit, RolesTypeOK
  <1>3. request \in [subject : Subjects \cup {"none"}, by : People \cup {NoOne}, asked : SUBSET People,
                     self : BOOLEAN, status : {"none", "open", "expired", "resolved"},
                     removedBy : People \cup {NoOne}, removals : 0 .. MaxTasks, rejected : BOOLEAN,
                     excused : BOOLEAN]
    BY RolesConstants DEF Init, NoRequest
  <1>4. TypeOK
    <2>1. AccessTypes
      BY InitIInv DEF IInv
    <2>2. reachable \subseteq People /\ requests \in 0 .. MaxRequests
      BY AccessConstants DEF Init
    <2> QED BY <1>2, <1>3, <2>1, <2>2 DEF Init, TypeOK, AccessTypes, Settings, Toggles
  <1>5. GrantsKnown
    BY <1>1 DEF Init, RolesInit, GrantsKnown
  <1>6. TapsAddUp
    <2>1. Reading = {} /\ request.removals = 0 /\ started = 0
      BY DEF Init, RolesInit, NoRequest, Reading
    <2>2. IsFiniteSet(answers) /\ Cardinality({}) = 0
      BY FS_EmptySet DEF Init
    <2> QED BY <2>1, <2>2 DEF TapsAddUp
  <1> QED BY <1>4, <1>5, <1>6 DEF TypesInv

\* An invitation as RolesTypeOK has it, and what the changes of it come to.
Invite == [perms : SUBSET Permissions, usedBy : People \cup {NoOne},
           status : {"none", "open", "expired", "used", "revoked"}]

LEMMA InviteIs ==
  \A r \in Invite : r = [perms |-> r.perms, status |-> r.status, usedBy |-> r.usedBy]
  BY DEF Invite

LEMMA NewStatus ==
  ASSUME NEW o \in Invite, NEW s \in {"expired", "used", "revoked"}
  PROVE  [o EXCEPT !.status = s] = [perms |-> o.perms, status |-> s, usedBy |-> o.usedBy]
  <1> DEFINE new == [o EXCEPT !.status = s]
  <1>1. new \in Invite /\ new.perms = o.perms /\ new.status = s /\ new.usedBy = o.usedBy
    BY DEF Invite
  <1> HIDE DEF new
  <1>2. new = [perms |-> o.perms, status |-> s, usedBy |-> o.usedBy]
    BY <1>1, InviteIs
  <1> QED BY <1>2 DEF new

LEMMA NewUser ==
  ASSUME NEW o \in Invite, NEW u \in People
  PROVE  [o EXCEPT !.usedBy = u] = [perms |-> o.perms, status |-> o.status, usedBy |-> u]
  <1> DEFINE new == [o EXCEPT !.usedBy = u]
  <1>1. new \in Invite /\ new.perms = o.perms /\ new.status = o.status /\ new.usedBy = u
    BY DEF Invite
  <1> HIDE DEF new
  <1>2. new = [perms |-> o.perms, status |-> o.status, usedBy |-> u]
    BY <1>1, InviteIs
  <1> QED BY <1>2 DEF new

LEMMA NextRolesTypes ==
  ASSUME RolesTypeOK, GrantsKnown, RolesTypes, RolesNext, given' \in [People -> SUBSET Permissions]
  PROVE  RolesTypeOK' /\ GrantsKnown' /\ started' \in Nat /\ started <= started'
  <1> DEFINE Good == RolesTypeOK' /\ GrantsKnown' /\ started' \in Nat /\ started <= started'
             Rest == UNCHANGED <<members, moderators, perms, appointed, access, asking, faults>>
  <1>a. started \in Nat /\ (Start => started' \in 0 .. MaxTasks /\ started <= started')
    BY RolesConstants DEF RolesTypeOK, Start
  <1>b. ASSUME appointing' \subseteq Appointment, started' = started \/ Start,
               UNCHANGED <<members, perms, invites, access, asking>>,
               moderators' \subseteq People, appointed' \in [Tokens -> SUBSET People],
               faults' \in 0 .. MaxFaults
        PROVE  Good
    BY <1>a, <1>b DEF RolesTypeOK, GrantsKnown
  <1>c. ASSUME NEW task \in appointing, NEW s \in {"read", "claimed", "row", "cleared"}, Becomes(task, s)
        PROVE  appointing' \subseteq Appointment
    <2>1. [task EXCEPT !.stage = s] \in Appointment
      BY DEF RolesTypeOK, Appointment
    <2> QED BY <1>c, <2>1 DEF RolesTypeOK, Becomes
  <1>1. ASSUME NEW admin \in Admins, NEW p \in People, NEW grant \in Grants,
               AssignNew(admin, p, grant) \/ EditPermissions(admin, p, grant)
        PROVE  Good
    <2> DEFINE new(s) == [who |-> p, perms |-> grant, token |-> NoOne, stage |-> s, late |-> FALSE]
    <2>1. PICK s \in {"claimed", "row"} : appointing' = appointing \cup {new(s)}
      BY <1>1 DEF AssignNew, EditPermissions, Appoint
    <2>2. new(s) \in Appointment
      BY DEF Appointment
    <2> HIDE DEF new
    <2> QED BY <1>1, <1>b, <2>1, <2>2 DEF AssignNew, EditPermissions, RolesTypeOK
  <1>2. ASSUME NEW t \in Tokens, NEW p \in People, AcceptInvitation(p, t) PROVE Good
    <2> DEFINE new == [who |-> p, perms |-> invites[t].perms, token |-> t, stage |-> "read", late |-> FALSE]
    <2>1. invites[t].perms \in Grants
      BY <1>2 DEF AcceptInvitation, GrantsKnown
    <2>2. new \in Appointment
      BY <2>1 DEF Appointment
    <2>3. appointing' = appointing \cup {new}
      BY <1>2 DEF AcceptInvitation, Appoint
    <2> HIDE DEF new
    <2> QED BY <1>2, <1>b, <2>2, <2>3 DEF AcceptInvitation, RolesTypeOK
  \* The invitations.
  <1>d. ASSUME NEW t \in Tokens, NEW status \in {"open", "expired", "used", "revoked"},
               NEW usedBy \in People \cup {NoOne}, NEW grant \in Grants,
               invites' = [invites EXCEPT ![t] = [perms |-> grant, status |-> status, usedBy |-> usedBy]],
               appointing' \subseteq Appointment,
               UNCHANGED <<members, moderators, perms, appointed, access, asking, started, faults>>
        PROVE  Good
    <2> DEFINE new == [perms |-> grant, status |-> status, usedBy |-> usedBy]
    <2>1. new \in Invite /\ new.perms = grant
      BY RolesConstants DEF Invite
    <2> HIDE DEF new
    <2>2. invites' = [invites EXCEPT ![t] = new] /\ invites \in [Tokens -> Invite]
      BY <1>d DEF new, RolesTypeOK, Invite
    <2>3. invites' \in [Tokens -> Invite] /\ invites'[t] = new /\ \A o \in Tokens \ {t} : invites'[o] = invites[o]
      BY <2>1, <2>2
    <2>4. GrantsKnown'
      BY <2>1, <2>3 DEF GrantsKnown
    <2>5. RolesTypeOK'
      BY <1>d, <2>3 DEF RolesTypeOK, Invite
    <2> QED BY <1>a, <1>d, <2>4, <2>5
  <1>e. ASSUME NEW t \in Tokens, invites[t].status # "none"
        PROVE  /\ invites[t].perms \in Grants /\ invites[t].usedBy \in People \cup {NoOne}
               /\ invites[t] \in Invite
    BY <1>e DEF GrantsKnown, RolesTypeOK, Invite
  <1>3. ASSUME NEW admin \in Admins, NEW t \in Tokens, NEW grant \in Grants, CreateInvitation(admin, t, grant)
        PROVE  Good
    BY <1>3, <1>d DEF CreateInvitation, RolesTypeOK
  <1>4. ASSUME NEW t \in Tokens, InvitationExpires(t) \/ \E admin \in Admins : RevokeInvitation(admin, t)
        PROVE  Good
    <2>1. PICK s \in {"expired", "revoked"} : invites' = [invites EXCEPT ![t].status = s]
      BY <1>4 DEF InvitationExpires, RevokeInvitation
    <2>2. invites[t].status # "none" /\ appointing' = appointing
          /\ UNCHANGED <<members, moderators, perms, appointed, access, asking, started, faults>>
      BY <1>4 DEF InvitationExpires, RevokeInvitation
    <2>3. [invites[t] EXCEPT !.status = s] =
              [perms |-> invites[t].perms, status |-> s, usedBy |-> invites[t].usedBy]
      BY <1>e, <2>2, NewStatus
    <2>4. invites' = [invites EXCEPT ![t] = [perms |-> invites[t].perms, status |-> s, usedBy |-> invites[t].usedBy]]
      BY <2>1, <2>3
    <2> QED BY <1>d, <1>e, <2>2, <2>4 DEF RolesTypeOK
  <1>5. ASSUME NEW task \in appointing, UseInvitation(task) PROVE Good
    <2>1. task.stage = "read" /\ task.token \in Tokens /\ task.who \in People
      BY <1>5 DEF UseInvitation, RolesTypes, Tasks
    <2>2. UNCHANGED <<members, moderators, perms, appointed, access, asking, started, faults>>
      BY <1>5 DEF UseInvitation
    <2>3. CASE ~Claimable(task.token)
      BY <1>5, <1>b, <2>2, <2>3 DEF UseInvitation, RolesTypeOK
    <2>4. CASE Claimable(task.token)
      <3> DEFINE t == task.token
                 old == invites[t]
      <3>1. invites' = [invites EXCEPT ![t].status = "used", ![t].usedBy = task.who] /\ Becomes(task, "claimed")
        BY <1>5, <2>4 DEF UseInvitation
      <3>2. old.status # "none"
        BY <2>4 DEF Claimable
      <3>3. appointing' \subseteq Appointment
        BY <1>c, <3>1
      <3>4. /\ old.perms \in Grants
            /\ old \in Invite
        BY <1>e, <2>1, <3>2
      <3>5. [[old EXCEPT !.status = "used"] EXCEPT !.usedBy = task.who]
              = [perms |-> old.perms, status |-> "used", usedBy |-> task.who]
        <4> DEFINE used == [old EXCEPT !.status = "used"]
        <4>1. used \in Invite /\ used.perms = old.perms /\ used.status = "used"
          BY <3>4 DEF Invite
        <4> HIDE DEF used
        <4>2. [used EXCEPT !.usedBy = task.who] = [perms |-> old.perms, status |-> "used", usedBy |-> task.who]
          BY <2>1, <4>1, NewUser
        <4> QED BY <4>2 DEF used
      <3>6. invites' = [invites EXCEPT ![t] = [[old EXCEPT !.status = "used"] EXCEPT !.usedBy = task.who]]
        BY <2>1, <3>1 DEF RolesTypeOK
      <3>7. invites' = [invites EXCEPT ![t] = [perms |-> old.perms, status |-> "used", usedBy |-> task.who]]
        BY <3>5, <3>6
      <3> HIDE DEF old
      <3> QED BY <1>d, <2>1, <2>2, <3>3, <3>4, <3>7
    <2> QED BY <2>3, <2>4
  <1>6. ASSUME NEW task \in appointing, AddModerator(task) PROVE Good
    <2>1. task.who \in People /\ task.token \in Tokens \cup {NoOne}
      BY DEF RolesTypeOK, Appointment
    <2>2. moderators' \subseteq People /\ appointed' \in [Tokens -> SUBSET People]
      BY <1>6, <2>1 DEF AddModerator, RolesTypeOK
    <2> QED BY <1>6, <1>b, <1>c, <2>2 DEF AddModerator, RolesTypeOK
  <1>7. ASSUME NEW task \in appointing, ClearPermissions(task) PROVE Good
    BY <1>7, <1>b, <1>c DEF ClearPermissions, RolesTypeOK
  <1>8. ASSUME NEW task \in appointing, SetModeratorPermissions(task) PROVE Good
    <2>1. task.who \in People /\ task.perms \in SUBSET Permissions
      BY DEF RolesTypes, Tasks
    <2>2. perms' \in [People -> SUBSET Permissions]
      BY <1>8, <2>1 DEF SetModeratorPermissions, RolesTypeOK
    <2>3. appointing' \subseteq Appointment
      <3>1. \A o \in Appointment : [o EXCEPT !.late = TRUE] \in Appointment
        BY DEF Appointment
      <3> QED BY <1>8, <3>1 DEF SetModeratorPermissions, RolesTypeOK
    <2> QED BY <1>8, <1>a, <2>2, <2>3 DEF SetModeratorPermissions, RolesTypeOK, GrantsKnown
  <1>9. ASSUME NEW task \in appointing, AppointmentFails(task) PROVE Good
    <2>1. faults' \in 0 .. MaxFaults
      BY <1>9, RolesConstants DEF AppointmentFails, RolesTypeOK
    <2> QED BY <1>9, <1>b, <2>1 DEF AppointmentFails, RolesTypeOK
  <1>10. ASSUME NEW admin \in Admins, NEW p \in People, RemoveModerator(admin, p) PROVE Good
    BY <1>10, <1>a DEF RemoveModerator, RolesTypeOK, GrantsKnown
  <1>11. ASSUME NEW p \in People, NEW status \in {"GRANTED", "DENIED"},
                \/ Leaves(p) \/ AskForMiniApp(p) \/ RequestMiniAppAccess(p) \/ DecideMiniAppAccess(p, status)
         PROVE  Good
    <2>1. UNCHANGED <<moderators, perms, invites, appointing, appointed, faults>>
      BY <1>11 DEF Leaves, AskForMiniApp, RequestMiniAppAccess, DecideMiniAppAccess
    <2>2. /\ members' \subseteq People /\ asking' \subseteq People
          /\ started' = started \/ Start
      BY <1>11 DEF Leaves, AskForMiniApp, RequestMiniAppAccess, DecideMiniAppAccess, RolesTypeOK
    <2>3. access' \in [People -> {"none", "PENDING", "GRANTED", "DENIED"}]
      BY <1>11 DEF Leaves, AskForMiniApp, RequestMiniAppAccess, DecideMiniAppAccess, RolesTypeOK
    <2> QED BY <1>a, <2>1, <2>2, <2>3 DEF RolesTypeOK, GrantsKnown
  <1> HIDE DEF Good
  <1>12. Good
    BY <1>1, <1>2, <1>3, <1>4, <1>5, <1>6, <1>7, <1>8, <1>9, <1>10, <1>11 DEF RolesNext
  <1> QED BY <1>12 DEF Good

RequestsAreTyped ==
    /\ request \in [subject : Subjects \cup {"none"}, by : People \cup {NoOne}, asked : SUBSET People,
                    self : BOOLEAN, status : {"none", "open", "expired", "resolved"},
                    removedBy : People \cup {NoOne}, removals : 0 .. MaxTasks, rejected : BOOLEAN,
                    excused : BOOLEAN]
    /\ requests \in 0 .. MaxRequests
    /\ answers \subseteq Answers

LEMMA TapsCount ==
  ASSUME TypesInv
  PROVE  /\ IsFiniteSet(Reading) /\ Cardinality(Reading) \in Nat
         /\ request.removals \in Nat /\ started \in Nat /\ started <= MaxTasks
         /\ request.removals + Cardinality(Reading) <= started
  <1>1. Reading \subseteq answers
    BY DEF Reading
  <1>2. IsFiniteSet(Reading) /\ Cardinality(Reading) \in Nat
    BY <1>1, FS_Subset, FS_CardinalityType DEF TypesInv, TapsAddUp
  <1> QED BY <1>2, RolesConstants DEF TypesInv, TypeOK, RolesTypeOK, TapsAddUp

LEMMA RequestTypes ==
  ASSUME TypesInv, RequestStep
  PROVE  RequestsAreTyped' /\ TapsAddUp' /\ started' \in 0 .. MaxTasks
  <1> DEFINE Good == RequestsAreTyped' /\ TapsAddUp' /\ started' \in 0 .. MaxTasks
  <1>t. RequestsAreTyped /\ IsFiniteSet(answers) /\ started \in 0 .. MaxTasks
    BY DEF TypesInv, TypeOK, RolesTypeOK, RequestsAreTyped, TapsAddUp, Answers
  <1>c. /\ IsFiniteSet(Reading) /\ Cardinality(Reading) \in Nat /\ request.removals \in Nat
        /\ started \in Nat /\ started <= MaxTasks
        /\ request.removals + Cardinality(Reading) <= started
    BY TapsCount
  <1>m. MaxTasks \in Nat /\ MaxRequests \in Nat
    BY RolesConstants, AccessConstants
  <1>1. ASSUME NEW p \in People, NEW subject \in Subjects, RequestRemoval(p, subject) PROVE Good
    <2>1. /\ request' = Requested(p, subject) /\ answers = {} /\ answers' = {} /\ started' = started
          /\ requests' \in 0 .. MaxRequests
      BY <1>1, <1>t, <1>m DEF RequestRemoval, RequestsAreTyped
    <2>2. OtherManagers(p) \cap reachable \subseteq People
      BY DEF OtherManagers
    <2>3. RequestsAreTyped' /\ request'.removals = 0
      BY <2>1, <2>2, <1>m DEF RequestsAreTyped, Requested
    <2>4. Reading' = {}
      BY <2>1 DEF Reading
    <2>5. TapsAddUp'
      BY <2>1, <2>3, <2>4, <1>c, FS_EmptySet DEF TapsAddUp
    <2> QED BY <2>1, <2>3, <2>5, <1>t
  <1>2. ASSUME NEW p \in People, NEW kind \in {"confirm", "reject"}, ReadRequest(p, kind) PROVE Good
    <2> DEFINE tap == [by |-> p, kind |-> kind, stage |-> "read", follow |-> Followed]
    <2>1. /\ started' = started + 1 /\ started' \in 0 .. MaxTasks
          /\ answers' = answers \cup {tap} /\ request' = [request EXCEPT !.excused = @ \/ answers # {}]
          /\ requests' = requests
      BY <1>2, <1>c, <1>m DEF ReadRequest, Start
    <2>2. tap \in Answers /\ tap.stage = "read"
      BY DEF Answers, Followed
    <2> HIDE DEF tap
    <2>3. request' \in [subject : Subjects \cup {"none"}, by : People \cup {NoOne}, asked : SUBSET People,
                        self : BOOLEAN, status : {"none", "open", "expired", "resolved"},
                        removedBy : People \cup {NoOne}, removals : 0 .. MaxTasks, rejected : BOOLEAN,
                        excused : BOOLEAN]
          /\ request'.removals = request.removals
      BY <2>1, <1>t DEF RequestsAreTyped
    <2>4. RequestsAreTyped'
      BY <2>1, <2>2, <2>3, <1>t DEF RequestsAreTyped
    <2>5. Reading' = Reading \cup {tap}
      BY <2>1, <2>2 DEF Reading
    <2>6. Cardinality(Reading') <= Cardinality(Reading) + 1 /\ Cardinality(Reading') \in Nat
      <3>1. /\ IsFiniteSet(Reading \cup {tap})
            /\ Cardinality(Reading \cup {tap}) = Cardinality(Reading)
                 \/ Cardinality(Reading \cup {tap}) = Cardinality(Reading) + 1
        BY <1>c, FS_AddElement
      <3> QED BY <2>5, <3>1, <1>c
    <2>7. IsFiniteSet(answers')
      BY <2>1, <1>t, FS_AddElement
    <2>8. TapsAddUp'
      BY <2>1, <2>3, <2>6, <2>7, <1>c DEF TapsAddUp
    <2> QED BY <2>1, <2>4, <2>8
  <1>3. CASE RequestExpires
    <2>1. /\ request' = [request EXCEPT !.status = "expired"] /\ answers' = answers /\ started' = started
          /\ requests' = requests
      BY <1>3 DEF RequestExpires
    <2>2. RequestsAreTyped' /\ request'.removals = request.removals
      BY <2>1, <1>t DEF RequestsAreTyped
    <2>3. TapsAddUp'
      BY <2>1, <2>2 DEF TypesInv, TapsAddUp, Reading
    <2> QED BY <2>1, <2>2, <2>3, <1>t
  <1>4. ASSUME NEW a \in answers, ConfirmRemoval(a) PROVE Good
    <2> DEFINE acted == [a EXCEPT !.stage = "acted"]
    <2>1. /\ request' = [request EXCEPT !.removedBy = a.by, !.removals = @ + 1]
          /\ answers' = (answers \ {a}) \cup {acted} /\ a.stage = "read"
          /\ started' = started /\ requests' = requests
      BY <1>4 DEF ConfirmRemoval
    <2>2. a \in Answers /\ a.by \in People /\ acted \in Answers /\ acted.stage = "acted"
      BY <1>t DEF RequestsAreTyped, Answers
    <2> HIDE DEF acted
    <2>3. a \in Reading /\ Reading' = Reading \ {a}
      BY <2>1, <2>2 DEF Reading
    <2>4. Cardinality(Reading') = Cardinality(Reading) - 1 /\ Cardinality(Reading') \in Nat
      BY <2>3, <1>c, FS_RemoveElement, FS_CardinalityType
    <2>5. request.removals + 1 \in 0 .. MaxTasks
      BY <2>4, <1>c, <1>m
    <2>6. request'.removals = request.removals + 1
      BY <2>1, <1>t DEF RequestsAreTyped
    <2>7. RequestsAreTyped'
      BY <2>1, <2>2, <2>5, <1>t DEF RequestsAreTyped
    <2>8. IsFiniteSet(answers')
      BY <2>1, <1>t, FS_AddElement, FS_RemoveElement
    <2>9. TapsAddUp'
      BY <2>1, <2>4, <2>6, <2>8, <1>c DEF TapsAddUp
    <2> QED BY <2>1, <2>7, <2>9, <1>t
  <1>5. ASSUME NEW a \in answers, Resolve(a) PROVE Good
    <2>1. answers' = answers \ {a} /\ started' = started /\ requests' = requests
      BY <1>5 DEF Resolve
    <2>2. \/ request' = [request EXCEPT !.status = "resolved", !.rejected = @ \/ a.kind = "reject"]
          \/ request' = [request EXCEPT !.excused = TRUE]
      BY <1>5 DEF Resolve
    <2>3. RequestsAreTyped' /\ request'.removals = request.removals
      BY <2>1, <2>2, <1>t DEF RequestsAreTyped
    <2>4. Reading' \subseteq Reading
      BY <2>1 DEF Reading
    <2>5. Cardinality(Reading') <= Cardinality(Reading) /\ Cardinality(Reading') \in Nat
      BY <2>4, <1>c, FS_Subset, FS_CardinalityType
    <2>6. IsFiniteSet(answers')
      BY <2>1, <1>t, FS_RemoveElement
    <2>7. TapsAddUp'
      BY <2>1, <2>3, <2>5, <2>6, <1>c DEF TapsAddUp
    <2> QED BY <2>1, <2>3, <2>7, <1>t
  <1> QED BY <1>1, <1>2, <1>3, <1>4, <1>5 DEF RequestStep

LEMMA NextTypesInv == IInv /\ TypesInv /\ [Next]_vars => TypesInv'
  <1> SUFFICES ASSUME IInv, TypesInv, [Next]_vars PROVE TypesInv'
    OBVIOUS
  <1> USE DEF settingsVars
  <1>t. /\ RolesTypeOK /\ GrantsKnown /\ RequestsAreTyped /\ subscribed \in BOOLEAN /\ reachable \subseteq People
        /\ IInv' /\ AccessTypes'
    BY NextIInv DEF TypesInv, TypeOK, RequestsAreTyped, Answers, IInv
  <1>s. TapsAddUp /\ started \in Nat /\ (Start => started' \in 0 .. MaxTasks /\ started <= started')
    BY RolesConstants DEF TypesInv, TypeOK, RolesTypeOK, Start
  <1>q. /\ RolesTypeOK' /\ GrantsKnown' /\ TapsAddUp' /\ RequestsAreTyped'
        /\ subscribed' \in BOOLEAN /\ reachable' \subseteq People
        => TypesInv'
    BY <1>t DEF TypesInv, TypeOK, RequestsAreTyped, AccessTypes, Settings, Toggles, Answers
  \* The taps stand while handlers start.
  <1>k. UNCHANGED <<request, answers>> /\ started' \in Nat /\ started <= started' => TapsAddUp'
    <2>1. request.removals \in Nat /\ Cardinality(Reading) \in Nat /\ request.removals + Cardinality(Reading) <= started
      BY TapsCount
    <2> QED BY <2>1, <1>s DEF TapsAddUp, Reading
  <1>w. UNCHANGED <<request, requests, answers>> => RequestsAreTyped'
    BY <1>t DEF RequestsAreTyped
  <1>1. CASE Roles
    <2>1. RolesTypeOK' /\ GrantsKnown' /\ started' \in Nat /\ started <= started'
      BY <1>1, <1>t, NextRolesTypes DEF Roles, IInv, RolesInv, GivenInv
    <2> QED BY <1>1, <1>k, <1>q, <1>t, <1>w, <2>1 DEF Roles
  <1>2. CASE UNCHANGED vars
    BY <1>2, <1>t, <1>k, <1>q, <1>s, <1>w DEF vars, rolesVars, RolesTypeOK, GrantsKnown
  \* The handlers of ChatAccess leave who may do what alone.
  <1>r. UNCHANGED rolesVars /\ started' \in 0 .. MaxTasks /\ faults' \in 0 .. MaxFaults => RolesTypeOK' /\ GrantsKnown'
    BY <1>t DEF rolesVars, RolesTypeOK, GrantsKnown
  \* A step of the settings, the games or the subscription.
  <1>a. ASSUME UNCHANGED <<rolesVars, faults, request, requests, answers, reachable>>,
               started' = started \/ Start, subscribed' \in BOOLEAN
        PROVE  TypesInv'
    <2>1. started' \in 0 .. MaxTasks /\ started' \in Nat /\ started <= started' /\ faults' \in 0 .. MaxFaults
      BY <1>a, <1>s, <1>t DEF RolesTypeOK
    <2> QED BY <1>a, <1>k, <1>q, <1>r, <1>t, <1>w, <2>1
  <1>3. ASSUME NEW field, NEW value, ReadForSave(field, value) PROVE TypesInv'
    BY <1>3, <1>a, <1>t DEF ReadForSave
  <1>4. ASSUME NEW p \in People, NEW field \in Fields, ChangeSetting(p, field) PROVE TypesInv'
    BY <1>3, <1>4 DEF ChangeSetting
  <1>5. CASE HandleMessage \/ \E member \in BOOLEAN : HandleMyChatMember(member)
    BY <1>3, <1>5 DEF HandleMessage, HandleMyChatMember
  <1>6. ASSUME NEW save \in saves, Save(save) PROVE TypesInv'
    BY <1>6, <1>a, <1>t DEF Save
  <1>7. ASSUME NEW p \in People, NEW g \in Games, NEW on \in BOOLEAN,
               EnableGame(p, g) \/ PatchGame(p, g, on) \/ SetAutoSubscribeGame(p, g)
        PROVE  TypesInv'
    BY <1>7, <1>a, <1>t DEF EnableGame, PatchGame, SetAutoSubscribeGame
  <1>8. ASSUME NEW p \in People, NEW g \in Games, SetAutoSubscribeGame(p, g) PROVE TypesInv'
    BY <1>8, <1>a, <1>t DEF SetAutoSubscribeGame
  <1>9. ASSUME NEW p \in People, Subscribe(p) PROVE TypesInv'
    BY <1>9, <1>a, <1>t DEF Subscribe
  <1>10. ASSUME NEW toggle \in toggles, ClearGames(toggle) \/ SetEnabledGames(toggle) PROVE TypesInv'
    BY <1>10, <1>a, <1>t DEF ClearGames, SetEnabledGames
  <1>11. CASE RequestStep
    <2>1. RequestsAreTyped' /\ TapsAddUp' /\ started' \in 0 .. MaxTasks
      BY <1>11, RequestTypes
    <2>2. /\ UNCHANGED <<rolesVars, reachable>>
          /\ faults' = faults \/ (faults < MaxFaults /\ faults' = faults + 1)
          /\ subscribed' = subscribed \/ subscribed' = FALSE
      <3>1. ASSUME NEW p \in People, NEW subject \in Subjects, RequestRemoval(p, subject) PROVE <2>2
        BY <3>1 DEF RequestRemoval
      <3>2. ASSUME NEW p \in People, NEW kind \in {"confirm", "reject"}, ReadRequest(p, kind) PROVE <2>2
        BY <3>2 DEF ReadRequest
      <3>3. ASSUME RequestExpires PROVE <2>2
        BY <3>3 DEF RequestExpires
      <3>4. ASSUME NEW a \in answers, ConfirmRemoval(a) PROVE <2>2
        BY <3>4 DEF ConfirmRemoval
      <3>5. ASSUME NEW a \in answers, Resolve(a) PROVE <2>2
        BY <3>5 DEF Resolve
      <3> QED BY <1>11, <3>1, <3>2, <3>3, <3>4, <3>5 DEF RequestStep
    <2>3. faults' \in 0 .. MaxFaults
      <3>1. MaxFaults \in Nat /\ faults \in 0 .. MaxFaults
        BY <1>t, RolesConstants DEF RolesTypeOK
      <3> QED BY <2>2, <3>1
    <2>4. subscribed' \in BOOLEAN /\ reachable' \subseteq People
      BY <1>t, <2>2
    <2>5. RolesTypeOK' /\ GrantsKnown'
      BY <1>r, <2>1, <2>2, <2>3
    <2> QED BY <1>q, <2>1, <2>4, <2>5
  <1> QED
    BY <1>1, <1>2, <1>4, <1>5, <1>6, <1>7, <1>8, <1>9, <1>10, <1>11 DEF Next, RequestStep

-----------------------------------------------------------------------------
(* The theorems *)

\* Every reachable state is well typed; a removal is carried out no more often than
\* handlers were started.
THEOREM TypeCorrect == Spec => []TypeOK
  <1>1. TypesInv => TypeOK
    BY DEF TypesInv
  <1> QED BY <1>1, InitIInv, NextIInv, InitTypesInv, NextTypesInv, PTL DEF Spec

\* One invitation appoints one person, the one it is marked used by, however many
\* accept it at once (moderation: AcceptInvitation, UseInvitation).
THEOREM InvitationsAppointOne == Spec => []InvitationAppointsOne
  <1>1. IInv => InvitationAppointsOne
    BY DEF IInv, RolesInv
  <1> QED BY <1>1, InitIInv, NextIInv, PTL DEF Spec

\* Once the appointments and edits of a person have ended, they hold no right beyond
\* those given and not taken back since: a removal is not undone by an edit under
\* way (SetModeratorPermissions, RemoveModerator).
THEOREM RightsAreGiven == Spec => []RightsAreThoseGiven
  <1>1. IInv => RightsAreThoseGiven
    BY DEF IInv, GivenInv, GivenTo, RightsAreThoseGiven
  <1> QED BY <1>1, InitIInv, NextIInv, PTL DEF Spec

\* A setting keeps the value, and a game the place, it was last given, unless that
\* happened while another writer had read and was still to write
\* (ChatRepository.Save, SetEnabledGames).
THEOREM ChoicesAreKept == Spec => []ChoicesStand
  <1>1. ASSUME IInv PROVE ChoicesStand
    <2>1. \A f \in Fields \ overlapped : row[f] = chosen[f]
      BY <1>1 DEF IInv, FieldsStand, FieldStands
    <2>2. ASSUME NEW g \in Games \ overlapped PROVE (games[g] # "off") = chosen[g]
      <3>1. (games[g] # "off") <=> chosen[g]
        BY <1>1, <2>2 DEF IInv, GamesStand, GameStands, Followed
      <3>2. chosen[g] \in BOOLEAN
        BY <1>1 DEF IInv, AccessTypes
      <3> QED BY <3>1, <3>2
    <2> QED BY <2>1, <2>2 DEF ChoicesStand
  <1> QED BY <1>1, InitIInv, NextIInv, PTL DEF Spec

\* A removal request nobody overlapped on, and whose resolving did not fail,
\* removes once at most and not after a rejection, and the one who made it does
\* not confirm it when another was asked (PendingApprovalRepository.Resolve).
THEOREM RequestsRemoveOnce == Spec => []RequestRemovesOnce
  <1>1. IInv => RequestRemovesOnce
    BY DEF IInv, RequestInv, ConfirmedByAnother, OneAtATime, RequestRemovesOnce
  <1> QED BY <1>1, InitIInv, NextIInv, PTL DEF Spec
=============================================================================
