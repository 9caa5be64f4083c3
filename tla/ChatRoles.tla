------------------------------- MODULE ChatRoles -------------------------------
(***************************************************************************)
(* Who may do what in one group: the moderators its Telegram admins appoint,  *)
(* the one-time invitations they send, the permissions of each moderator, and *)
(* the standing of each person with the Mini App.                            *)
(*                                                                         *)
(* A handler that reads, checks and then writes is a task in flight, one step *)
(* per statement or transaction, so that two of them interleave. PostgreSQL   *)
(* runs READ COMMITTED: a transaction that replaces a set of rows deletes the *)
(* rows it saw when its DELETE began, so one that began before another one    *)
(* committed (late) leaves the other's rows in place.                       *)
(*                                                                         *)
(* Left out: names and profiles, the wizard's screens (ChatScreens), the      *)
(* 72 hours of an invitation as a clock (expiry is a step).                  *)
(***************************************************************************)
EXTENDS Naturals, FiniteSets

CONSTANTS People, Admins,
          Tokens,       \* invitations that may be created
          Permissions,
          Grants,       \* the permission sets the wizard offers
          NoOne,
          MaxTasks,     \* how many handlers with several steps ever start
          MaxFaults     \* how many of them fail

ASSUME RolesConstants ==
    /\ Admins \subseteq People /\ NoOne \notin People
    /\ Grants \subseteq SUBSET Permissions
    /\ MaxTasks \in Nat /\ MaxFaults \in Nat

VARIABLES
    members,    \* who is in the group
    moderators, \* chat_moderator
    perms,      \* chat_moderator_permission
    given,      \* the rights each person may hold: those given, and not replaced or removed since
    invites,    \* moderator_invitation
    appointing, \* the appointments and permission edits in flight
    appointed,  \* whom each invitation has made a moderator
    access,     \* miniapp_access
    asking,     \* requests for the Mini App between the read and the insert
    started, faults

rolesVars == <<members, moderators, perms, given, invites, appointing, appointed, access, asking>>

NoInvite == [perms |-> {}, status |-> "none", usedBy |-> NoOne]

Appointment == [who : People, perms : Grants, token : Tokens \cup {NoOne},
                stage : {"read", "claimed", "row", "cleared"}, late : BOOLEAN]

RolesTypeOK ==
    /\ members \subseteq People /\ moderators \subseteq People
    /\ perms \in [People -> SUBSET Permissions] /\ given \in [People -> SUBSET Permissions]
    /\ invites \in [Tokens -> [perms : SUBSET Permissions, usedBy : People \cup {NoOne},
                               status : {"none", "open", "expired", "used", "revoked"}]]
    /\ appointing \subseteq Appointment
    /\ appointed \in [Tokens -> SUBSET People]
    /\ access \in [People -> {"none", "PENDING", "GRANTED", "DENIED"}]
    /\ asking \subseteq People
    /\ started \in 0 .. MaxTasks /\ faults \in 0 .. MaxFaults

RolesInit ==
    /\ members = People
    /\ moderators \in SUBSET (People \ Admins)
    /\ perms = [p \in People |-> IF p \in moderators THEN Permissions ELSE {}]
    /\ given = perms
    /\ invites = [t \in Tokens |-> NoInvite]
    /\ appointing = {}
    /\ appointed = [t \in Tokens |-> {}]
    /\ access = [p \in People |-> "none"] /\ asking = {}
    /\ started = 0 /\ faults = 0

\* Telegram knows the admins; somebody who has left is neither member nor admin.
IsTelegramAdmin(p) == p \in Admins \cap members
CanManage(p) == p \in members /\ (p \in Admins \/ p \in moderators)
OtherManagers(p) == {q \in People \ {p} : CanManage(q)}
HasPermission(p, x) == CanManage(p) /\ (p \in Admins \/ x \in perms[p])

Start == started < MaxTasks /\ started' = started + 1

Appoint(task) == appointing' = appointing \cup {task}
Becomes(task, stage) == appointing' = (appointing \ {task}) \cup {[task EXCEPT !.stage = stage]}

\* The appointments and edits of p that have their right to write.
UnderWay(p) == {task \in appointing : task.who = p /\ task.stage # "read"}

\* A set given alone replaces what p held; one given beside others may unite with them.
GiveRights(p, grant) ==
    given' = [given EXCEPT ![p] =
        grant \cup (IF UnderWay(p) = {} THEN {} ELSE @ \cup UNION {task.perms : task \in UnderWay(p)})]

-----------------------------------------------------------------------------
(* A wizard's last tap: a new moderator, new permissions, or an invitation.    *)

AssignNew(admin, p, grant) ==
    /\ IsTelegramAdmin(admin)
    /\ Start
    /\ Appoint([who |-> p, perms |-> grant, token |-> NoOne, stage |-> "claimed", late |-> FALSE])
    /\ GiveRights(p, grant)
    /\ UNCHANGED <<members, moderators, perms, invites, appointed, access, asking, faults>>

EditPermissions(admin, p, grant) ==
    /\ IsTelegramAdmin(admin)
    /\ Start
    /\ Appoint([who |-> p, perms |-> grant, token |-> NoOne, stage |-> "row", late |-> FALSE])
    /\ GiveRights(p, grant)
    /\ UNCHANGED <<members, moderators, perms, invites, appointed, access, asking, faults>>

CreateInvitation(admin, t, grant) ==
    /\ IsTelegramAdmin(admin)
    /\ invites[t].status = "none"
    /\ invites' = [invites EXCEPT ![t] = [perms |-> grant, status |-> "open", usedBy |-> NoOne]]
    /\ UNCHANGED <<members, given, moderators, perms, appointing, appointed, access, asking,
                   started, faults>>

\* Only an invitation nobody has used can be revoked, an expired one included.
RevokeInvitation(admin, t) ==
    /\ IsTelegramAdmin(admin)
    /\ invites[t].status \in {"open", "expired"}
    /\ invites' = [invites EXCEPT ![t].status = "revoked"]
    /\ UNCHANGED <<members, given, moderators, perms, appointing, appointed, access, asking,
                   started, faults>>

InvitationExpires(t) ==
    /\ invites[t].status = "open"
    /\ invites' = [invites EXCEPT ![t].status = "expired"]
    /\ UNCHANGED <<members, given, moderators, perms, appointing, appointed, access, asking,
                   started, faults>>

-----------------------------------------------------------------------------
(* Accepting: the invitation and the membership are read, the invitation is   *)
(* claimed, and only then is the moderator stored.                          *)

AcceptInvitation(p, t) ==
    /\ invites[t].status = "open"
    /\ p \in members
    /\ Start
    /\ Appoint([who |-> p, perms |-> invites[t].perms, token |-> t, stage |-> "read", late |-> FALSE])
    /\ UNCHANGED <<members, given, moderators, perms, invites, appointed, access, asking, faults>>

Claimable_always(t) == invites[t].status # "none"   \* mutant: no WHERE clause

\* The claim looks at used_at and revoked_at again, not at the expiry.
Claimable(t) == invites[t].status \in {"open", "expired"}

UseInvitation(task) ==
    /\ task.stage = "read"
    /\ IF Claimable(task.token)
       THEN /\ invites' = [invites EXCEPT ![task.token].status = "used",
                                          ![task.token].usedBy = task.who]
            /\ Becomes(task, "claimed")
            /\ GiveRights(task.who, task.perms)
       ELSE appointing' = appointing \ {task} /\ UNCHANGED <<invites, given>>
    /\ UNCHANGED <<members, moderators, perms, appointed, access, asking, started, faults>>

\* AddModerator: the row in one statement, the permissions in a transaction.
AddModerator(task) ==
    /\ task.stage = "claimed"
    /\ moderators' = moderators \cup {task.who}
    /\ appointed' = IF task.token = NoOne THEN appointed
                    ELSE [appointed EXCEPT ![task.token] = @ \cup {task.who}]
    /\ Becomes(task, "row")
    /\ UNCHANGED <<members, given, perms, invites, access, asking, started, faults>>

ClearPermissions(task) ==
    /\ task.stage = "row"
    /\ Becomes(task, "cleared")
    /\ UNCHANGED <<members, given, moderators, perms, invites, appointed, access, asking,
                   started, faults>>

InsertsFail_never(task) == FALSE                    \* mutant: no foreign key

\* The inserts refer to the moderator's row: without one the transaction fails.
InsertsFail(task) == task.who \notin moderators /\ task.perms # {}

SetModeratorPermissions(task) ==
    /\ task.stage = "cleared"
    /\ IF InsertsFail(task)
       THEN UNCHANGED perms /\ appointing' = appointing \ {task}
       ELSE /\ perms' = [perms EXCEPT ![task.who] = IF task.late THEN @ \cup task.perms ELSE task.perms]
            /\ appointing' = {IF o.who = task.who /\ o.stage = "cleared"
                              THEN [o EXCEPT !.late = TRUE] ELSE o : o \in appointing \ {task}}
    /\ UNCHANGED <<members, given, moderators, invites, appointed, access, asking, started, faults>>

AppointmentFails(task) ==
    /\ faults < MaxFaults /\ faults' = faults + 1
    /\ appointing' = appointing \ {task}
    /\ given' = IF task.stage = "read" THEN given ELSE [given EXCEPT ![task.who] = @ \cup perms[task.who]]
    /\ UNCHANGED <<members, moderators, perms, invites, appointed, access, asking, started>>

\* The permissions go with the row (ON DELETE CASCADE).
RemoveModerator(admin, p) ==
    /\ IsTelegramAdmin(admin)
    /\ p \in moderators
    /\ moderators' = moderators \ {p}
    /\ perms' = [perms EXCEPT ![p] = {}]
    /\ given' = IF \E task \in UnderWay(p) : task.stage = "claimed" THEN given
                ELSE [given EXCEPT ![p] = {}]
    /\ UNCHANGED <<members, invites, appointing, appointed, access, asking, started, faults>>

Leaves(p) ==
    /\ p \in members \ Admins
    /\ members' = members \ {p}
    /\ UNCHANGED <<given, moderators, perms, invites, appointing, appointed, access, asking,
                   started, faults>>

-----------------------------------------------------------------------------
(* The Mini App opens for one person at a time, by a root operator's decision. *)

AskForMiniApp(p) ==
    /\ access[p] = "none" /\ p \notin asking
    /\ Start
    /\ asking' = asking \cup {p}
    /\ UNCHANGED <<members, given, moderators, perms, invites, appointing, appointed, access, faults>>

RequestMiniAppAccess(p) ==
    /\ p \in asking
    /\ asking' = asking \ {p}
    /\ access' = IF access[p] = "none" THEN [access EXCEPT ![p] = "PENDING"] ELSE access
    /\ UNCHANGED <<members, given, moderators, perms, invites, appointing, appointed, started, faults>>

\* An operator may also decide for somebody who never asked.
DecideMiniAppAccess(p, status) ==
    /\ access[p] # status
    /\ access' = [access EXCEPT ![p] = status]
    /\ Start
    /\ UNCHANGED <<members, given, moderators, perms, invites, appointing, appointed, asking, faults>>

RolesNext ==
    \/ \E admin \in Admins, p \in People, grant \in Grants :
           AssignNew(admin, p, grant) \/ EditPermissions(admin, p, grant)
    \/ \E admin \in Admins, t \in Tokens :
           \/ RevokeInvitation(admin, t)
           \/ \E grant \in Grants : CreateInvitation(admin, t, grant)
    \/ \E t \in Tokens : InvitationExpires(t) \/ \E p \in People : AcceptInvitation(p, t)
    \/ \E task \in appointing :
           \/ UseInvitation(task) \/ AddModerator(task) \/ ClearPermissions(task)
           \/ SetModeratorPermissions(task) \/ AppointmentFails(task)
    \/ \E admin \in Admins, p \in People : RemoveModerator(admin, p)
    \/ \E p \in People :
           \/ Leaves(p) \/ AskForMiniApp(p) \/ RequestMiniAppAccess(p)
           \/ \E status \in {"GRANTED", "DENIED"} : DecideMiniAppAccess(p, status)

-----------------------------------------------------------------------------
(* Properties                                                               *)

\* An invitation makes at most one person a moderator, the one it is marked used
\* by, however many accept it at once and whenever it is revoked
\* (UseInvitation's compare-and-swap).
InvitationAppointsOne ==
    \A t \in Tokens :
        appointed[t] # {} => appointed[t] = {invites[t].usedBy} /\ invites[t].status = "used"

\* Nobody keeps a right that is no longer given: once the appointments and edits of
\* a person have ended, they hold no more than the last set given, the sets of
\* those that overlapped it, and what a failed one left in place
\* (SetModeratorPermissions). A removal leaves nothing, and an edit under way then
\* gives nothing back: only an appointment whose AddModerator was still to come does.
RightsAreThoseGiven == \A p \in People : UnderWay(p) = {} => perms[p] \subseteq given[p]

==============================================================================
