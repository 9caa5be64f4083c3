SPECIFICATION Spec
CONSTANTS
    People = {a, m}
    Admins = {a}
    Tokens = {t}
    Permissions <- MCPermissions
    Grants <- MCGrants
    NoOne = NoOne
    Fields = {"active", "zone"}
    Games = {cs, dota}
    MaxTasks = 2
    MaxFaults = 1
    MaxRequests = 1
INVARIANTS InvitationAppointsOne RightsAreThoseGiven ChoicesStand
    RequestRemovesOnce
CHECK_DEADLOCK FALSE
