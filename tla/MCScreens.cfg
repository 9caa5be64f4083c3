CONSTANTS
    Chats = {"g1", "g2"}
    Roles = {"member", "moderator", "keeper", "admin"}
    Operators = {"none", "delegated", "root"}
SPECIFICATION ScreensSpec
INVARIANTS StampTellsTheChat BackLeadsHome
PROPERTIES NothingWithoutRights
