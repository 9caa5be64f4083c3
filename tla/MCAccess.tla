------------------------------- MODULE MCAccess -------------------------------
EXTENDS ChatAccess

\* One invitation, an admin, somebody who may become a moderator, and a member.
MCPermissions == {"manage_events", "manage_group_settings"}
MCGrants == {{"manage_events"}, {"manage_group_settings"}}
=============================================================================
