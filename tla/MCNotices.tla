------------------------------ MODULE MCNotices ------------------------------
EXTENDS Notices
=============================================================================
