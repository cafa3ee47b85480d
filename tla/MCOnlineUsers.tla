--------------------------- MODULE MCOnlineUsers ---------------------------
EXTENDS OnlineUsers
=============================================================================
