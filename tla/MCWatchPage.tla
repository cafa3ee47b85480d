----------------------------- MODULE MCWatchPage -----------------------------
EXTENDS WatchPage
=============================================================================
