--------------------------- MODULE MCAppsrcFanout ---------------------------
EXTENDS AppsrcFanout
=============================================================================
