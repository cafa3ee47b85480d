--------------------------- MODULE MCVoiceUpload ---------------------------
EXTENDS VoiceUpload
=============================================================================
