--------------------------- MODULE MCRecordButton ---------------------------
EXTENDS RecordButton
=============================================================================
