--------------------------- MODULE MCRecordServers ---------------------------
\* Small instances of RecordServers for TLC.
EXTENDS RecordServers

CONSTANTS a1, a2, b1
=============================================================================
