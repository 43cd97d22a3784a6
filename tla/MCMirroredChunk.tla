--------------------------- MODULE MCMirroredChunk ---------------------------
\* Small instances of MirroredChunk for TLC.
EXTENDS MirroredChunk

CONSTANTS p1, p2, p3

\* One record length
MCPayloadsFixed == {p1, p2}
MCLenFixed == [p \in MCPayloadsFixed |-> 1]

\* A firmware update that makes the record longer: p3 is of the longer kind
MCPayloadsGrown == {p1, p2, p3}
MCLenGrown == [p \in MCPayloadsGrown |-> IF p = p3 THEN 2 ELSE 1]
=============================================================================
