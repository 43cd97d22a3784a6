---------------------------- MODULE MCModelPoint ----------------------------
\* Small instances of ModelPoint for TLC.
EXTENDS ModelPoint

CONSTANTS pt1, pt2, sub1, sub2, loop1, loop2, data

\* Two threads, each with a subscriber
MCTwoLoops == sub1 :> loop1 @@ sub2 :> loop2

\* One thread, one subscriber
MCOneSub == sub1 :> loop1

MCCopy == {<<pt1, pt2>>}
=============================================================================
