------------------------------ MODULE MCMailbox ------------------------------
(* A client calls s1, whose handlers call s2; s2 sends requests to s1. *)
EXTENDS Mailbox

CONSTANTS s1, s2, c1, call, inner, async

MCFrom == [m \in {call, inner, async} |->
             CASE m = call -> c1 [] m = inner -> s1 [] m = async -> s2]
MCTo == [m \in {call, inner, async} |-> IF m = inner THEN s2 ELSE s1]
=============================================================================
