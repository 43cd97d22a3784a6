---------------------------- MODULE AtomicRecord ----------------------------
(***************************************************************************)
(* What Cpl::Persistent promises about one stored record: "A 'Record' is   *)
(* the unit of atomic read/write operations from/to persistent storage"    *)
(* (Cpl/Persistent/README.txt).  The stored value changes in one step, to  *)
(* the value of the operation that is under way; a power failure leaves    *)
(* either the value before the operation or the one it writes, and nothing *)
(* but an erase makes a stored record unreadable.                          *)
(***************************************************************************)

CONSTANTS Values,   \* what a record can hold
          NoData    \* no valid copy on the media (blank or erased)

VARIABLES stored,   \* the value the next load finds
          pending,  \* {v} while an operation that leaves v is under way
          done      \* has that operation taken effect yet?

vars == <<stored, pending, done>>

Init == stored = NoData /\ pending = {} /\ done = FALSE

\* updateData() is called: v is the payload, or NoData for an erase
Begin(v) == /\ pending = {}
            /\ pending' = {v}
            /\ done' = FALSE
            /\ UNCHANGED stored

\* The operation takes effect, once
Commit == /\ ~done
          /\ stored' \in pending
          /\ done' = TRUE
          /\ UNCHANGED pending

\* updateData() returns: only after it has taken effect
End == /\ pending # {}
       /\ done
       /\ pending' = {}
       /\ done' = FALSE
       /\ UNCHANGED stored

\* Power fails with an operation under way
PowerFail == /\ pending # {}
             /\ pending' = {}
             /\ done' = FALSE
             /\ stored' = stored \/ (~done /\ stored' \in pending)

Next == \/ \E v \in Values \cup {NoData} : Begin(v)
        \/ Commit
        \/ End
        \/ PowerFail

Spec == Init /\ [][Next]_vars

=============================================================================
