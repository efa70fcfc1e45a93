------------------------------ MODULE AtomicStore ------------------------------
(***************************************************************************)
(* What a journalled block store promises: a transaction changes the       *)
(* blocks a restart will find all at once or not at all.                   *)
(***************************************************************************)
CONSTANTS Lba, Value

VARIABLES store,  \* the blocks as a restart would find them
          view    \* the blocks as the running transaction sees them

Init == /\ store \in [Lba -> Value]
        /\ view = store

\* The transaction changes blocks; a restart would not find the change.
Work == view' \in [Lba -> Value] /\ UNCHANGED store

\* Every change of the transaction reaches the store in one step.
Commit == store' = view /\ UNCHANGED view

\* An abort or a restart forgets the changes.
Forget == view' = store /\ UNCHANGED store

Next == Work \/ Commit \/ Forget

Spec == Init /\ [][Next]_<<store, view>>
=============================================================================
