------------------------------- MODULE Index --------------------------------
(***************************************************************************)
(* What the LSM index of a block promises, whatever its levels: a record    *)
(* is in the index from its insertion until the records are handed to an    *)
(* external writer, and in between compaction does not change what there is. *)
(***************************************************************************)
EXTENDS Naturals

CONSTANT Records

VARIABLES
    stored,            \* how often each record is in the index
    exported           \* records that an external writer has taken over

vars == <<stored, exported>>

Init ==
    /\ stored = [r \in Records |-> 0]
    /\ exported = {}

Insert(r) ==
    /\ stored[r] = 0
    /\ r \notin exported
    /\ stored' = [stored EXCEPT ![r] = 1]
    /\ UNCHANGED exported

\* some of the records leave the index together
Export ==
    \E S \in SUBSET {r \in Records : stored[r] = 1} :
        /\ S # {}
        /\ stored' = [r \in Records |-> IF r \in S THEN 0 ELSE stored[r]]
        /\ exported' = exported \union S

Next == Export \/ \E r \in Records : Insert(r)

Spec == Init /\ [][Next]_vars
=============================================================================
