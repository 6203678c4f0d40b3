------------------------------ MODULE HashSet ------------------------------
(***************************************************************************)
(* What a hash-consing set promises: one object per key.  An allocation    *)
(* finds the object of its key exactly when that object has been allocated *)
(* and not been disclaimed since.                                          *)
(***************************************************************************)
CONSTANT Keys

VARIABLES
    members,    \* keys with an object in the set
    ret         \* the last operation: its key, and what came of it

Init == members = {} /\ ret = <<>>

Alloc(k) ==
    /\ members' = members \cup {k}
    /\ ret' = <<k, IF k \in members THEN "found" ELSE "inserted">>

Disclaim(k) ==
    /\ k \in members
    /\ members' = members \ {k}
    /\ ret' = <<k, "disclaimed">>

\* Every operation leaves a result.
Next == ret' # <<>> /\ \E k \in Keys : Alloc(k) \/ Disclaim(k)

Spec == Init /\ [][Next]_<<members, ret>>
=============================================================================
