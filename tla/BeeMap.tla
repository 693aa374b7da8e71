-------------------------------- MODULE BeeMap --------------------------------
(***************************************************************************)
(* What the hash table of the schema cache promises: a map from keys to    *)
(* rows, whatever the slots, the collisions and the growing do.            *)
(***************************************************************************)
CONSTANTS
    Keys,   \* the keys of the map
    Rows,   \* what a key can be mapped to
    None    \* what a key without a row is mapped to

VARIABLES
    map,    \* the row of every key
    got     \* what the last lookup found

mapVars == <<map, got>>

Init ==
    /\ map = [k \in Keys |-> None]
    /\ got = None

Put(k, r) ==
    /\ map' = [map EXCEPT ![k] = r]
    /\ UNCHANGED got

Delete(k) ==
    /\ map' = [map EXCEPT ![k] = None]
    /\ UNCHANGED got

Get(k) ==
    /\ got' = map[k]
    /\ UNCHANGED map

Next ==
    \E k \in Keys :
        \/ \E r \in Rows : Put(k, r)
        \/ Delete(k)
        \/ Get(k)

Spec == Init /\ [][Next]_mapVars
===============================================================================
