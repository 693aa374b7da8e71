------------------------------- MODULE BeeCache -------------------------------
(***************************************************************************)
(* What the schema cache promises: it knows a space by name and by number, *)
(* and the indexes of the spaces it knows by number.  A row that comes     *)
(* later replaces what an earlier one said, and a flush forgets.           *)
(***************************************************************************)
EXTENDS Integers

CONSTANTS
    Names,      \* names of spaces and of indexes
    SpaceNos,   \* numbers of spaces
    IndexNos    \* numbers of indexes

VARIABLE cache

NoId    == -1
NoTable == [n \in Names |-> NoId]
Empty   == [sid   |-> NoTable,
            known |-> {},
            iid   |-> [s \in SpaceNos |-> NoTable]]

\* A row of _vspace or _vindex; num is the owner of a space.
CacheRow == [sno : SpaceNos, num : IndexNos, name : Names]

Init == cache = Empty

\* The name and the number of a space.  One that is told again has no index
\* until they are told again too.
AddSpace(r) ==
    cache' = [sid   |-> [cache.sid EXCEPT ![r.name] = r.sno],
              known |-> cache.known \cup {r.sno},
              iid   |-> [cache.iid EXCEPT ![r.sno] = NoTable]]

\* An index of a space that is known.
AddIndex(r) ==
    /\ r.sno \in cache.known
    /\ cache' = [cache EXCEPT !.iid[r.sno][r.name] = r.num]

\* Some names, and some spaces with their indexes, are forgotten.
Forget ==
    \E names \in SUBSET Names, numbers \in SUBSET SpaceNos :
        cache' = [sid   |-> [n \in Names |->
                                IF n \in names THEN NoId ELSE cache.sid[n]],
                  known |-> cache.known \ numbers,
                  iid   |-> [s \in SpaceNos |->
                                IF s \in numbers THEN NoTable
                                ELSE cache.iid[s]]]

Next ==
    \/ \E r \in CacheRow : AddSpace(r) \/ AddIndex(r)
    \/ Forget

Spec == Init /\ [][Next]_cache
===============================================================================
