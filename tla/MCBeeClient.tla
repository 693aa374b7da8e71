----------------------------- MODULE MCBeeClient -----------------------------
(* BeeClient on a catalog of one space with one index of another name. *)
EXTENDS BeeClientSession

CONSTANTS tab, pri

MCNames == {tab, pri}
MCSpaceNos == {512}
MCIndexNos == {0, 1}
MCSpaces == {[sno |-> 512, num |-> 1, name |-> tab]}
MCIndexes == {[sno |-> 512, num |-> 0, name |-> pri]}

(* A space by name or by number, with or without an index by name. *)
MCSpaceArgs == {tab, 512}
MCNamedSpace == {tab}
MCIndexArgs == {None, pri}

MCGuest == {FALSE}
MCAnyPassword == BOOLEAN
=============================================================================
