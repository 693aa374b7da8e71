------------------------------ MODULE MCBeeSchema ------------------------------
(***************************************************************************)
(* BeeSchema with two names, for spaces and for indexes alike, and two     *)
(* spaces, on a server where a space is dropped and another one, and an    *)
(* index of it, are renamed.                                               *)
(***************************************************************************)
EXTENDS BeeSchema

CONSTANTS a, b, b0, b1, b2

MCNames    == {a, b}
MCSpaceNos == {1, 2}
MCIndexNos == {0, 1}
MCIds      == 1..3
MCIndexIds == 1..2

Said(sno, num, name) == [sno |-> sno, num |-> num, name |-> name]

\* Before and after: space 2 is dropped and space 1 has its name, and its index
\* 0 has another.
MCCatalogs == {
    [spaces  |-> {Said(1, 1, a), Said(2, 1, b)},
     indexes |-> {Said(1, 0, a)}],
    [spaces  |-> {Said(1, 1, b)},
     indexes |-> {Said(1, 0, b)}]}

MCBytes      == [n \in 0..2 |-> CASE n = 0 -> b0 [] n = 1 -> b1 [] OTHER -> b2]
===============================================================================
