------------------------------- MODULE MCBeeHash -------------------------------
(***************************************************************************)
(* Small instances of BeeHash: the first prime sizes of the code and       *)
(* hashes that collide, wholly and in part of a chain.                     *)
(***************************************************************************)
EXTENDS BeeHash

\* Bounds: five rows of six keys; the last two have the number of one and the
\* name of another.
MCRows == {[number |-> "n1", name |-> "a"], [number |-> "n2", name |-> "b"],
           [number |-> "n3", name |-> "c"],
           [number |-> "n1", name |-> "b"], [number |-> "n3", name |-> "a"]}

\* In a table of 11 slots n1, a and b start at one slot, and n1 and b go on
\* together; n2 and c start where they come to.
MCHash == [k \in Keys |->
    CASE k = "n1" -> 1 [] k = "a" -> 12 [] k = "b" -> 111 [] k = "n2" -> 3
      [] k = "c" -> 14 [] OTHER -> 8]

MCPrimes == <<3, 11, 23>>
===============================================================================
