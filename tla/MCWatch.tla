------------------------------ MODULE MCWatch ------------------------------
(***************************************************************************)
(* Node a with its neighbour b in the name table, a machine that is not in *)
(* it, on b's host, and a table entry c that is out of date: nobody        *)
(* listens there.  Of the shapes of an announcement, each list is met with *)
(* each key, and each of both with and without quotes.                     *)
(***************************************************************************)
EXTENDS Watch, TLC

CONSTANTS a, b, c

At(host, port) == [host |-> host, port |-> port]

Names == a :> At("A", 5000) @@ b :> At("B", 5000) @@ c :> At("C", 5000)

Machines == {At("A", 5000), At("B", 5000), At("B", 5001)}

HalfTheShapes ==
  {s \in Shape : s.quoted <=> (s.list = "node" <=> s.key = "links")}
=============================================================================
