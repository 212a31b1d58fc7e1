---------------------------- MODULE MCForwarding ----------------------------
(***************************************************************************)
(* A small network, its messages and its routing tables for Forwarding.    *)
(***************************************************************************)
EXTENDS Forwarding, TLC

CONSTANTS a, b, c, d, hi, re

\* A ring of four: two disjoint ways between any two nodes.
Ring == (a :> {b, d}) @@ (b :> {a, c}) @@ (c :> {b, d}) @@ (d :> {a, c})

\* A message from one neighbour to another, and the answer to it.
HiSource == (hi :> a) @@ (re :> d)
HiDest == (hi :> d) @@ (re :> a)

\* Routes over the expensive link a-d are avoided: between its ends they lead
\* the long way round, which takes every hop the budget has.
RingRoutes ==
  [n \in Node |->
     [x \in Node |->
        CASE x = n -> NoRoute
          [] n = a /\ x # a -> b
          [] n = d /\ x # d -> c
          [] n = b /\ x = d -> c
          [] n = c /\ x = a -> b
          [] OTHER -> x]]
=============================================================================
