----------------------------- MODULE MCShutdown -----------------------------
(***************************************************************************)
(* Networks of two nodes for Shutdown.                                     *)
(***************************************************************************)
EXTENDS Shutdown, TLC

CONSTANTS a, b

\* Configured at both ends.
Pair == (a :> {b}) @@ (b :> {a})

\* Configured at one end: b learns of a by the first hello, and probes it then.
OneSided == (a :> {b}) @@ (b :> {})
=============================================================================
