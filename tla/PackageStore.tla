---------------------------- MODULE PackageStore ----------------------------
(***************************************************************************)
(* What the package cache promises, with everything left out about how     *)
(* packages get into it: a command loses no package that is whole, except  *)
(* where it was asked to put another copy in its place.  Nothing of the    *)
(* kind is promised while commands share the cache: there are no locks.    *)
(***************************************************************************)
CONSTANTS Packages, Replaceable

VARIABLES
  whole,   \* the packages that elm can compile with
  shared   \* a command is at work that has not been alone all the time

vars == <<whole, shared>>

Init == whole \subseteq Packages /\ shared = FALSE

Install(q) == whole' = whole \cup {q} /\ UNCHANGED shared

Replace(q) == q \in Replaceable /\ whole' = whole \ {q} /\ UNCHANGED shared

\* Commands begin and end.
Share == shared' \in BOOLEAN /\ UNCHANGED whole

Interfere == shared /\ whole' \subseteq Packages /\ UNCHANGED shared

Next == (\E q \in Packages : Install(q) \/ Replace(q)) \/ Share \/ Interfere

Spec == Init /\ [][Next]_vars
=============================================================================
