---------------------------- MODULE VersionRange ----------------------------
(***************************************************************************)
(* Versions and version ranges: the arithmetic every decision of the       *)
(* dependency solver rests on.  A version is a triple of unsigned 16-bit   *)
(* components ordered lexicographically; a range is a pair of bounds, each *)
(* inclusive, exclusive or unbounded, with a separate is_empty flag that   *)
(* only intersection sets.                                                 *)
(*                                                                         *)
(* Sources: src/pgsolver/pg_core.c and                                     *)
(* src/commands/package/package_common.c of elm-wrap.                      *)
(***************************************************************************)
EXTENDS Integers

CONSTANT U16      \* the number of values of one component: 2^16 in the code

ASSUME U16Assumption == U16 \in Nat /\ U16 > 1

Component == 0 .. (U16 - 1)

Version == [major : Component, minor : Component, patch : Component]

\* The cast of a parsed int to uint16_t.
Cast(n) == n % U16

\* sscanf accepts any non-negative int and the result is cast, not refused.
version_parse(major, minor, patch) ==
  [major |-> Cast(major), minor |-> Cast(minor), patch |-> Cast(patch)]

\* a < b in the order of pg_version_cmp_internal.
VersionLt(a, b) ==
  \/ a.major < b.major
  \/ a.major = b.major /\ a.minor < b.minor
  \/ a.major = b.major /\ a.minor = b.minor /\ a.patch < b.patch

-----------------------------------------------------------------------------
Bound == [v : Version, inclusive : BOOLEAN, unbounded : BOOLEAN]

PgVersionRange == [lower : Bound, upper : Bound, is_empty : BOOLEAN]

Inclusive(v) == [v |-> v, inclusive |-> TRUE,  unbounded |-> FALSE]
Exclusive(v) == [v |-> v, inclusive |-> FALSE, unbounded |-> FALSE]

ZeroVersion == [major |-> 0, minor |-> 0, patch |-> 0]

pg_unbounded_bound ==
  [v |-> ZeroVersion, inclusive |-> FALSE, unbounded |-> TRUE]

pg_range_any ==
  [lower |-> pg_unbounded_bound, upper |-> pg_unbounded_bound,
   is_empty |-> FALSE]

pg_range_exact(v) ==
  [lower |-> Inclusive(v), upper |-> Inclusive(v), is_empty |-> FALSE]

\* The upper bounds wrap: the next major of the last major is 0.
pg_range_until_next_major(v) ==
  [lower |-> Inclusive(v),
   upper |-> Exclusive([major |-> Cast(v.major + 1), minor |-> 0, patch |-> 0]),
   is_empty |-> FALSE]

pg_range_until_next_minor(v) ==
  [lower |-> Inclusive(v),
   upper |-> Exclusive([major |-> v.major, minor |-> Cast(v.minor + 1),
                        patch |-> 0]),
   is_empty |-> FALSE]

\* "lo <= v < hi" of an elm.json; is_empty is not set even when lo >= hi.
version_parse_constraint(lo, hi) ==
  [lower |-> Inclusive(lo), upper |-> Exclusive(hi), is_empty |-> FALSE]

-----------------------------------------------------------------------------
\* The more restrictive of two lower bounds.
MaxLower(a, b) ==
  IF a.unbounded THEN b
  ELSE IF b.unbounded \/ VersionLt(b.v, a.v) THEN a
  ELSE IF VersionLt(a.v, b.v) THEN b
  ELSE [v |-> a.v, inclusive |-> a.inclusive /\ b.inclusive,
        unbounded |-> FALSE]

\* The more restrictive of two upper bounds.
MinUpper(a, b) ==
  IF a.unbounded THEN b
  ELSE IF b.unbounded \/ VersionLt(a.v, b.v) THEN a
  ELSE IF VersionLt(b.v, a.v) THEN b
  ELSE [v |-> a.v, inclusive |-> a.inclusive /\ b.inclusive,
        unbounded |-> FALSE]

\* The test for emptiness that ends pg_range_intersect.
BoundsCross(lower, upper) ==
  /\ ~lower.unbounded /\ ~upper.unbounded
  /\ \/ VersionLt(upper.v, lower.v)
     \/ lower.v = upper.v /\ ~(lower.inclusive /\ upper.inclusive)

pg_range_intersect(a, b) ==
  IF a.is_empty \/ b.is_empty
  THEN [lower |-> pg_unbounded_bound, upper |-> pg_unbounded_bound,
        is_empty |-> TRUE]
  ELSE [lower |-> MaxLower(a.lower, b.lower),
        upper |-> MinUpper(a.upper, b.upper),
        is_empty |-> BoundsCross(MaxLower(a.lower, b.lower),
                                 MinUpper(a.upper, b.upper))]

AboveLower(b, v) ==
  b.unbounded \/ VersionLt(b.v, v) \/ (b.inclusive /\ b.v = v)

BelowUpper(b, v) ==
  b.unbounded \/ VersionLt(v, b.v) \/ (b.inclusive /\ b.v = v)

pg_range_contains(range, v) ==
  /\ ~range.is_empty
  /\ AboveLower(range.lower, v)
  /\ BelowUpper(range.upper, v)

\* The test of the commands, for the ranges that they read themselves.
version_in_range(v, range) ==
  /\ ~range.is_empty
  /\ ~range.lower.unbounded =>
       IF range.lower.inclusive THEN ~VersionLt(v, range.lower.v) ELSE VersionLt(range.lower.v, v)
  /\ ~range.upper.unbounded =>
       IF range.upper.inclusive THEN ~VersionLt(range.upper.v, v) ELSE VersionLt(v, range.upper.v)

pg_lower_bound_ge(a, b) ==
  \/ b.unbounded
  \/ /\ ~a.unbounded
     /\ \/ VersionLt(b.v, a.v)
        \/ a.v = b.v /\ (a.inclusive => b.inclusive)

pg_upper_bound_le(a, b) ==
  \/ b.unbounded
  \/ /\ ~a.unbounded
     /\ \/ VersionLt(a.v, b.v)
        \/ a.v = b.v /\ (a.inclusive => b.inclusive)

pg_range_subset(a, b) ==
  \/ a.is_empty
  \/ pg_lower_bound_ge(a.lower, b.lower) /\ pg_upper_bound_le(a.upper, b.upper)

pg_range_is_exact(range) ==
  /\ ~range.lower.unbounded /\ ~range.upper.unbounded
  /\ range.lower.inclusive  /\ range.upper.inclusive
  /\ range.lower.v = range.upper.v
=============================================================================
