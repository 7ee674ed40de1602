------------------------------ MODULE MCMirror ------------------------------
(***************************************************************************)
(* Incremental runs over two packages with two versions each.              *)
(***************************************************************************)
EXTENDS Mirror

MCHash(r) == r
MCCommands == {[full |-> FALSE, latest |-> FALSE, only |-> {}]}

(***************************************************************************)
(* The scan skips a release "if already processed (unless --full)", by a   *)
(* "sequence number" the last run reached: what it skips for this reason   *)
(* is in the mirror.                                                       *)
(***************************************************************************)
SkippedIsMirrored ==
  \A c \in Commands : ~run.on =>
    \A r \in Scanned(c) : is_processed(c, r) => r \in manifest
=============================================================================
