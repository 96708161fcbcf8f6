----------------------------- MODULE MCUnenroll -----------------------------
(* Unenroll for TLC: a host with both halves of the install. *)
EXTENDS Unenroll

Both == {"user", "elevated"}
=============================================================================
