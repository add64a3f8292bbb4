----------------------------- MODULE MCTemplate -----------------------------
(* Small instances of Template for TLC. *)
EXTENDS Template

\* With a cloud-init config, and one that is disabled.
SomeKinds == [cloudInit: {TRUE}, config: {0}, disabled: BOOLEAN]
=============================================================================
