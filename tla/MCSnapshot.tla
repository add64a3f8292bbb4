----------------------------- MODULE MCSnapshot -----------------------------
(* Small instances of Snapshot for TLC. *)
EXTENDS Snapshot

\* The state a guest is in, which Proxmox lists among its snapshots.
Current == {"current"}
=============================================================================
