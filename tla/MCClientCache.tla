-------------------------- MODULE MCClientCache --------------------------
(* Small instances of ClientCache for TLC. *)
EXTENDS ClientCache

CONSTANTS w1, w2

\* A token that the controller looks after, and a session that it does not.
Token == [session |-> FALSE, disabled |-> FALSE]
UnwatchedSession == [session |-> TRUE, disabled |-> TRUE]
BothConnections == {Token, UnwatchedSession}
=============================================================================
