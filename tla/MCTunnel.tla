------------------------------ MODULE MCTunnel ------------------------------
(* A small instance of Tunnel for TLC. *)
EXTENDS Tunnel, TLC

CONSTANTS d1, b1, b2

\* One DTLS connection at a time is what a client has; with two payloads a channel is
\* full while another payload waits for room in it.
MCDtls    == {d1}
MCPayload == {b1, b2}
=============================================================================
