---------------------------- MODULE MCHostBridge ----------------------------
(***************************************************************************)
(* A script with two calls, one of two attempts, driven by two sessions.   *)
(***************************************************************************)
EXTENDS HostBridge, TLC

CONSTANTS c1, c2, h1, h2

MCCalls == {c1, c2}
MCMaxRetries == (c1 :> 2) @@ (c2 :> 1)
MCHosts == {h1, h2}
=============================================================================
