---------------------------- MODULE MCPeerGroups ----------------------------
(***************************************************************************)
(* What discoveries find in a fleet of three endpoints: a group that       *)
(* ripens, loses a member and is narrowed to a technical cluster, and a    *)
(* second cluster that shares an endpoint with it.                         *)
(***************************************************************************)
EXTENDS PeerGroups

CONSTANTS h1, h2, h3, f1, f2

Found(f, members, suitability, stable) ==
    [fingerprint |-> f, members |-> members, suitability |-> suitability, stable |-> stable]

MCGroups == {Found(f1, {h1, h2}, "recommended", FALSE), Found(f1, {h2}, "recommended", TRUE),
             Found(f1, {h1, h2}, "technical", TRUE), Found(f2, {h2, h3}, "technical", TRUE)}
=============================================================================
