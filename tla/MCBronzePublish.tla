---------------------------- MODULE MCBronzePublish ----------------------------
(* Three publishers compete for one identity of two hours, each free to    *)
(* fail at any call or be killed.  Identities share no file, so a second   *)
(* one would add interleavings and no behaviour.                           *)
EXTENDS BronzePublish

CONSTANTS a, b, c, r

MCPublishers == {a, b, c}
MCRuns == {r}
=============================================================================
