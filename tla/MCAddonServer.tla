---------------------------- MODULE MCAddonServer ----------------------------
(* Instances of AddonServer for TLC.  Two connections are an incumbent and a   *)
(* newcomer; a dropped one comes back as the next newcomer.                 *)
EXTENDS AddonServer
=============================================================================
