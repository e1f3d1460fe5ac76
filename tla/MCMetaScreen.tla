---------------------------- MODULE MCMetaScreen ----------------------------
(* Small instances of MetaScreen for TLC.                                   *)
EXTENDS MetaScreen

CONSTANTS memory, simulation

TwoSources == {memory, simulation}
OneForgets == {simulation}
=============================================================================
