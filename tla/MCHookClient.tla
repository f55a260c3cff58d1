---------------------------- MODULE MCHookClient ----------------------------
(* Instances of HookClient for TLC.                                        *)
EXTENDS HookClient, TLC
=============================================================================
