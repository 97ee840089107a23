---------------------------- MODULE MCSqlService ----------------------------
(***************************************************************************)
(* Instances of SqlService for TLC.                                        *)
(***************************************************************************)
EXTENDS SqlService
=============================================================================
