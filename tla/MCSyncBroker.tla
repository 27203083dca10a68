---------------------------- MODULE MCSyncBroker ----------------------------
(***************************************************************************)
(* SyncBroker for TLC.                                                     *)
(***************************************************************************)
EXTENDS SyncBroker, TLC
=============================================================================
