---------------------------- MODULE MCDirMonitor ----------------------------
(* DirMonitor for TLC.                                                     *)
EXTENDS DirMonitor, TLC
=============================================================================
