--------------------------- MODULE MCDaemonHistory ---------------------------
(***************************************************************************)
(* The schedule of MCBackgroundDaemon for DaemonHistory.                   *)
(***************************************************************************)
EXTENDS DaemonHistory, MCBackgroundDaemon

=============================================================================
