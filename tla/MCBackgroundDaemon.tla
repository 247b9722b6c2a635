------------------------- MODULE MCBackgroundDaemon -------------------------
(***************************************************************************)
(* A small schedule for BackgroundDaemon.                                  *)
(***************************************************************************)
EXTENDS BackgroundDaemon

CONSTANTS sync, batch

MCProcs == Daemons \cup Stoppers
MCTasks == {sync, batch}
MCInterval == [t \in MCTasks |-> IF t = sync THEN 1 ELSE 2]

=============================================================================
