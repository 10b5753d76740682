------------------------- MODULE MCDaemonLifecycle -------------------------
(* Four processes that share three PIDs. *)
EXTENDS DaemonLifecycle

MCPids == {101, 102, 103}
=============================================================================
