--------------------------- MODULE MCDaemonControl --------------------------
(* Daemons and commands over the files some earlier daemon has left, and   *)
(* an update from one release to the next.                                 *)
EXTENDS Release
=============================================================================
