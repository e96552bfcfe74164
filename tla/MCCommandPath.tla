----------------------------- MODULE MCCommandPath -----------------------------
(* A status and a mutation over two leases, with two workers. *)
EXTENDS CommandPath

CONSTANTS status, mutation

MCCommands == {status, mutation}
MCStatuses == {status}
================================================================================
