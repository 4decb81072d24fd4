-------------------------- MODULE MCConsoleSession --------------------------
(* Small instances of ConsoleSession. *)
EXTENDS ConsoleSession, TLC
=============================================================================
