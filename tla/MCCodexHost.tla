---------------------------- MODULE MCCodexHost ----------------------------
(* Small instances of CodexHost: a personal and a project message, two     *)
(* threads a TUI can show and a subagent's.                                *)
EXTENDS CodexHost, TLC

CONSTANTS mine, ours, t1, t2, sub
=============================================================================
