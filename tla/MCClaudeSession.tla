--------------------------- MODULE MCClaudeSession ---------------------------
(* ExecutorSession, CommandRun and ClaudeSession on a small instance: one    *)
(* run of each executor, as a session, a command or an SDK session.          *)
EXTENDS ClaudeSession
=============================================================================
