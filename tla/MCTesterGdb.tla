----------------------------- MODULE MCTesterGdb -----------------------------
(* Small instances of TesterGdb for TLC.                                     *)
EXTENDS TesterGdb

MCStates == {"prompt", "running", "error", Garbled}
MCStreamed == {"TEXT", "USER_INPUT"}
==============================================================================
