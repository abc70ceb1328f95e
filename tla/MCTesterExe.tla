----------------------------- MODULE MCTesterExe -----------------------------
(* Small instances of TesterExe for TLC.                                     *)
EXTENDS TesterExe

MCPrinted == {"BEGIN", "USER_INPUT", "BOOT", Garbled}
=============================================================================
