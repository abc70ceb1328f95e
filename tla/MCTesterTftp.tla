----------------------------- MODULE MCTesterTftp -----------------------------
(* Small instances of TesterTftp for TLC.                                    *)
EXTENDS TesterTftp

MCPrinted == {"BEGIN", "END", "USER_INPUT", "BOOT", "RESET"}
=============================================================================
