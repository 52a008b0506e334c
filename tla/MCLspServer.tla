--------------------------- MODULE MCLspServer ----------------------------
(* Instances of LspServer for TLC. The values below stand for the      *)
(* message alphabets the runs use.                                         *)
EXTENDS LspServer

EditMessages == {"open", "change"}
AllMessages  == {"open", "reopen", "change", "close", "save"}
=============================================================================
