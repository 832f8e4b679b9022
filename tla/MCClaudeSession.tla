--------------------------- MODULE MCClaudeSession ---------------------------
EXTENDS ClaudeSession
=============================================================================
