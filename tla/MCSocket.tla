------------------------------ MODULE MCSocket -------------------------------
EXTENDS Socket
MCPacks == {1, 3, 4}
MCTimeouts == {-1, 2}
=============================================================================
