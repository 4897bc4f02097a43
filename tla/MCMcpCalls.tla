----------------------------- MODULE MCMcpCalls -----------------------------
EXTENDS McpCalls
=============================================================================
