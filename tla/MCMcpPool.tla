----------------------------- MODULE MCMcpPool ------------------------------
EXTENDS McpPool
=============================================================================
