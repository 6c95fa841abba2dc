------------------------- MODULE MCMcpConnections -------------------------
\* One server: the startup refresh and the requests of the panel.
EXTENDS McpConnections
===========================================================================
