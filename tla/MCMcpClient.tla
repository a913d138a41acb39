---------------------------- MODULE MCMcpClient -----------------------------
(* Two tool calls that share the connection to one MCP server.              *)
EXTENDS McpClient

CONSTANTS c1, c2
=============================================================================
