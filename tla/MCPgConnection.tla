--------------------------- MODULE MCPgConnection ---------------------------
EXTENDS PgConnection
=============================================================================
