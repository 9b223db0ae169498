------------------------- MODULE MCMySqlConnection -------------------------
(* MySqlConnection for TLC: the awaits at which futures are dropped.        *)
EXTENDS MySqlConnection, TLC

MCMetadata == {"metadata"} \X {FALSE}
MCPrepare == {"prepare_ok"} \X BOOLEAN
MCPing == {"ping_ok"} \X BOOLEAN
MCFlush == {"run_flush"} \X BOOLEAN
=============================================================================
