--------------------------- MODULE MCShardConfig ---------------------------
(* ShardConfig.tla for TLC.                                                *)
EXTENDS ShardConfig
=============================================================================
