--------------------------- MODULE MCServerShutdown ---------------------------
EXTENDS ServerShutdown

\* Both codes are on one shard, so that a tick of one entry leaves one behind.
MCShardOf == [c \in {"c1", "c2"} |-> "s1"]
=============================================================================
