---------------------------- MODULE MCConnections ----------------------------
(* Instances of Connections for TLC.                                       *)
EXTENDS Connections, TLC

CONSTANTS c1, c2, s1, s2

TwoConns == {c1, c2}
TwoShards == {s1, s2}

\* Both topologies, with a cap that lets two connections share a shard and
\* one that keeps the second client waiting.
SomeLayouts ==
  {[sharded |-> TRUE, tls |-> FALSE, control |-> TRUE, max_connections |-> 2],
   [sharded |-> TRUE, tls |-> TRUE, control |-> FALSE, max_connections |-> 1],
   [sharded |-> FALSE, tls |-> TRUE, control |-> TRUE, max_connections |-> 1],
   [sharded |-> FALSE, tls |-> FALSE, control |-> FALSE, max_connections |-> 2]}
=============================================================================
