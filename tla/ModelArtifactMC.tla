--------------------------- MODULE ModelArtifactMC ---------------------------
(* An artifact of two shards and two tensors: one lies across a boundary   *)
(* of chunks, the other is a whole shard.                                  *)
EXTENDS ModelArtifact

MCSizes == <<4, 1>>
MCPatch == << [shard |-> 1, first |-> 2, last |-> 3],
              [shard |-> 2, first |-> 1, last |-> 1] >>
=============================================================================
