---------------------------- MODULE MCChunkPool ----------------------------
(* Instances of ChunkPool for TLC: chunks of 3 bytes, 3 threads, every     *)
(* file size from empty to past three batches, with every step that can    *)
(* fail failing or with none.                                              *)
EXTENDS ChunkPool
MCSizes == 0..29
NoFaults == {{}}
AllFaults == {{}, FaultKinds}
=============================================================================
