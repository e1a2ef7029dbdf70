----------------------------- MODULE MCPipeline -----------------------------
(* Instances of Pipeline for TLC: sizes of one byte to four chunks, blocks *)
(* one byte shorter than an EC header as they are in the code.             *)
EXTENDS Pipeline
MCSizes == {1, 3, 4, 7, 8, 11, 14}
MCGarbledSizes == {0, 1, 5, 99}
=============================================================================
