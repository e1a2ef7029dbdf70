---------------------------- MODULE MCTransfer ----------------------------
(* Instances of Transfer for TLC: one file name, two contents, streams of  *)
(* two blocks, a key exchange of two rounds.                               *)
EXTENDS TransferInv

CONSTANTS f1, va, vb

MCFiles     == {f1}
MCContents  == {va, vb}
ClientHas   == {[f \in MCFiles |-> va]}
ClientMay   == {[f \in MCFiles |-> v] : v \in {va, None}}
ServerMay   == {[f \in MCFiles |-> v] : v \in {vb, None}}

(* No fault, the ones both programs survive, and the hard ones: every kind *)
(* of fault but one, so that a property that a fault breaks is checked     *)
(* without it.                                                             *)
FaultsNone == {{}}
FaultsHard == {{}, Survivable, FaultKinds \ {"copen"}, FaultKinds \ {"process"}}
=============================================================================
