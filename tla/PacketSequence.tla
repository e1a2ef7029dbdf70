--------------------------- MODULE PacketSequence ---------------------------
(***************************************************************************)
(* What the parser of a chunk promises to the coder of its packets: from   *)
(* the second byte on, one true packet after the other until the data is   *)
(* used up, each at the place, in the state and with the last distances    *)
(* that the packets before it have left, since the decoder knows no other. *)
(***************************************************************************)
EXTENDS LzmaPackets

VARIABLES data, pos, state, reps

Init == pos = 0 /\ state = 0 /\ reps = FirstReps /\ data # <<>>

FirstByte == pos = 0 /\ pos' = 1 /\ UNCHANGED <<data, state, reps>>

SendPacket ==
    /\ pos \in 1 .. Len(data) - 1
    /\ \E p \in TruePackets(data, pos, reps) :
         /\ pos' = pos + p.len
         /\ state' = NextState(state, p)
         /\ reps' = NextReps(reps, p)
    /\ UNCHANGED data

Spec == Init /\ [][FirstByte \/ SendPacket]_<<data, pos, state, reps>>
=============================================================================
