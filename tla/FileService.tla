---------------------------- MODULE FileService ----------------------------
(***************************************************************************)
(* What ec-ftp promises of the files at its two ends, with every message,  *)
(* key and temporary file abstracted away: a get replaces the client's     *)
(* copy of a file by the server's, a put replaces the server's copy by the *)
(* client's (src/README.md, "Client Interface Commands").  A copy is not   *)
(* replaced at one stroke: it is emptied when it is opened for writing     *)
(* and complete when it is closed.  Only where a program may be killed or  *)
(* fail in its work does a copy stay incomplete.  Transfer refines this    *)
(* module.                                                                 *)
(***************************************************************************)
CONSTANTS
    Files,       \* the file names in use
    None,        \* the value of a name that no file has
    Spoiled      \* a copy that was opened for writing and is not complete

VARIABLES
    cfile,       \* the client's working directory: name -> content
    sfile,       \* the server's working directory
    cwrites,     \* the file a get has opened for writing, if any
    swrites,     \* the file a put has
    unreliable   \* TRUE: a transfer may break off, or start on part of a file

vars == <<cfile, sfile, cwrites, swrites, unreliable>>

(* One copy is written at a time, so neither is read while it is written.  *)
NoneOpen == cwrites = {} /\ swrites = {}

BeginGet(f) ==
    /\ NoneOpen /\ (sfile[f] # None \/ unreliable)
    /\ cwrites' = {f} /\ cfile' = [cfile EXCEPT ![f] = Spoiled]
    /\ UNCHANGED <<sfile, swrites, unreliable>>

BeginPut(f) ==
    /\ NoneOpen /\ (cfile[f] # None \/ unreliable)
    /\ swrites' = {f} /\ sfile' = [sfile EXCEPT ![f] = Spoiled]
    /\ UNCHANGED <<cfile, cwrites, unreliable>>

EndGet(f) ==
    /\ cwrites = {f} /\ sfile[f] # None
    /\ cwrites' = {} /\ cfile' = [cfile EXCEPT ![f] = sfile[f]]
    /\ UNCHANGED <<sfile, swrites, unreliable>>

EndPut(f) ==
    /\ swrites = {f} /\ cfile[f] # None
    /\ swrites' = {} /\ sfile' = [sfile EXCEPT ![f] = cfile[f]]
    /\ UNCHANGED <<cfile, cwrites, unreliable>>

BreakGet(f) ==
    /\ unreliable /\ cwrites = {f}
    /\ cwrites' = {}
    /\ UNCHANGED <<cfile, sfile, swrites, unreliable>>

BreakPut(f) ==
    /\ unreliable /\ swrites = {f}
    /\ swrites' = {}
    /\ UNCHANGED <<cfile, sfile, cwrites, unreliable>>

Next == \E f \in Files :
            \/ BeginGet(f) \/ EndGet(f) \/ BreakGet(f)
            \/ BeginPut(f) \/ EndPut(f) \/ BreakPut(f)

(* Every starting content is allowed, but no copy starts open.             *)
Spec == NoneOpen /\ [][Next]_vars
=============================================================================
