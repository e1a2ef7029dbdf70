------------------------------ MODULE Sessions ------------------------------
(***************************************************************************)
(* The server as a whole (src/src/ecftpserver.c:341-501): one process      *)
(* accepts clients and forks a child for each; the children share a        *)
(* directory and the ports below the listening one.  Each client here      *)
(* gets or puts one file, and they all use the same name.  What one child  *)
(* and its client say to each other is Transfer's; how a file is taken     *)
(* apart and put together is Pipeline's.  Here a stored file is the        *)
(* sequence of its chunks, read and written one at a time.                 *)
(***************************************************************************)
EXTENDS Integers, Sequences, FiniteSets

CONSTANTS
    Clients,
    Getters,    \* those that get the file; the others put theirs
    ChunksOf,   \* how many chunks each version of the file has
    First,      \* the version that is there before
    MaxProcs,   \* how many children the system may let the server have
    port,       \* the listening port
    Ports,      \* a 16-bit port number is below this
    Denied,     \* ports the server has no right to
    Ephemeral   \* ports the system chooses from

ASSUME SessionsAssumption ==
    /\ Getters \subseteq Clients /\ First \notin Clients
    /\ ChunksOf \in [Clients \cup {First} -> Nat \ {0}]
    /\ MaxProcs \subseteq Nat /\ Ports \in Nat \ {0}
    /\ port \in 1..(Ports - 1) \ Denied
    /\ Ephemeral \subseteq 1..(Ports - 1) \ (Denied \cup {port})

VARIABLES
    pc,           \* where each client's session is
    max_procs,    \* what of MaxProcs it is
    server_port,  \* the child's own copy, counted down by the bind loop
    sin_port,     \* the port the child tries, then the one it has
    held,         \* ports that cannot be bound: in use, or not long ago
    file,         \* the chunks under the name
    at,           \* how many chunks the child has read or written
    st_size,      \* how many chunks the child was told there are
    got,          \* the chunks a child has read
    base,         \* the version a get found (history)
    intact        \* whether what is under the name is one version (history)

bindVars == <<server_port, sin_port, held>>
fileVars == <<file, at, st_size, got, base, intact>>
vars == <<pc, max_procs, bindVars, fileVars>>

Chunk(v, k) == <<v, k>>
Hole == <<"hole", 0>>
Version(v) == [k \in 1..ChunksOf[v] |-> Chunk(v, k)]

Storing == {c \in Clients : pc[c] = "write"}
Reading == {c \in Clients : pc[c] = "read"}

(* A child that exited stays as a zombie: it is never waited for.          *)
Children == {c \in Clients : pc[c] \notin {"away", "queued", "refused"}}

Init ==
    /\ pc = [c \in Clients |-> "away"]
    /\ max_procs \in MaxProcs
    /\ server_port = [c \in Clients |-> port]
    /\ sin_port = [c \in Clients |-> 0]
    /\ held = {port}
    /\ file = Version(First)
    /\ at = [c \in Clients |-> 0] /\ st_size = at
    /\ got = [c \in Clients |-> <<>>]
    /\ base = [c \in Clients |-> First]
    /\ intact = TRUE

Goto(c, where) == pc' = [pc EXCEPT ![c] = where]

Connect(c) ==
    /\ pc[c] = "away" /\ Goto(c, "queued")
    /\ UNCHANGED <<max_procs, bindVars, fileVars>>

(* Mutant: every client is turned away while another is served.            *)
AcceptOne(c) ==
    /\ pc[c] = "queued"
    /\ Goto(c, IF Children = {} THEN "socket" ELSE "refused")
    /\ UNCHANGED <<max_procs, bindVars, fileVars>>

(* The listener accepts and forks; where fork fails it closes the          *)
(* connection and goes on.                                                 *)
Accept(c) ==
    /\ pc[c] = "queued"
    /\ Goto(c, IF Cardinality(Children) < max_procs THEN "socket" ELSE "refused")
    /\ UNCHANGED <<max_procs, bindVars, fileVars>>

(* setup_data_connection starts below the port of the control connection.  *)
Socket(c) ==
    /\ pc[c] = "socket"
    /\ sin_port' = [sin_port EXCEPT ![c] = (server_port[c] - 1) % Ports]
    /\ Goto(c, "bind")
    /\ UNCHANGED <<max_procs, server_port, held, fileVars>>

(* What bind may give for a port: the port itself, or any for port 0.      *)
Bindable(p) == (IF p = 0 THEN Ephemeral ELSE {p}) \ (held \cup Denied)

(* Mutant: the same port is tried again for ever.                          *)
BindSame(c) ==
    /\ pc[c] = "bind"
    /\ \E p \in Bindable(sin_port[c]) :
         /\ sin_port' = [sin_port EXCEPT ![c] = p]
         /\ held' = held \cup {p}
         /\ Goto(c, "command")
    /\ UNCHANGED <<max_procs, server_port, fileVars>>

(* The loop around bind: the first port is tried twice, because the count  *)
(* starts above it.                                                        *)
Bind(c) ==
    /\ pc[c] = "bind"
    /\ \/ \E p \in Bindable(sin_port[c]) :
            /\ sin_port' = [sin_port EXCEPT ![c] = p]
            /\ held' = held \cup {p}
            /\ Goto(c, "command")
            /\ UNCHANGED server_port
       \/ /\ Bindable(sin_port[c]) = {}
          /\ server_port' = [server_port EXCEPT ![c] = @ - 1]
          /\ sin_port' = [sin_port EXCEPT ![c] = (server_port[c] - 1) % Ports]
          /\ UNCHANGED <<pc, held>>
    /\ UNCHANGED <<max_procs, fileVars>>

(* do_retr: comp_file asks for the size of the file, once.                 *)
Retr(c) ==
    /\ pc[c] = "command" /\ c \in Getters
    /\ st_size' = [st_size EXCEPT ![c] = Len(file)]
    /\ base' = [base EXCEPT ![c] = IF intact /\ Storing = {} THEN file[1][1] ELSE "none"]
    /\ Goto(c, IF file = <<>> THEN "close" ELSE "read")
    /\ UNCHANGED <<max_procs, bindVars, file, at, got, intact>>

(* Then its threads read the chunks; a chunk that is no longer there fails *)
(* the whole command.                                                      *)
Read(c) ==
    /\ pc[c] = "read"
    /\ IF at[c] < Len(file)
       THEN /\ got' = [got EXCEPT ![c] = Append(@, file[at[c] + 1])]
            /\ at' = [at EXCEPT ![c] = @ + 1]
            /\ Goto(c, IF at[c] + 1 = st_size[c] THEN "close" ELSE "read")
       ELSE /\ got' = [got EXCEPT ![c] = <<>>]
            /\ Goto(c, "close")
            /\ UNCHANGED at
    /\ UNCHANGED <<max_procs, bindVars, file, st_size, base, intact>>

(* Whoever reads while a file is stored over is not promised a version.    *)
Disturbed(d) == IF d \in Reading THEN "none" ELSE base[d]

(* Mutant: what was there before is written over from the start.           *)
StorNotTruncated(c) ==
    /\ pc[c] = "command" /\ c \notin Getters
    /\ file' = file
    /\ intact' = (Storing = {})
    /\ base' = [d \in Clients |-> Disturbed(d)]
    /\ Goto(c, "write")
    /\ UNCHANGED <<max_procs, bindVars, at, st_size, got>>

(* do_stor: when all has arrived, uncomp_file empties what is there.       *)
Stor(c) ==
    /\ pc[c] = "command" /\ c \notin Getters
    /\ file' = <<>>
    /\ intact' = (Storing = {})
    /\ base' = [d \in Clients |-> Disturbed(d)]
    /\ Goto(c, "write")
    /\ UNCHANGED <<max_procs, bindVars, at, st_size, got>>

(* A chunk is written where this child's own stream stands, be the file    *)
(* shorter by now or longer.                                               *)
Write(c) ==
    /\ pc[c] = "write"
    /\ LET k == at[c] + 1
       IN  /\ file' = [i \in 1..(IF k > Len(file) THEN k ELSE Len(file)) |->
                         IF i = k THEN Chunk(c, k)
                         ELSE IF i <= Len(file) THEN file[i] ELSE Hole]
           /\ at' = [at EXCEPT ![c] = k]
           /\ Goto(c, IF k = ChunksOf[c] THEN "close" ELSE "write")
    /\ UNCHANGED <<max_procs, bindVars, st_size, got, base, intact>>

(* A part is stored at most: a chunk cannot be uncompressed, or the disk   *)
(* is full.                                                                *)
StorFails(c) ==
    /\ pc[c] = "write"
    /\ intact' = FALSE /\ Goto(c, "close")
    /\ UNCHANGED <<max_procs, bindVars, file, at, st_size, got, base>>

(* The end that closes first keeps the port for a while: the server after  *)
(* a get, the client after a put.  Then the client quits.                  *)
Close(c) ==
    /\ pc[c] = "close"
    /\ held' = IF c \in Getters THEN held ELSE held \ {sin_port[c]}
    /\ Goto(c, "zombie")
    /\ UNCHANGED <<max_procs, server_port, sin_port, fileVars>>

PortExpires(c) ==
    /\ pc[c] = "zombie" /\ c \in Getters /\ sin_port[c] \in held
    /\ \A d \in Clients \ {c} : pc[d] \in {"command", "read", "write", "close"} =>
                                    sin_port[d] # sin_port[c]
    /\ held' = held \ {sin_port[c]}
    /\ UNCHANGED <<max_procs, pc, server_port, sin_port, fileVars>>

Child(c) ==
    Socket(c) \/ Bind(c) \/ Retr(c) \/ Read(c) \/ Stor(c) \/ Write(c) \/ StorFails(c) \/ Close(c)

Next == \E c \in Clients : Connect(c) \/ Accept(c) \/ Child(c) \/ PortExpires(c)

Spec == Init /\ [][Next]_vars

(* The listener and the children run; clients come as they please, and how *)
(* long a port is held is not the server's to say.                         *)
FairSpec ==
    /\ Spec
    /\ \A c \in Clients : WF_vars(Accept(c)) /\ WF_vars(Child(c))

-----------------------------------------------------------------------------
(* A get that no put disturbed sends the whole of the version that was     *)
(* there, and nothing of the ones before it, whichever children wrote      *)
(* those and however they interleaved (src/src/comp.c:523, 701-707,        *)
(* src/src/ecftpserver.c:384).                                             *)
UndisturbedGetWhole ==
    \A c \in Getters : pc[c] \in {"close", "zombie"} /\ base[c] # "none" /\ got[c] # <<>> =>
        got[c] = Version(base[c])

(* Every client that connects is served to the end, with a port of its own *)
(* however many are taken, unless the server has had all the children it   *)
(* may have: a port is found on the way down or chosen by the system at 0, *)
(* and only zombies turn a client away (src/src/ecftpserver.c:68-71, 384). *)
Served ==
    \A c \in Clients :
        pc[c] = "queued" ~>
            \/ pc[c] = "zombie"
            \/ pc[c] = "refused" /\ Cardinality(Children) = max_procs
=============================================================================
