--------------------------- MODULE SessionsProofs ---------------------------
(***************************************************************************)
(* A get that no put disturbs is whole, for any number of clients, any     *)
(* versions and any limit of children.                                     *)
(***************************************************************************)
EXTENDS Sessions, TLAPS

Versions == Clients \cup {First}
Chunks   == (Versions \cup {"hole"}) \X Nat
Before   == {"away", "queued", "refused", "socket", "bind", "command"}

Typed ==
    /\ pc \in [Clients -> Before \cup {"read", "write", "close", "zombie"}]
    /\ file \in Seq(Chunks)
    /\ at \in [Clients -> Nat] /\ st_size \in [Clients -> Nat]
    /\ got \in [Clients -> Seq(Chunks)]
    /\ base = [d \in Clients |-> base[d]]
    /\ intact \in BOOLEAN

(* A child starts at the first chunk, and only getters read.               *)
InRole ==
    \A c \in Clients :
        /\ pc[c] \in Before => at[c] = 0 /\ got[c] = <<>>
        /\ pc[c] = "read" => c \in Getters
        /\ pc[c] = "write" => c \notin Getters

(* While the name stands for one version, it is whole if nobody writes it  *)
(* and otherwise what its one writer has written.                          *)
OneVersion ==
    intact =>
        /\ Storing = {} => \E v \in Versions : file = Version(v)
        /\ \A c \in Storing :
              /\ Storing = {c} /\ at[c] < ChunksOf[c]
              /\ file = [k \in 1..at[c] |-> Chunk(c, k)]

(* A child whose get is still undisturbed has the start of what it found,  *)
(* which is still there.                                                   *)
Promised ==
    \A c \in Getters :
        pc[c] = "read" /\ base[c] # "none" =>
            /\ Storing = {} /\ base[c] \in Versions
            /\ file = Version(base[c])
            /\ st_size[c] = Len(file) /\ at[c] < Len(file)
            /\ got[c] = [k \in 1..at[c] |-> file[k]]

DirectoryInv == Typed /\ InRole /\ OneVersion /\ Promised /\ UndisturbedGetWhole

-----------------------------------------------------------------------------
(* A version is a sequence of chunks, the first of which names it.         *)
LEMMA VersionType ==
    ASSUME NEW v \in Versions
    PROVE  /\ ChunksOf[v] \in Nat \ {0}
           /\ Version(v) \in Seq(Chunks) /\ Len(Version(v)) = ChunksOf[v]
           /\ Version(v)[1][1] = v /\ Version(v) # <<>>
  <1>1. ChunksOf[v] \in Nat \ {0}
    BY SessionsAssumption DEF Versions
  <1>2. \A k \in 1..ChunksOf[v] : Chunk(v, k) \in Chunks
    BY <1>1 DEF Chunk, Chunks
  <1>3. Version(v) \in Seq(Chunks) /\ Len(Version(v)) = ChunksOf[v]
    BY <1>1, <1>2 DEF Version
  <1>4. Version(v)[1] = Chunk(v, 1)
    BY <1>1 DEF Version
  <1>5. Chunk(v, 1)[1] = v
    BY DEF Chunk
  <1>6. Version(v) # <<>>
    BY <1>1, <1>3
  <1> QED
    BY <1>1, <1>3, <1>4, <1>5, <1>6

LEMMA Grown ==
    ASSUME NEW S, NEW q \in Seq(S), NEW n \in Nat, n < Len(q)
    PROVE  Append([k \in 1..n |-> q[k]], q[n + 1]) = [k \in 1..(n + 1) |-> q[k]]
  <1> DEFINE a == [k \in 1..n |-> q[k]]
             b == [k \in 1..(n + 1) |-> q[k]]
  <1>1. a \in Seq(S) /\ Len(a) = n /\ b \in Seq(S) /\ Len(b) = n + 1
    OBVIOUS
  <1>2. q[n + 1] \in S
    OBVIOUS
  <1>3. Append(a, q[n + 1]) \in Seq(S) /\ Len(Append(a, q[n + 1])) = n + 1
    BY <1>1, <1>2
  <1>4. \A i \in 1..(n + 1) : Append(a, q[n + 1])[i] = b[i]
    BY <1>1, <1>2
  <1> QED
    BY <1>1, <1>3, <1>4

-----------------------------------------------------------------------------
LEMMA DirectoryInit == Init => DirectoryInv
  <1> SUFFICES ASSUME Init PROVE DirectoryInv
    OBVIOUS
  <1>1. First \in Versions /\ Getters \subseteq Clients
    BY SessionsAssumption DEF Versions
  <1>2. Typed
    BY <1>1, VersionType DEF Init, Typed, Before
  <1>3. InRole /\ Promised /\ UndisturbedGetWhole
    BY <1>1 DEF Init, InRole, Promised, UndisturbedGetWhole, Before
  <1>4. Storing = {}
    BY DEF Init, Storing
  <1>5. OneVersion
    BY <1>1, <1>4 DEF Init, OneVersion
  <1> QED
    BY <1>2, <1>3, <1>5 DEF DirectoryInv

(* Steps that leave the file alone and concern no get or put at work.      *)
LEMMA Aside ==
    ASSUME DirectoryInv, NEW c \in Clients, UNCHANGED fileVars,
           \/ UNCHANGED pc
           \/ /\ pc[c] \in Before /\ \E where \in Before : Goto(c, where)
           \/ pc[c] = "close" /\ Goto(c, "zombie")
    PROVE  DirectoryInv'
  <1> USE DEF DirectoryInv, fileVars
  <1>1. CASE UNCHANGED pc
    BY <1>1, ZenonT(60) DEF Typed, InRole, OneVersion, Promised, UndisturbedGetWhole, Storing
  <1>2. CASE ~UNCHANGED pc
    <2>1. PICK where \in Before \cup {"zombie"} : 
             /\ pc' = [pc EXCEPT ![c] = where]
             /\ \/ pc[c] \in Before /\ where \in Before
                \/ pc[c] = "close" /\ where = "zombie"
      BY <1>2 DEF Goto
    <2>2. Storing' = Storing
      <3>1. \A d \in Clients : pc'[d] = "write" <=> pc[d] = "write"
        BY <2>1 DEF Typed, Before
      <3> QED
        BY <3>1 DEF Storing
    <2>3. Typed'
      BY <2>1 DEF Typed
    <2>4. InRole'
      BY <2>1 DEF InRole, Typed, Before
    <2>5. OneVersion'
      BY <2>2 DEF OneVersion
    <2>6. Promised'
      <3>1. \A d \in Getters : pc'[d] = "read" => pc[d] = "read"
        BY <2>1, SessionsAssumption DEF Typed, Before
      <3> QED
        BY <2>2, <3>1 DEF Promised
    <2>7. UndisturbedGetWhole'
      BY <2>1, SessionsAssumption DEF UndisturbedGetWhole, Typed, Before
    <2> QED
      BY <2>3, <2>4, <2>5, <2>6, <2>7
  <1> QED
    BY <1>1, <1>2

(* do_retr, with one version there and no put at work.                     *)
LEMMA RetrStep ==
    ASSUME DirectoryInv, NEW c \in Clients, Retr(c)
    PROVE  DirectoryInv'
  <1> USE DEF DirectoryInv
  <1>0. Getters \subseteq Clients /\ c \in Getters
    BY SessionsAssumption DEF Retr
  <1>1. /\ pc[c] = "command" /\ at[c] = 0 /\ got[c] = <<>>
        /\ pc' = [pc EXCEPT ![c] = IF file = <<>> THEN "close" ELSE "read"]
        /\ st_size' = [st_size EXCEPT ![c] = Len(file)]
        /\ base' = [base EXCEPT ![c] = IF intact /\ Storing = {} THEN file[1][1] ELSE "none"]
        /\ UNCHANGED <<file, at, got, intact>>
    BY DEF Retr, Goto, InRole, Before
  <1>2. Typed'
    <2>1. file \in Seq(Chunks) /\ Len(file) \in Nat
      BY DEF Typed
    <2>2. base' = [d \in Clients |-> base'[d]]
      BY <1>1 DEF Typed
    <2>3. pc' \in [Clients -> Before \cup {"read", "write", "close", "zombie"}]
      BY <1>1 DEF Typed
    <2>4. st_size' \in [Clients -> Nat]
      BY <1>1, <2>1 DEF Typed
    <2> QED
      BY <1>1, <2>1, <2>2, <2>3, <2>4 DEF Typed
  <1>3. InRole'
    BY <1>0, <1>1 DEF InRole, Typed, Before
  <1>4. Storing' = Storing
    <2>1. \A d \in Clients : pc'[d] = "write" <=> pc[d] = "write"
      BY <1>1 DEF Typed
    <2> QED
      BY <2>1 DEF Storing
  <1>5. OneVersion'
    BY <1>1, <1>4 DEF OneVersion
  <1>6. Promised'
    <2> SUFFICES ASSUME NEW d \in Getters, pc'[d] = "read", base'[d] # "none"
                 PROVE  /\ Storing = {} /\ base'[d] \in Versions
                        /\ file = Version(base'[d])
                        /\ st_size'[d] = Len(file) /\ at[d] < Len(file)
                        /\ got[d] = [k \in 1..at[d] |-> file[k]]
      BY <1>1, <1>4 DEF Promised
    <2>1. CASE d # c
      BY <1>0, <1>1, <2>1 DEF Promised, Typed
    <2>2. CASE d = c
      <3>1. file # <<>> /\ intact /\ Storing = {} /\ base'[c] = file[1][1]
            /\ st_size'[c] = Len(file)
        BY <1>1, <2>2 DEF Typed
      <3>2. PICK v \in Versions : file = Version(v)
        BY <3>1 DEF OneVersion
      <3>3. base'[c] = v /\ Len(file) \in Nat \ {0}
        BY <3>1, <3>2, VersionType
      <3>4. got[c] = [k \in 1..at[c] |-> file[k]]
        BY <1>1
      <3> QED
        BY <1>1, <2>2, <3>1, <3>2, <3>3, <3>4
    <2> QED
      BY <2>1, <2>2
  <1>7. UndisturbedGetWhole'
    BY <1>0, <1>1 DEF UndisturbedGetWhole, Typed
  <1> QED
    BY <1>2, <1>3, <1>5, <1>6, <1>7

LEMMA ReadStep ==
    ASSUME DirectoryInv, NEW c \in Clients, Read(c)
    PROVE  DirectoryInv'
  <1> USE DEF DirectoryInv
  <1>0. Getters \subseteq Clients /\ c \in Getters
    BY SessionsAssumption DEF Read, InRole
  <1>1. /\ pc[c] = "read" /\ UNCHANGED <<file, st_size, base, intact>>
        /\ \E where \in {"read", "close"} : pc' = [pc EXCEPT ![c] = where]
    BY DEF Read, Goto
  <1>2. \/ /\ at[c] < Len(file) /\ at' = [at EXCEPT ![c] = @ + 1]
           /\ got' = [got EXCEPT ![c] = Append(@, file[at[c] + 1])]
           /\ pc' = [pc EXCEPT ![c] = IF at[c] + 1 = st_size[c] THEN "close" ELSE "read"]
        \/ /\ ~(at[c] < Len(file)) /\ UNCHANGED at
           /\ got' = [got EXCEPT ![c] = <<>>] /\ pc' = [pc EXCEPT ![c] = "close"]
    BY DEF Read, Goto
  <1>3. Typed'
    <2>1. pc' \in [Clients -> Before \cup {"read", "write", "close", "zombie"}]
      BY <1>1 DEF Typed
    <2>2. at[c] \in Nat /\ got[c] \in Seq(Chunks) /\ file \in Seq(Chunks) /\ Len(file) \in Nat
      BY DEF Typed
    <2>3. at[c] < Len(file) => Append(got[c], file[at[c] + 1]) \in Seq(Chunks)
      BY <2>2
    <2>4. got' \in [Clients -> Seq(Chunks)]
      <3>1. got \in [Clients -> Seq(Chunks)] /\ <<>> \in Seq(Chunks)
        BY DEF Typed
      <3>2. \E q \in Seq(Chunks) : got' = [got EXCEPT ![c] = q]
        BY <1>2, <2>3, <3>1
      <3> QED
        BY <3>1, <3>2
    <2>5. at' \in [Clients -> Nat]
      BY <1>2 DEF Typed
    <2> QED
      BY <1>1, <2>1, <2>4, <2>5 DEF Typed
  <1>4. InRole'
    BY <1>0, <1>1, <1>2 DEF InRole, Typed, Before
  <1>5. Storing' = Storing
    <2>1. \A d \in Clients : pc'[d] = "write" <=> pc[d] = "write"
      BY <1>1 DEF Typed
    <2> QED
      BY <2>1 DEF Storing
  <1>6. \A d \in Clients \ {c} : pc'[d] = pc[d] /\ at'[d] = at[d] /\ got'[d] = got[d]
    BY <1>1, <1>2 DEF Typed
  <1>7. OneVersion'
    <2>1. c \notin Storing /\ Storing \subseteq Clients
      BY <1>1 DEF Storing
    <2> QED
      BY <1>1, <1>5, <1>6, <2>1 DEF OneVersion
  <1>8. base[c] # "none" =>
          /\ pc'[c] = "read" => at'[c] < Len(file)
          /\ got'[c] = [k \in 1..at'[c] |-> file[k]]
          /\ pc'[c] = "close" => got'[c] = Version(base[c])
    <2> SUFFICES ASSUME base[c] # "none"
                 PROVE  /\ pc'[c] = "read" => at'[c] < Len(file)
                        /\ got'[c] = [k \in 1..at'[c] |-> file[k]]
                        /\ pc'[c] = "close" => got'[c] = Version(base[c])
      OBVIOUS
    <2>1. /\ file = Version(base[c]) /\ st_size[c] = Len(file) /\ at[c] < Len(file)
          /\ got[c] = [k \in 1..at[c] |-> file[k]]
      BY <1>0, <1>1 DEF Promised
    <2>2. /\ file \in Seq(Chunks) /\ at[c] \in Nat /\ Len(file) \in Nat
      BY DEF Typed
    <2>3. /\ at'[c] = at[c] + 1 /\ got'[c] = Append(got[c], file[at[c] + 1])
          /\ pc'[c] = IF at[c] + 1 = Len(file) THEN "close" ELSE "read"
      BY <1>2, <2>1 DEF Typed
    <2>4. got'[c] = [k \in 1..at'[c] |-> file[k]]
      BY <2>1, <2>2, <2>3, Grown
    <2>5. at'[c] = Len(file) => got'[c] = file
      BY <2>2, <2>4
    <2>6. pc'[c] = "read" => at'[c] < Len(file)
      BY <2>1, <2>2, <2>3
    <2> QED
      BY <2>1, <2>3, <2>4, <2>5, <2>6
  <1>9. Promised'
    BY <1>0, <1>1, <1>5, <1>6, <1>8 DEF Promised
  <1>10. UndisturbedGetWhole'
    BY <1>0, <1>1, <1>2, <1>6, <1>8 DEF UndisturbedGetWhole, Typed
  <1> QED
    BY <1>3, <1>4, <1>7, <1>9, <1>10

(* do_stor: from here on nobody at work is promised a version.             *)
LEMMA StorStep ==
    ASSUME DirectoryInv, NEW c \in Clients, Stor(c)
    PROVE  DirectoryInv'
  <1> USE DEF DirectoryInv
  <1>0. Getters \subseteq Clients /\ c \notin Getters
    BY SessionsAssumption DEF Stor
  <1>1. /\ pc[c] = "command" /\ at[c] = 0 /\ pc' = [pc EXCEPT ![c] = "write"]
        /\ file' = <<>> /\ intact' = (Storing = {})
        /\ base' = [d \in Clients |-> Disturbed(d)]
        /\ UNCHANGED <<at, st_size, got>>
    BY DEF Stor, Goto, InRole, Before
  <1>2. Typed'
    BY <1>1 DEF Typed
  <1>3. InRole'
    BY <1>0, <1>1 DEF InRole, Typed, Before
  <1>4. \A d \in Getters : base'[d] = IF pc[d] = "read" THEN "none" ELSE base[d]
    BY <1>0, <1>1 DEF Disturbed, Reading
  <1>5. Storing' = Storing \cup {c}
    BY <1>1 DEF Storing, Typed
  <1>6. OneVersion'
    <2> SUFFICES ASSUME Storing = {} PROVE OneVersion'
      BY <1>1 DEF OneVersion
    <2>1. ChunksOf[c] \in Nat \ {0}
      BY VersionType DEF Versions
    <2>2. file' = [k \in 1..at'[c] |-> Chunk(c, k)]
      BY <1>1
    <2> QED
      BY <1>1, <1>5, <2>1, <2>2 DEF OneVersion
  <1>7. Promised'
    BY <1>0, <1>1, <1>4 DEF Promised, Typed
  <1>8. UndisturbedGetWhole'
    BY <1>0, <1>1, <1>4 DEF UndisturbedGetWhole, Typed
  <1> QED
    BY <1>2, <1>3, <1>6, <1>7, <1>8

LEMMA WriteStep ==
    ASSUME DirectoryInv, NEW c \in Clients, Write(c)
    PROVE  DirectoryInv'
  <1> USE DEF DirectoryInv
  <1> DEFINE k == at[c] + 1
             n == IF k > Len(file) THEN k ELSE Len(file)
             written == [i \in 1..n |-> IF i = k THEN Chunk(c, k)
                                       ELSE IF i <= Len(file) THEN file[i] ELSE Hole]
  <1>0. Getters \subseteq Clients /\ c \notin Getters
    BY SessionsAssumption DEF Write, InRole
  <1>1. /\ pc[c] = "write" /\ c \in Storing /\ at[c] \in Nat
        /\ ChunksOf[c] \in Nat \ {0} /\ c \in Versions
        /\ file \in Seq(Chunks) /\ Len(file) \in Nat
    BY VersionType DEF Write, Storing, Typed, Versions
  <1>2. /\ file' = written /\ at' = [at EXCEPT ![c] = k]
        /\ pc' = [pc EXCEPT ![c] = IF k = ChunksOf[c] THEN "close" ELSE "write"]
        /\ UNCHANGED <<st_size, got, base, intact>>
    BY DEF Write, Goto
  <1>3. written \in Seq(Chunks)
    <2>1. n \in Nat /\ k \in Nat
      BY <1>1
    <2>2. Chunk(c, k) \in Chunks /\ Hole \in Chunks
      BY <1>1, <2>1 DEF Chunk, Hole, Chunks
    <2>3. \A i \in 1..n : i <= Len(file) => file[i] \in Chunks
      BY <1>1, <2>1
    <2> HIDE DEF n, k
    <2> QED
      BY <2>1, <2>2, <2>3
  <1>4. Typed'
    <2>1. pc' \in [Clients -> Before \cup {"read", "write", "close", "zombie"}]
      BY <1>2 DEF Typed
    <2>2. at' \in [Clients -> Nat]
      BY <1>1, <1>2 DEF Typed
    <2> QED
      BY <1>2, <1>3, <2>1, <2>2 DEF Typed
  <1>5. \A d \in Clients \ {c} : pc'[d] = pc[d] /\ at'[d] = at[d]
    BY <1>2 DEF Typed
  <1>6. pc'[c] \in {"write", "close"} /\ (pc'[c] = "close" <=> k = ChunksOf[c])
    BY <1>2 DEF Typed
  <1>7. InRole'
    BY <1>0, <1>2, <1>5, <1>6 DEF InRole, Before
  <1>8. Storing' = IF k = ChunksOf[c] THEN Storing \ {c} ELSE Storing
    BY <1>1, <1>5, <1>6 DEF Storing
  <1>9. OneVersion'
    <2> SUFFICES ASSUME intact PROVE OneVersion'
      BY <1>2 DEF OneVersion
    <2>1. /\ Storing = {c} /\ at[c] < ChunksOf[c]
          /\ file = [i \in 1..at[c] |-> Chunk(c, i)]
      BY <1>1 DEF OneVersion
    <2>2. Len(file) = at[c]
      BY <1>1, <2>1
    <2>3. written = [i \in 1..k |-> Chunk(c, i)]
      <3>1. n = k
        BY <1>1, <2>2
      <3>2. \A i \in 1..k : i # k => i <= Len(file) /\ file[i] = Chunk(c, i)
        BY <1>1, <2>1, <2>2
      <3> HIDE DEF n, k
      <3> QED
        BY <3>1, <3>2
    <2>4. CASE k = ChunksOf[c]
      <3>1. Storing' = {} /\ file' = Version(c)
        BY <1>2, <1>8, <2>1, <2>3, <2>4 DEF Version
      <3> QED
        BY <1>1, <3>1 DEF OneVersion
    <2>5. CASE k # ChunksOf[c]
      <3>1. Storing' = {c} /\ at'[c] = k /\ k < ChunksOf[c]
        BY <1>1, <1>2, <1>8, <2>1, <2>5 DEF Typed
      <3> QED
        BY <1>2, <2>3, <3>1 DEF OneVersion
    <2> QED
      BY <2>4, <2>5
  <1>10. Promised'
    <2>1. \A d \in Getters : pc[d] = "read" => base[d] = "none"
      BY <1>1 DEF Promised
    <2> QED
      BY <1>0, <1>2, <1>5, <2>1 DEF Promised
  <1>11. UndisturbedGetWhole'
    BY <1>0, <1>2, <1>5 DEF UndisturbedGetWhole
  <1> QED
    BY <1>4, <1>7, <1>9, <1>10, <1>11

LEMMA StorFailsStep ==
    ASSUME DirectoryInv, NEW c \in Clients, StorFails(c)
    PROVE  DirectoryInv'
  <1> USE DEF DirectoryInv
  <1>0. Getters \subseteq Clients /\ c \notin Getters /\ c \in Storing
    BY SessionsAssumption DEF StorFails, InRole, Storing
  <1>1. /\ pc[c] = "write" /\ ~intact' /\ pc' = [pc EXCEPT ![c] = "close"]
        /\ intact' = FALSE /\ UNCHANGED <<file, at, st_size, got, base>>
    BY DEF StorFails, Goto
  <1>2. pc'[c] = "close" /\ \A d \in Clients \ {c} : pc'[d] = pc[d]
    BY <1>1 DEF Typed
  <1>3. Typed'
    BY <1>1 DEF Typed
  <1>4. InRole'
    BY <1>1, <1>2 DEF InRole, Before
  <1>5. OneVersion'
    BY <1>1 DEF OneVersion
  <1>6. Promised'
    <2>1. \A d \in Getters : pc[d] = "read" => base[d] = "none"
      BY <1>0 DEF Promised
    <2> QED
      BY <1>0, <1>1, <1>2, <2>1 DEF Promised
  <1>7. UndisturbedGetWhole'
    BY <1>0, <1>1, <1>2 DEF UndisturbedGetWhole
  <1> QED
    BY <1>3, <1>4, <1>5, <1>6, <1>7

LEMMA DirectoryStep == DirectoryInv /\ [Next]_vars => DirectoryInv'
  <1> SUFFICES ASSUME DirectoryInv, [Next]_vars PROVE DirectoryInv'
    OBVIOUS
  <1>1. CASE UNCHANGED vars
    BY <1>1 DEF vars, fileVars, DirectoryInv, Typed, InRole, OneVersion, Promised,
                UndisturbedGetWhole, Storing
  <1>2. ASSUME NEW c \in Clients, Connect(c) \/ Accept(c) \/ Socket(c) \/ Bind(c)
        PROVE  DirectoryInv'
    <2>1. UNCHANGED fileVars
      BY <1>2 DEF Connect, Accept, Socket, Bind
    <2>2. \/ UNCHANGED pc
          \/ pc[c] \in Before /\ \E where \in Before : Goto(c, where)
      <3>1. CASE Connect(c)
        BY <3>1 DEF Connect, Before
      <3>2. CASE Accept(c)
        BY <3>2 DEF Accept, Before
      <3>3. CASE Socket(c)
        BY <3>3 DEF Socket, Before
      <3>4. CASE Bind(c)
        BY <3>4 DEF Bind, Before
      <3> QED
        BY <1>2, <3>1, <3>2, <3>3, <3>4
    <2> QED
      BY <2>1, <2>2, Aside
  <1>3. ASSUME NEW c \in Clients, Close(c) \/ PortExpires(c)
        PROVE  DirectoryInv'
    <2>1. UNCHANGED fileVars
      BY <1>3 DEF Close, PortExpires
    <2>2. CASE Close(c)
      <3>1. pc[c] = "close" /\ Goto(c, "zombie")
        BY <2>2 DEF Close
      <3> QED
        BY <2>1, <3>1, Aside
    <2>3. CASE PortExpires(c)
      <3>1. UNCHANGED pc
        BY <2>3 DEF PortExpires
      <3> QED
        BY <2>1, <3>1, Aside
    <2> QED
      BY <1>3, <2>2, <2>3
  <1> QED
    BY <1>1, <1>2, <1>3, RetrStep, ReadStep, StorStep, WriteStep, StorFailsStep
    DEF Next, Child

(* What the name stands for, who is at work on it and what a get was       *)
(* promised stay consistent however the children of do_retr and do_stor    *)
(* interleave on the one file of their common directory.                   *)
THEOREM DirectoryHolds == Spec => []DirectoryInv
  BY DirectoryInit, DirectoryStep, PTL DEF Spec

(* A get that no put disturbed sends the whole of the version it found     *)
(* (comp_file, called by do_retr), for any number of clients.              *)
THEOREM GetsWhole == Spec => []UndisturbedGetWhole
  <1>1. DirectoryInv => UndisturbedGetWhole
    BY DEF DirectoryInv
  <1> QED
    BY <1>1, DirectoryHolds, PTL
=============================================================================
