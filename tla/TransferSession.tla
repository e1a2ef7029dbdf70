-------------------------- MODULE TransferSession --------------------------
(***************************************************************************)
(* Type correctness of Transfer, for every set of files and contents, every *)
(* length of a stream, of the key exchange and of the session, and every   *)
(* set of faults; what each action does to the lengths, keys and stages    *)
(* that matter; and how the two programs of a session keep step: LinkInv   *)
(* and OneReply of TransferInv are inductive, and so the keys of both ends *)
(* agree, nothing is merged on the unframed control connection, and every  *)
(* reply is the answer to the command it is taken for.                     *)
(***************************************************************************)
EXTENDS TransferInv, TLAPS, SequenceTheorems

(* Sequences.                                                              *)
LEMMA AppendFacts ==
    ASSUME NEW S, NEW q \in Seq(S), NEW x \in S
    PROVE  /\ Append(q, x) \in Seq(S) /\ Append(q, x) # <<>>
           /\ Len(Append(q, x)) = Len(q) + 1 /\ Len(q) \in Nat
           /\ \A i \in 1..Len(Append(q, x)) :
                 Append(q, x)[i] = IF i <= Len(q) THEN q[i] ELSE x
           /\ Head(Append(q, x)) = IF q = <<>> THEN x ELSE Head(q)
  OBVIOUS

LEMMA EmptyFacts ==
    ASSUME NEW S, NEW q \in Seq(S)
    PROVE  (q = <<>> <=> Len(q) = 0) /\ Len(q) \in Nat
  BY EmptySeq

LEMMA TailFacts ==
    ASSUME NEW S, NEW q \in Seq(S), q # <<>>
    PROVE  /\ Tail(q) \in Seq(S) /\ Head(q) \in S
           /\ Len(q) \in Nat \ {0} /\ Len(Tail(q)) = Len(q) - 1
           /\ \A i \in 1..Len(Tail(q)) : Tail(q)[i] = q[i + 1]
           /\ Head(q) = q[1] /\ 1 \in 1..Len(q)
           /\ Tail(q) = <<>> <=> Len(q) = 1
  <1>1. /\ Tail(q) \in Seq(S) /\ Head(q) \in S
        /\ Len(q) \in Nat \ {0} /\ Len(Tail(q)) = Len(q) - 1
        /\ \A i \in 1..Len(Tail(q)) : Tail(q)[i] = q[i + 1]
        /\ Head(q) = q[1] /\ 1 \in 1..Len(q)
    OBVIOUS
  <1>2. Tail(q) = <<>> <=> Len(Tail(q)) = 0
    BY <1>1, EmptyFacts
  <1> QED
    BY <1>1, <1>2

LEMMA DropFacts ==
    ASSUME NEW S, NEW q \in Seq(S), NEW n \in 0..Len(q)
    PROVE  /\ SubSeq(q, n + 1, Len(q)) \in Seq(S)
           /\ Len(q) \in Nat /\ Len(SubSeq(q, n + 1, Len(q))) = Len(q) - n
           /\ \A i \in 1..Len(SubSeq(q, n + 1, Len(q))) : SubSeq(q, n + 1, Len(q))[i] = q[n + i]
  OBVIOUS

(* Constants and messages.                                                 *)
LEMMA VerbFacts ==
    /\ Ops = {"ls", "get", "put", "skip"}
    /\ Verb["ls"] = "LIST" /\ Verb["get"] = "RETR" /\ Verb["put"] = "STOR"
    /\ Verb["skip"] = "SKIP"
    /\ Verbs = {"LIST", "RETR", "STOR", "SKIP"}
  BY DEF Verb, Ops, Verbs

LEMMA CommandType ==
    ASSUME NEW verb \in Verbs \cup {"PORT", "QUIT"}, NEW file \in Names, NEW id \in Ids
    PROVE  /\ Command(verb, file, id) \in Commands
           /\ Command(verb, file, id).verb = verb
           /\ Command(verb, file, id).file = file
           /\ Command(verb, file, id).id = id
  BY DEF Command, Commands

LEMMA ReplyType ==
    ASSUME NEW code \in Codes, NEW id \in Ids
    PROVE  /\ Reply(code, id) \in Replies
           /\ Reply(code, id).code = code /\ Reply(code, id).id = id
  BY DEF Reply, Replies

LEMMA NoReplyType == NoReply \in Replies /\ NoReply.code = 0 /\ NoReply.id = 0
  BY ReplyType, TransferAssumption DEF NoReply, Codes, Ids

LEMMA HalfType ==
    ASSUME NEW side \in {"client", "server"}, NEW id \in Ids, NEW round \in Nat
    PROVE  Half(side, id, round) \in Halves /\ Half(side, id, round) \in Messages
  BY DEF Half, Halves, Messages

LEMMA BlockType ==
    ASSUME NEW v \in Values \cup {"listing"}, NEW key \in Keys, NEW n \in Nat
    PROVE  [of |-> v, key |-> key, n |-> n] \in Messages
  BY DEF FileBlocks, Messages

LEMMA StreamType ==
    ASSUME NEW v \in Values, NEW key \in Keys
    PROVE  /\ Stream(v, key) \in Seq(Messages)
           /\ Len(Stream(v, key)) = Blocks
           /\ \A n \in 1..Blocks : Stream(v, key)[n] = [of |-> v, key |-> key, n |-> n]
  <1>1. Blocks \in Nat
    BY TransferAssumption
  <1>2. \A n \in 1..Blocks : [of |-> v, key |-> key, n |-> n] \in Messages
    BY <1>1, BlockType
  <1> QED
    BY <1>1, <1>2 DEF Stream

LEMMA ListingType ==
    ASSUME NEW n \in 0..Blocks
    PROVE  Listing(n) \in Seq(Messages)
  <1>1. n \in Nat
    BY TransferAssumption
  <1>2. <<>> \in Keys
    BY DEF Keys
  <1>3. \A i \in 1..n : [of |-> "listing", key |-> <<>>, n |-> i] \in Messages
    BY <1>1, <1>2, BlockType
  <1> QED
    BY <1>1, <1>3 DEF Listing

LEMMA KeyType ==
    ASSUME NEW key \in Keys, NEW ka \in Halves \cup {None}, NEW kb \in Halves \cup {None}
    PROVE  /\ Append(key, <<ka, kb>>) \in Keys
           /\ Len(Append(key, <<ka, kb>>)) = Len(key) + 1
           /\ Len(key) \in Nat
  <1>1. <<ka, kb>> \in (Halves \cup {None}) \X (Halves \cup {None})
    OBVIOUS
  <1> QED
    BY <1>1, AppendProperties, LenProperties DEF Keys

LEMMA HalfReadType ==
    ASSUME NEW queue \in Seq(Messages), NEW key \in Keys, NEW i \in {1, 2}
    PROVE  HalfRead(queue, key, i) \in Halves \cup {None}
  <1>1. ASSUME key # <<>> PROVE key[Len(key)][i] \in Halves \cup {None}
    <2>1. key[Len(key)] \in (Halves \cup {None}) \X (Halves \cup {None})
      BY <1>1 DEF Keys
    <2> QED
      BY <2>1
  <1> QED
    BY <1>1 DEF HalfRead

LEMMA TempType ==
    ASSUME NEW temps \in Temps, NEW kinds \in SUBSET {"enc", "comp"}, NEW id \in Ids
    PROVE  temps \cup Temp(kinds, id) \in Temps /\ temps \ Temp(kinds, id) \in Temps
  BY DEF Temp, Temps

LEMMA PreparedType ==
    ASSUME NEW v, NEW fault, NEW o \in Prepared(v, fault)
    PROVE  /\ o.ok \in BOOLEAN /\ o.left \in SUBSET {"enc", "comp"}
           /\ o.ok => v # None /\ o.left = {"enc"}
  <1>1. CASE o \in {[ok |-> TRUE, left |-> {"enc"}] : x \in {v} \ {None}}
    <2>1. v # None /\ o = [ok |-> TRUE, left |-> {"enc"}]
      BY <1>1
    <2>2. o.ok = TRUE /\ o.left = {"enc"}
      BY <2>1
    <2> QED
      BY <2>1, <2>2
  <1>2. CASE \E l \in {{"comp"}, {"comp", "enc"}} : o = [ok |-> FALSE, left |-> l]
    BY <1>2
  <1> QED
    BY <1>1, <1>2 DEF Prepared

(* A read of the control connection leaves a sequence of replies, and what *)
(* it returns is one.                                                      *)
LEMMA TakeRepliesType ==
    ASSUME s2c \in Seq(Replies), TakeReplies
    PROVE  s2c' \in Seq(Replies) /\ ReplyRead \in Replies
  <1>1. PICK n \in 0..Len(s2c) : s2c' = SubSeq(s2c, n + 1, Len(s2c))
    BY DEF TakeReplies
  <1>2. s2c' \in Seq(Replies)
    BY <1>1
  <1> QED
    BY <1>2, NoReplyType DEF ReplyRead

LEMMA TakeCommandsType ==
    ASSUME c2s \in Seq(Commands), NEW n \in 1..Len(c2s), TakeCommands(n)
    PROVE  c2s' \in Seq(Commands)
  BY DEF TakeCommands

(* What TypeOK says of the client's fields, and of the child's.            *)
LEMMA Fields ==
    ASSUME TypeOK
    PROVE  /\ c \in ClientStates /\ c.pc \in ClientPcs /\ c.op \in Ops /\ c.file \in Names
           /\ c.id \in Ids /\ c.id \in Nat /\ c.key \in Keys /\ c.buf \in Seq(Messages)
           /\ c.reply \in Replies /\ c.temp \in Temps
           /\ s \in ServerStates /\ s.pc \in ServerPcs /\ s.verb \in Verbs /\ s.file \in Names
           /\ s.id \in Ids /\ s.id \in Nat /\ s.key \in Keys /\ s.buf \in Seq(Messages)
           /\ s.temp \in Temps
           /\ c2s \in Seq(Commands) /\ s2c \in Seq(Replies)
           /\ dc2s \in Seq(Messages) /\ ds2c \in Seq(Messages)
           /\ pending \in BOOLEAN /\ faults \in SUBSET FaultKinds
           /\ cfile \in Stores /\ sfile \in Stores
  BY TransferAssumption DEF TypeOK, ClientStates, ServerStates, Ids

LEMMA Locals ==
    ASSUME TypeOK
    PROVE  c \in ClientStates /\ s \in ServerStates /\ c.id \in Nat /\ s.id \in Nat
  BY Fields

(* The halves of a key that the two programs draw and those they read.     *)
LEMMA HalvesTyped ==
    ASSUME TypeOK
    PROVE  /\ ClientHalf \in Halves /\ ClientHalf \in Messages
           /\ ServerHalf \in Halves /\ ServerHalf \in Messages
           /\ HalfRead(ds2c, c.key, 2) \in Halves \cup {None}
           /\ HalfRead(dc2s, s.key, 1) \in Halves \cup {None}
  <1>1. c.key \in Keys /\ c.id \in Ids /\ Len(c.key) + 1 \in Nat
    BY Fields DEF Keys
  <1>2. s.key \in Keys /\ s.id \in Ids /\ Len(s.key) + 1 \in Nat
    BY Fields DEF Keys
  <1>3. ds2c \in Seq(Messages) /\ dc2s \in Seq(Messages)
    BY Fields
  <1>4. ClientHalf \in Halves /\ ClientHalf \in Messages
    BY <1>1, HalfType DEF ClientHalf
  <1>5. ServerHalf \in Halves /\ ServerHalf \in Messages
    BY <1>2, HalfType DEF ServerHalf
  <1>6. HalfRead(ds2c, c.key, 2) \in Halves \cup {None}
    BY <1>1, <1>3, HalfReadType
  <1>7. HalfRead(dc2s, s.key, 1) \in Halves \cup {None}
    BY <1>2, <1>3, HalfReadType
  <1> QED
    BY <1>4, <1>5, <1>6, <1>7

LEMMA CommandLen == TypeOK => Len(c2s) \in Nat
  BY Fields

LEMMA Lens ==
    ASSUME TypeOK
    PROVE  /\ Len(c2s) \in Nat /\ Len(s2c) \in Nat /\ Len(dc2s) \in Nat /\ Len(ds2c) \in Nat
           /\ Len(c.buf) \in Nat /\ Len(s.buf) \in Nat
           /\ Len(c.key) \in Nat /\ Len(s.key) \in Nat
  BY Fields DEF Keys

(* The three ways the reply is taken in do_ls's loop.                      *)
LEMMA LsControlCases ==
    ASSUME ClientLsControl
    PROVE  LET r  == ReplyRead
               c1 == [c EXCEPT !.reply = r, !.ctlDone = TRUE]
           IN  \/ r.code = 0 /\ c' = Crash(c)
               \/ r.code = 200 /\ ~c.dataDone /\ c' = c1
               \/ /\ r.code # 0 /\ (r.code # 200 \/ c.dataDone)
                  /\ c' = Return(c1, TRUE)
  <1> DEFINE r  == ReplyRead
             c1 == [c EXCEPT !.reply = r, !.ctlDone = TRUE]
  <1>1. ASSUME r.code = 0 PROVE c' = Crash(c)
    BY <1>1 DEF ClientLsControl
  <1>2. ASSUME r.code = 200, ~c.dataDone PROVE c' = c1
    BY <1>2 DEF ClientLsControl
  <1>3. ASSUME r.code # 0, r.code # 200 \/ c.dataDone PROVE c' = Return(c1, TRUE)
    BY <1>3 DEF ClientLsControl
  <1> QED
    BY <1>1, <1>2, <1>3, Zenon

(* ... and in do_put's.                                                    *)
LEMMA PutReplyCases ==
    ASSUME ClientPutReply
    PROVE  LET r  == ReplyRead
               c1 == [c EXCEPT !.reply = r, !.ctlDone = TRUE]
           IN  \/ r.code = 0 /\ c' = Crash(c)
               \/ r.code = 200 /\ ~c.dataDone /\ c' = c1
               \/ /\ r.code # 0 /\ (r.code # 200 \/ c.dataDone)
                  /\ c' = PutReturn(c1)
  <1> DEFINE r  == ReplyRead
             c1 == [c EXCEPT !.reply = r, !.ctlDone = TRUE]
  <1>1. ASSUME r.code = 0 PROVE c' = Crash(c)
    BY <1>1 DEF ClientPutReply
  <1>2. ASSUME r.code = 200, ~c.dataDone PROVE c' = c1
    BY <1>2 DEF ClientPutReply
  <1>3. ASSUME r.code # 0, r.code # 200 \/ c.dataDone PROVE c' = PutReturn(c1)
    BY <1>3 DEF ClientPutReply
  <1> QED
    BY <1>1, <1>2, <1>3, Zenon

(* do_put goes on only with a file that was prepared; preparing it leaves  *)
(* temporary files either way.                                             *)
LEMMA PutPrepareCases ==
    ASSUME ClientPutPrepare
    PROVE  \E left \in SUBSET {"enc", "comp"} :
             LET c1 == [c EXCEPT !.temp = @ \cup Temp(left, c.id)]
             IN  \/ /\ c' = [c1 EXCEPT !.pc = "put_skip"]
                    /\ c2s' = Append(c2s, Command("SKIP", None, c.id))
                 \/ /\ cfile[c.file] # None /\ left = {"enc"}
                    /\ c' = [c1 EXCEPT !.pc = "put_send",
                                       !.buf = Stream(cfile[c.file], c.key)]
                    /\ c2s' = c2s
                 \/ /\ left = {"enc"} /\ "copen" \in faults
                    /\ c' = Return(c1, FALSE)
                    /\ c2s' = c2s
  <1> DEFINE c1(o) == [c EXCEPT !.temp = @ \cup Temp(o.left, c.id)]
  <1>1. PICK o \in Prepared(cfile[c.file], "cprepare") :
            \/ /\ c' = [c1(o) EXCEPT !.pc = "put_skip"]
               /\ c2s' = Append(c2s, Command("SKIP", None, c.id))
            \/ /\ o.ok
               /\ c' = [c1(o) EXCEPT !.pc = "put_send",
                                     !.buf = Stream(cfile[c.file], c.key)]
               /\ c2s' = c2s
            \/ /\ o.ok /\ "copen" \in faults
               /\ c' = Return(c1(o), FALSE)
               /\ c2s' = c2s
    BY Zenon DEF ClientPutPrepare
  <1>2. /\ o.left \in SUBSET {"enc", "comp"}
        /\ o.ok => cfile[c.file] # None /\ o.left = {"enc"}
    BY PreparedType
  <1> QED
    BY <1>1, <1>2, Zenon

LEMMA TypeInit == Init => TypeOK
  <1> SUFFICES ASSUME Init PROVE TypeOK
    OBVIOUS
  <1>1. /\ 0 \in Ids /\ None \in Names /\ <<>> \in Keys /\ <<>> \in Seq(Messages)
        /\ "skip" \in Ops /\ "SKIP" \in Verbs /\ {} \in Temps
    BY VerbFacts, TransferAssumption DEF Ids, Names, Keys, Temps
  <1>2. c \in ClientStates
    BY <1>1, NoReplyType DEF Init, ClientStates, ClientPcs
  <1>3. s \in ServerStates
    BY <1>1 DEF Init, ServerStates, ServerPcs
  <1>4. cfile \in Stores /\ sfile \in Stores /\ faults \in SUBSET FaultKinds
    <2>1. cfile \in ClientStores /\ sfile \in ServerStores /\ faults \in FaultSets
      BY DEF Init
    <2> QED
      BY <2>1, TransferAssumption
  <1>5. /\ c2s \in Seq(Commands) /\ s2c \in Seq(Replies)
        /\ dc2s \in Seq(Messages) /\ ds2c \in Seq(Messages) /\ pending \in BOOLEAN
    BY EmptySeq DEF Init
  <1> QED
    BY <1>2, <1>3, <1>4, <1>5 DEF TypeOK

(* The client's steps.                                                     *)
LEMMA ClientTypeStep ==
    ASSUME TypeOK, Dispatched, UserStep \/ ClientStep \/ ClientSigpipe \/ ClientKilled
    PROVE  TypeOK'
  <1> USE Fields DEF TypeOK
  <1>1. ASSUME NEW op \in Ops, NEW f \in Files, UserCommand(op, f) PROVE TypeOK'
    <2>1. /\ c.id + 1 \in Ids /\ f \in Names /\ <<>> \in Keys /\ NoReply \in Replies
          /\ <<>> \in Seq(Messages)
      BY <1>1, NoReplyType, TransferAssumption DEF UserCommand, Ids, Names, Keys
    <2>2. c' \in ClientStates
      BY <1>1, <2>1 DEF UserCommand, ClientStates, ClientPcs
    <2>3. Command("PORT", f, c.id + 1) \in Commands
      BY <2>1, CommandType
    <2>4. c2s' \in Seq(Commands)
      BY <1>1, <2>3 DEF UserCommand
    <2> QED
      BY <1>1, <2>2, <2>4 DEF UserCommand, data
  <1>2. CASE UserQuit
    <2>1. c' \in ClientStates
      BY <1>2 DEF UserQuit, ClientStates, ClientPcs
    <2>2. Command("QUIT", None, c.id) \in Commands
      BY CommandType DEF Names
    <2>3. c2s' \in Seq(Commands)
      BY <1>2, <2>2 DEF UserQuit
    <2> QED
      BY <1>2, <2>1, <2>3 DEF UserQuit, data
  <1>3. CASE ClientAccept
    <2>1. c' \in ClientStates
      BY <1>3 DEF ClientAccept, ClientStates, ClientPcs
    <2>2. Verb[c.op] \in Verbs
      BY VerbFacts
    <2>3. c2s' \in Seq(Commands)
      BY <1>3, <2>2, CommandType DEF ClientAccept
    <2> QED
      BY <1>3, <2>1, <2>3 DEF ClientAccept
  <1>4. CASE ClientSkipReply
    <2>1. s2c' \in Seq(Replies) /\ ReplyRead \in Replies
      BY <1>4, TakeRepliesType DEF ClientSkipReply
    <2>2. c' \in ClientStates
      BY <1>4, <2>1 DEF ClientSkipReply, Return, ClientStates, ClientPcs
    <2> QED
      BY <1>4, <2>1, <2>2 DEF ClientSkipReply, data
  <1>5. CASE ClientQuitReply
    <2>1. s2c' \in Seq(Replies) /\ ReplyRead \in Replies
      BY <1>5, TakeRepliesType DEF ClientQuitReply
    <2>2. c' \in ClientStates
      BY <1>5, <2>1 DEF ClientQuitReply, ClientStates, ClientPcs
    <2> QED
      BY <1>5, <2>1, <2>2 DEF ClientQuitReply, data
  <1>6. CASE ClientLsControl
    <2>1. s2c' \in Seq(Replies) /\ ReplyRead \in Replies
      BY <1>6, TakeRepliesType DEF ClientLsControl
    <2>2. [c EXCEPT !.reply = ReplyRead, !.ctlDone = TRUE] \in ClientStates
      BY <2>1 DEF ClientStates
    <2>3. c' \in ClientStates
      <3>1. \A cl \in ClientStates : Crash(cl) \in ClientStates /\ Return(cl, TRUE) \in ClientStates
        BY DEF Crash, Return, ClientStates, ClientPcs
      <3> QED
        BY <1>6, <2>2, <3>1, LsControlCases, Zenon
    <2> QED
      BY <1>6, <2>1, <2>3 DEF ClientLsControl, data
  <1>7. CASE ClientLsData
    <2>1. c' \in ClientStates
      BY <1>7 DEF ClientLsData, Return, ClientStates, ClientPcs
    <2>2. ds2c' \in Seq(Messages)
      BY <1>7 DEF ClientLsData
    <2> QED
      BY <1>7, <2>1, <2>2 DEF ClientLsData, ctl
  <1>8. CASE ClientDHSend
    <2>1. ClientHalf \in Messages
      BY HalvesTyped
    <2>2. c' \in ClientStates
      BY <1>8 DEF ClientDHSend, ClientStates, ClientPcs
    <2>3. dc2s' \in Seq(Messages)
      BY <1>8, <2>1 DEF ClientDHSend
    <2> QED
      BY <1>8, <2>2, <2>3 DEF ClientDHSend, ctl
  <1>9. CASE ClientDHRecv
    <2>1. ClientHalf \in Halves /\ HalfRead(ds2c, c.key, 2) \in Halves \cup {None}
      BY HalvesTyped
    <2>2. Append(c.key, <<ClientHalf, HalfRead(ds2c, c.key, 2)>>) \in Keys
      BY <2>1, KeyType
    <2>3. c' \in ClientStates
      BY <1>9, <2>2 DEF ClientDHRecv, ClientStates, ClientPcs
    <2>4. ds2c' \in Seq(Messages)
      BY <1>9 DEF ClientDHRecv
    <2> QED
      BY <1>9, <2>3, <2>4 DEF ClientDHRecv, ctl
  <1>10. CASE ClientGetOpen
    <2>1. c.temp \cup Temp({"enc"}, c.id) \in Temps
      BY TempType
    <2>2. c' \in ClientStates
      BY <1>10, <2>1, ZenonT(60) DEF ClientGetOpen, Return, ClientStates, ClientPcs
    <2> QED
      BY <1>10, <2>2 DEF ClientGetOpen, ctl, data
  <1>11. CASE ClientGetRecv
    <2>1. ASSUME ds2c # <<>>
          PROVE  Append(c.buf, Head(ds2c)) \in Seq(Messages) /\ Tail(ds2c) \in Seq(Messages)
      BY <2>1
    <2>2. c' \in ClientStates
      BY <1>11, <2>1, ZenonT(60) DEF ClientGetRecv, ClientStates, ClientPcs
    <2>3. ds2c' \in Seq(Messages)
      BY <1>11, <2>1 DEF ClientGetRecv
    <2> QED
      BY <1>11, <2>2, <2>3 DEF ClientGetRecv, ctl
  <1>12. CASE ClientGetReply
    <2>1. s2c' \in Seq(Replies) /\ ReplyRead \in Replies
      BY <1>12, TakeRepliesType DEF ClientGetReply
    <2>2. c.temp \ Temp({"enc"}, c.id) \in Temps
      BY TempType
    <2>3. c' \in ClientStates
      BY <1>12, <2>1, <2>2 DEF ClientGetReply, Return, ClientStates, ClientPcs
    <2> QED
      BY <1>12, <2>1, <2>3 DEF ClientGetReply, data
  <1>13. CASE ClientGetDecrypt \/ ClientGetUncomp
    <2>1. /\ (c.temp \ Temp({"enc"}, c.id)) \cup Temp({"comp"}, c.id) \in Temps
          /\ c.temp \cup Temp({"enc", "comp"}, c.id) \in Temps
          /\ \A ok \in BOOLEAN : c.temp \ {t \in Temp({"comp"}, c.id) : ok} \in Temps
          /\ c.temp \ Temp({"comp"}, c.id) \in Temps
      BY DEF Temp, Temps
    <2>2. c.file \in Files
      BY <1>13 DEF ClientGetDecrypt, ClientGetUncomp, Dispatched, Busy, InGet
    <2>3. CASE ClientGetDecrypt
      <3>1. c' \in ClientStates
        <4> DEFINE t == (c.temp \ Temp({"enc"}, c.id)) \cup Temp({"comp"}, c.id)
                   u == c.temp \cup Temp({"enc", "comp"}, c.id)
        <4>1. \/ c' = [c EXCEPT !.pc = "get_uncomp", !.temp = t]
              \/ c' = Return([c EXCEPT !.temp = u], FALSE)
          BY <2>3 DEF ClientGetDecrypt
        <4>2. t \in Temps /\ u \in Temps
          BY <2>1
        <4> HIDE DEF t, u
        <4> QED
          BY <4>1, <4>2 DEF Return, ClientStates, ClientPcs
      <3>2. cfile' \in Stores
        BY <2>2, <2>3 DEF ClientGetDecrypt, Stores, Values
      <3> QED
        BY <2>3, <3>1, <3>2 DEF ClientGetDecrypt, ctl, data
    <2>4. CASE ClientGetUncomp
      <3> DEFINE R(t, ok) == Return([c EXCEPT !.temp = t], ok)
      <3>1. \/ c' = R(c.temp \ Temp({"comp"}, c.id), TRUE)
            \/ \E ok \in BOOLEAN : c' = R(c.temp \ {x \in Temp({"comp"}, c.id) : ok}, ok)
        BY <2>4 DEF ClientGetUncomp, Incomplete
      <3> HIDE DEF R
      <3>2. c' \in ClientStates
        <4>1. PICK t \in Temps : \E ok \in BOOLEAN : c' = R(t, ok)
          BY <2>1, <3>1, Zenon
        <4>2. PICK ok \in BOOLEAN : c' = R(t, ok)
          BY <4>1
        <4> QED
          BY <4>2 DEF R, Return, ClientStates, ClientPcs
      <3>3. cfile' \in Stores
        BY <2>2, <2>4 DEF ClientGetUncomp, Stores
      <3> QED
        BY <2>4, <3>2, <3>3 DEF ClientGetUncomp, ctl, data
    <2> QED
      BY <1>13, <2>3, <2>4
  <1>14. CASE ClientPutPrepare
    <2>1. cfile[c.file] \in Values \cup {None}
      BY <1>14 DEF ClientPutPrepare, Dispatched, Busy, InPut, Stores
    <2> DEFINE c1(left) == [c EXCEPT !.temp = @ \cup Temp(left, c.id)]
    <2>2. PICK left \in SUBSET {"enc", "comp"} :
            \/ /\ c' = [c1(left) EXCEPT !.pc = "put_skip"]
               /\ c2s' = Append(c2s, Command("SKIP", None, c.id))
            \/ /\ cfile[c.file] # None
               /\ c' = [c1(left) EXCEPT !.pc = "put_send",
                                        !.buf = Stream(cfile[c.file], c.key)]
               /\ c2s' = c2s
            \/ c' = Return(c1(left), FALSE) /\ c2s' = c2s
      BY <1>14, PutPrepareCases, Zenon
    <2>3. cfile[c.file] # None => Stream(cfile[c.file], c.key) \in Seq(Messages)
      BY <2>1, StreamType
    <2>4. c1(left) \in ClientStates
      BY TempType DEF ClientStates
    <2>5. Command("SKIP", None, c.id) \in Commands
      BY CommandType, VerbFacts DEF Names
    <2> HIDE DEF c1
    <2> DEFINE d1 == c1(left)
    <2>5a. d1 \in ClientStates
      BY <2>4
    <2>6. c' \in ClientStates /\ c2s' \in Seq(Commands)
      <3>1. CASE c' = [d1 EXCEPT !.pc = "put_skip"] /\ c2s' = Append(c2s, Command("SKIP", None, c.id))
        <4> HIDE DEF d1
        <4>1. c' \in ClientStates
          BY <3>1, <2>5a DEF ClientStates, ClientPcs
        <4>2. c2s' \in Seq(Commands)
          BY <3>1, <2>5
        <4> QED
          BY <4>1, <4>2
      <3>2. CASE /\ cfile[c.file] # None
                 /\ c' = [d1 EXCEPT !.pc = "put_send", !.buf = Stream(cfile[c.file], c.key)]
                 /\ c2s' = c2s
        <4> HIDE DEF d1
        <4> QED
          BY <3>2, <2>3, <2>5a DEF ClientStates, ClientPcs
      <3>3. CASE c' = Return(d1, FALSE) /\ c2s' = c2s
        <4> HIDE DEF d1
        <4> QED
          BY <3>3, <2>5a DEF Return, ClientStates, ClientPcs
      <3> QED
        BY <3>1, <3>2, <3>3, <2>2, Zenon
    <2> QED
      BY <1>14, <2>6 DEF ClientPutPrepare, data
  <1>15. CASE ClientPutWrite
    <2>1. Tail(c.buf) \in Seq(Messages) /\ Head(c.buf) \in Messages
      BY <1>15 DEF ClientPutWrite
    <2>2. c' \in ClientStates
      BY <1>15, <2>1 DEF ClientPutWrite, ClientStates, ClientPcs
    <2>3. dc2s' \in Seq(Messages)
      BY <1>15, <2>1 DEF ClientPutWrite
    <2> QED
      BY <1>15, <2>2, <2>3 DEF ClientPutWrite, ctl
  <1>16. CASE ClientPutClose
    <2>1. c.temp \ Temp({"enc"}, c.id) \in Temps
      BY TempType
    <2>2. c' \in ClientStates
      BY <1>16, <2>1 DEF ClientPutClose, PutReturn, Return, ClientStates, ClientPcs
    <2> QED
      BY <1>16, <2>2 DEF ClientPutClose, ctl, data
  <1>17. CASE ClientPutReply
    <2>1. s2c' \in Seq(Replies) /\ ReplyRead \in Replies
      BY <1>17, TakeRepliesType DEF ClientPutReply
    <2>2. c.temp \ Temp({"enc"}, c.id) \in Temps
      BY TempType
    <2>3. c' \in ClientStates
      BY <1>17, <2>1, <2>2 DEF ClientPutReply, PutReturn, Return, Crash, ClientStates,
         ClientPcs
    <2> QED
      BY <1>17, <2>1, <2>3 DEF ClientPutReply, data
  <1>18. CASE ClientSigpipe \/ ClientKilled
    <2>1. c' = Crash(c)
      BY <1>18 DEF ClientSigpipe, ClientKilled
    <2>2. c' \in ClientStates
      BY <2>1 DEF Crash, ClientStates, ClientPcs
    <2>3. /\ UNCHANGED <<s, cfile, sfile, c2s, s2c, dc2s, ds2c, faults>>
          /\ pending' \in {pending, FALSE}
      BY <1>18 DEF ClientSigpipe, ClientKilled, ctl, data
    <2> QED
      BY <2>2, <2>3
  <1> QED
    BY <1>1, <1>2, <1>3, <1>4, <1>5, <1>6, <1>7, <1>8, <1>9, <1>10, <1>11, <1>12, <1>13,
       <1>14, <1>15, <1>16, <1>17, <1>18 DEF UserStep, ClientStep

(* The child's steps.                                                      *)
LEMMA ServerTypeStep ==
    ASSUME TypeOK, Dispatched, PortInTurn, ServerStep \/ ServerSigpipe \/ ServerKilled
    PROVE  TypeOK'
  <1> USE Fields DEF TypeOK
  <1>1. CASE ServerQuit
    <2>1. s' \in ServerStates
      BY <1>1 DEF ServerQuit, ServerStates, ServerPcs
    <2>2. c2s' \in Seq(Commands) /\ Head(c2s) \in Commands
      BY <1>1 DEF ServerQuit
    <2>3. Reply(221, Head(c2s).id) \in Replies
      BY <2>2, ReplyType DEF Commands, Codes
    <2>4. s2c' \in Seq(Replies)
      BY <1>1, <2>3 DEF ServerQuit
    <2> QED
      BY <1>1, <2>1, <2>2, <2>4 DEF ServerQuit, data
  <1>2. CASE ServerPort
    <2>1. PICK n \in 1..Len(c2s) : TakeCommands(n)
      BY <1>2 DEF ServerPort
    <2>2. c2s' \in Seq(Commands)
      BY <2>1, TakeCommandsType
    <2>3. s' \in ServerStates
      BY <1>2 DEF ServerPort, ServerStates, ServerPcs
    <2> QED
      BY <1>2, <2>2, <2>3 DEF ServerPort, data
  <1>3. CASE ServerMerged
    <2>1. PICK n \in 2..Len(c2s) : TakeCommands(n)
      BY <1>3 DEF ServerMerged
    <2>2. n \in 1..Len(c2s)
      OBVIOUS
    <2>3. c2s' \in Seq(Commands)
      BY <2>1, <2>2, TakeCommandsType
    <2>4. s' \in ServerStates
      BY <1>3 DEF ServerMerged, ServerStates, ServerPcs
    <2> QED
      BY <1>3, <2>3, <2>4 DEF ServerMerged, data
  <1>4. CASE ServerGarbled \/ ServerSigpipe \/ ServerKilled
    <2>1. s' \in ServerStates
      BY <1>4 DEF ServerGarbled, ServerSigpipe, ServerKilled, Crash, ServerStates,
         ServerPcs
    <2> QED
      BY <1>4, <2>1 DEF ServerGarbled, ServerSigpipe, ServerKilled, ctl, data
  <1>5. CASE ServerConnect
    <2>1. s' \in ServerStates
      BY <1>5 DEF ServerConnect, ServerStates, ServerPcs
    <2>2. \/ dc2s' = <<>> /\ ds2c' = <<>> /\ pending' = TRUE
          \/ UNCHANGED data
      BY <1>5 DEF ServerConnect
    <2>3. <<>> \in Seq(Messages)
      OBVIOUS
    <2>4. dc2s' \in Seq(Messages) /\ ds2c' \in Seq(Messages)
      BY <2>2, <2>3 DEF data
    <2>5. pending' \in BOOLEAN
      BY <2>2 DEF data
    <2> QED
      BY <1>5, <2>1, <2>4, <2>5 DEF ServerConnect, ctl
  <1>6. CASE ServerCommand
    <2>1. Head(c2s) \in Commands /\ c2s' \in Seq(Commands)
      BY <1>6 DEF ServerCommand
    <2>2. /\ Head(c2s).verb \in Verbs
          /\ Head(c2s).file \in Names /\ Head(c2s).id \in Ids
      BY <1>6, <2>1 DEF ServerCommand, PortInTurn, Commands
    <2>3. <<>> \in Keys /\ <<>> \in Seq(Messages)
      BY DEF Keys
    <2>4. s' \in ServerStates
      BY <1>6, <2>2, <2>3 DEF ServerCommand, ServerStates, ServerPcs
    <2>5. Reply(550, Head(c2s).id) \in Replies
      BY <2>2, ReplyType DEF Codes
    <2>6. s2c' \in Seq(Replies)
      BY <1>6, <2>5 DEF ServerCommand
    <2> QED
      BY <1>6, <2>1, <2>4, <2>6 DEF ServerCommand, data
  <1>7. CASE ServerClose
    <2>1. s' \in ServerStates
      BY <1>7 DEF ServerClose, ServerStates, ServerPcs
    <2> QED
      BY <1>7, <2>1 DEF ServerClose, ctl, data
  <1>8. ASSUME NEW code \in Codes PROVE Reply(code, s.id) \in Replies
    BY ReplyType
  <1>9. CASE ServerList
    <2>0. s' = Leave(s, TRUE) \/ s' = Leave(s, FALSE)
      BY <1>9, Zenon DEF ServerList
    <2>1. s' \in ServerStates
      BY <2>0 DEF Leave, ServerStates, ServerPcs
    <2>2. ds2c' \in Seq(Messages)
      <3>1. CASE UNCHANGED ds2c
        BY <3>1
      <3>2. CASE \E n \in 0..Blocks : ds2c' = ds2c \o Listing(n)
        <4>1. PICK n \in 0..Blocks : ds2c' = ds2c \o Listing(n)
          BY <3>2
        <4>2. Listing(n) \in Seq(Messages)
          BY ListingType
        <4> QED
          BY <4>1, <4>2
      <3> QED
        BY <1>9, <3>1, <3>2, Zenon DEF ServerList
    <2>3. SendReply(200) \/ \E code \in {451, 550} : SendReply(code)
      <3>1. CASE \E n \in 0..Blocks : ds2c' = ds2c \o Listing(n) /\ SendReply(200) /\ s' = Leave(s, TRUE)
        BY <3>1, Zenon
      <3>2. CASE \E code \in {451, 550} : SendReply(code)
        BY <3>2, Zenon
      <3> QED
        BY <1>9, <3>1, <3>2, Zenon DEF ServerList
    <2>c. 200 \in Codes /\ \A code \in {451, 550} : code \in Codes
      BY DEF Codes
    <2>4. PICK code \in Codes : SendReply(code)
      BY <2>3, <2>c, ZenonT(60)
    <2>5. s2c' \in Seq(Replies)
      BY <1>8, <2>4 DEF SendReply
    <2> QED
      BY <1>9, <2>1, <2>2, <2>5 DEF ServerList
  <1>10. CASE ServerDH
    <2>0. HalfRead(dc2s, s.key, 1) \in Halves \cup {None}
      BY HalvesTyped
    <2>1. ServerHalf \in Halves /\ ServerHalf \in Messages
      BY HalvesTyped
    <2>2. Append(s.key, <<HalfRead(dc2s, s.key, 1), ServerHalf>>) \in Keys
      BY <2>0, <2>1, KeyType
    <2>3. s' \in ServerStates
      BY <1>10, <2>2 DEF ServerDH, ServerStates, ServerPcs
    <2>4. dc2s' \in Seq(Messages)
      BY <1>10 DEF ServerDH
    <2>5. ds2c' \in Seq(Messages)
      BY <1>10, <2>1 DEF ServerDH
    <2> QED
      BY <1>10, <2>3, <2>4, <2>5 DEF ServerDH, ctl
  <1>11. CASE ServerRetrOpen
    <2>1. sfile[s.file] \in Values \cup {None}
      BY <1>11 DEF ServerRetrOpen, Dispatched, Serving, Retr, Stores
    <2>2. Reply(550, s.id) \in Replies /\ Reply(451, s.id) \in Replies
      BY <1>8 DEF Codes
    <2>3. CASE SendReply(550) /\ s' = Leave(s, FALSE)
      <3>1. s' \in ServerStates
        BY <2>3 DEF Leave, ServerStates, ServerPcs
      <3>2. s2c' \in Seq(Replies)
        BY <2>2, <2>3 DEF SendReply
      <3> QED
        BY <1>11, <3>1, <3>2 DEF ServerRetrOpen, data
    <2>4. CASE sfile[s.file] # None /\ \E o \in Prepared(sfile[s.file], "sprepare") :
                  LET s1 == [s EXCEPT !.temp = @ \cup Temp(o.left, s.id)]
                  IN  \/ SendReply(451) /\ s' = Leave(s1, FALSE)
                      \/ /\ s' = [s1 EXCEPT !.pc = "retr_send",
                                            !.buf = Stream(sfile[s.file], s.key)]
                         /\ s2c' = s2c
      <3> DEFINE s1(o) == [s EXCEPT !.temp = @ \cup Temp(o.left, s.id)]
      <3>1. PICK o \in Prepared(sfile[s.file], "sprepare") :
                \/ SendReply(451) /\ s' = Leave(s1(o), FALSE)
                \/ /\ s' = [s1(o) EXCEPT !.pc = "retr_send",
                                         !.buf = Stream(sfile[s.file], s.key)]
                   /\ s2c' = s2c
        BY <2>4, Zenon
      <3>2. s.temp \cup Temp(o.left, s.id) \in Temps
        BY PreparedType, TempType
      <3> DEFINE d1 == s1(o)
      <3>3. d1 \in ServerStates
        BY <3>2 DEF ServerStates
      <3>4. Stream(sfile[s.file], s.key) \in Seq(Messages)
        BY <2>1, <2>4, StreamType
      <3>5. s' \in ServerStates /\ s2c' \in Seq(Replies)
        <4>1. CASE SendReply(451) /\ s' = Leave(d1, FALSE)
          <5> HIDE DEF d1
          <5>1. s' \in ServerStates
            BY <3>3, <4>1 DEF Leave, ServerStates, ServerPcs
          <5>2. s2c' \in Seq(Replies)
            BY <2>2, <4>1 DEF SendReply
          <5> QED
            BY <5>1, <5>2
        <4>2. CASE /\ s' = [d1 EXCEPT !.pc = "retr_send", !.buf = Stream(sfile[s.file], s.key)]
                   /\ s2c' = s2c
          <5> HIDE DEF d1
          <5> QED
            BY <3>3, <3>4, <4>2 DEF ServerStates, ServerPcs
        <4> QED
          BY <3>1, <4>1, <4>2, Zenon
      <3> QED
        BY <1>11, <3>5 DEF ServerRetrOpen, data
    <2> QED
      BY <1>11, <2>3, <2>4, Zenon DEF ServerRetrOpen
  <1>12. CASE ServerRetrWrite
    <2>1. Tail(s.buf) \in Seq(Messages) /\ Head(s.buf) \in Messages
      BY <1>12 DEF ServerRetrWrite
    <2>2. s' \in ServerStates
      BY <1>12, <2>1 DEF ServerRetrWrite, ServerStates, ServerPcs
    <2>3. ds2c' \in Seq(Messages)
      BY <1>12, <2>1 DEF ServerRetrWrite
    <2> QED
      BY <1>12, <2>2, <2>3 DEF ServerRetrWrite, ctl
  <1>13. CASE ServerRetrDone
    <2>1. s.temp \ Temp({"enc"}, s.id) \in Temps
      BY TempType
    <2>2. s' \in ServerStates
      BY <1>13, <2>1 DEF ServerRetrDone, Leave, ServerStates, ServerPcs
    <2>3. s2c' \in Seq(Replies)
      BY <1>8, <1>13 DEF ServerRetrDone, SendReply, Codes
    <2> QED
      BY <1>13, <2>2, <2>3 DEF ServerRetrDone, data
  <1>14. CASE ServerStorOpen
    <2>1. s.temp \cup Temp({"enc"}, s.id) \in Temps
      BY TempType
    <2>2. s' \in ServerStates
      BY <1>14, <2>1 DEF ServerStorOpen, Leave, ServerStates, ServerPcs
    <2> QED
      BY <1>14, <2>2 DEF ServerStorOpen, ctl, data
  <1>15. CASE ServerStorRecv
    <2>1. Append(s.buf, Head(dc2s)) \in Seq(Messages) /\ Tail(dc2s) \in Seq(Messages)
      BY <1>15 DEF ServerStorRecv
    <2>2. s' \in ServerStates
      BY <1>15, <2>1 DEF ServerStorRecv, ServerStates, ServerPcs
    <2> QED
      BY <1>15, <2>1, <2>2 DEF ServerStorRecv, ctl
  <1>16. CASE ServerStorEof
    <2>1. s' \in ServerStates
      BY <1>16 DEF ServerStorEof, ServerStates, ServerPcs
    <2>2. s2c' \in Seq(Replies)
      BY <1>8, <1>16 DEF ServerStorEof, SendReply, Codes
    <2> QED
      BY <1>16, <2>1, <2>2 DEF ServerStorEof, data
  <1>17. CASE ServerStorDecrypt \/ ServerStorUncomp
    <2>1. /\ (s.temp \ Temp({"enc"}, s.id)) \cup Temp({"comp"}, s.id) \in Temps
          /\ s.temp \cup Temp({"enc", "comp"}, s.id) \in Temps
          /\ \A ok \in BOOLEAN : s.temp \ {t \in Temp({"comp"}, s.id) : ok} \in Temps
          /\ s.temp \ Temp({"comp"}, s.id) \in Temps
      BY DEF Temp, Temps
    <2>2. s.file \in Files
      BY <1>17 DEF ServerStorDecrypt, ServerStorUncomp, Dispatched, Serving, Stor
    <2>3. CASE ServerStorDecrypt
      <3>1. s' \in ServerStates
        BY <2>1, <2>3 DEF ServerStorDecrypt, Leave, ServerStates, ServerPcs
      <3>2. sfile' \in Stores
        BY <2>2, <2>3 DEF ServerStorDecrypt, Stores, Values
      <3> QED
        BY <2>3, <3>1, <3>2 DEF ServerStorDecrypt, ctl, data
    <2>4. CASE ServerStorUncomp
      <3>1. PICK t \in Temps, ok \in BOOLEAN : s' = Leave([s EXCEPT !.temp = t], ok)
        BY <2>1, <2>4 DEF ServerStorUncomp, Incomplete
      <3>2. s' \in ServerStates
        BY <3>1 DEF Leave, ServerStates, ServerPcs
      <3>3. sfile' \in Stores
        BY <2>2, <2>4 DEF ServerStorUncomp, Stores
      <3> QED
        BY <2>4, <3>2, <3>3 DEF ServerStorUncomp, ctl, data
    <2> QED
      BY <1>17, <2>3, <2>4
  <1> QED
    BY <1>1, <1>2, <1>3, <1>4, <1>5, <1>6, <1>7, <1>9, <1>10, <1>11, <1>12, <1>13,
       <1>14, <1>15, <1>16, <1>17 DEF ServerStep

(* The control connection: what a write adds to it, and what a read takes. *)
Sent(m) ==
    /\ m \in Commands /\ Len(c2s') = Len(c2s) + 1 /\ c2s' # <<>>
    /\ \A i \in 1..Len(c2s') : c2s'[i] = IF i <= Len(c2s) THEN c2s[i] ELSE m
    /\ Head(c2s') = IF c2s = <<>> THEN m ELSE Head(c2s)
Received(n) ==
    /\ n \in 1..Len(c2s) /\ Len(c2s') = Len(c2s) - n
    /\ \A i \in 1..Len(c2s') : c2s'[i] = c2s[n + i]
    /\ c2s' = <<>> <=> Len(c2s) = n
    /\ Head(c2s) = c2s[1] /\ Head(c2s) \in Commands

LEMMA SentAppend ==
    ASSUME TypeOK, NEW m \in Commands, c2s' = Append(c2s, m)
    PROVE  Sent(m)
  <1>1. c2s \in Seq(Commands)
    BY DEF TypeOK
  <1> QED
    BY <1>1, AppendFacts DEF Sent

LEMMA ReceivedTail ==
    ASSUME TypeOK, c2s # <<>>, c2s' = Tail(c2s)
    PROVE  Received(1)
  <1>1. c2s \in Seq(Commands)
    BY DEF TypeOK
  <1>2. /\ Tail(c2s) = <<>> <=> Len(c2s) = 1
        /\ Head(c2s) = c2s[1] /\ Head(c2s) \in Commands
    BY <1>1, TailFacts
  <1>3. /\ 1 \in 1..Len(c2s) /\ Len(c2s') = Len(c2s) - 1
        /\ \A i \in 1..Len(c2s') : c2s'[i] = c2s[1 + i]
    BY <1>1, TailFacts
  <1> QED
    BY <1>2, <1>3 DEF Received

LEMMA ReceivedTaken ==
    ASSUME TypeOK, NEW n \in 1..Len(c2s), TakeCommands(n)
    PROVE  Received(n)
  <1>1. c2s \in Seq(Commands) /\ Len(c2s) \in Nat
    BY DEF TypeOK
  <1>2. c2s' \in Seq(Commands) /\ (c2s' = <<>> <=> Len(c2s') = 0)
    BY TakeCommandsType, EmptyFacts, <1>1
  <1>3. /\ Len(c2s') = Len(c2s) - n
        /\ \A i \in 1..Len(c2s') : c2s'[i] = c2s[n + i]
    BY <1>1, DropFacts DEF TakeCommands
  <1>4. c2s' = <<>> <=> Len(c2s) = n
    BY <1>1, <1>2, <1>3
  <1>5. Head(c2s) = c2s[1] /\ Head(c2s) \in Commands
    BY <1>1
  <1> QED
    BY <1>3, <1>4, <1>5 DEF Received

(* ... and of replies.                                                     *)
Replied(r) ==
    /\ r \in Replies /\ Len(s2c') = Len(s2c) + 1
    /\ \A i \in 1..Len(s2c') : s2c'[i] = IF i <= Len(s2c) THEN s2c[i] ELSE r
Taken(n) ==
    /\ n \in 0..Len(s2c) /\ Len(s2c') = Len(s2c) - n
    /\ \A i \in 1..Len(s2c') : s2c'[i] = s2c[n + i]
    /\ n = 0 => Len(s2c) = 0 /\ ReplyRead = NoReply
    /\ n > 0 => 1 \in 1..Len(s2c) /\ ReplyRead = s2c[1]

LEMMA ReplyLen == TypeOK => Len(s2c) \in Nat
  BY Fields

LEMMA RepliedSend ==
    ASSUME TypeOK, NEW code \in Codes, NEW id \in Ids, s2c' = Append(s2c, Reply(code, id))
    PROVE  /\ Replied(Reply(code, id))
           /\ Reply(code, id).code = code /\ Reply(code, id).id = id
  <1>1. s2c \in Seq(Replies)
    BY Fields
  <1>2. /\ Reply(code, id) \in Replies
        /\ Reply(code, id).code = code /\ Reply(code, id).id = id
    BY ReplyType
  <1> QED
    BY <1>1, <1>2, AppendFacts DEF Replied

LEMMA TakenReplies ==
    ASSUME TypeOK, TakeReplies
    PROVE  \E n \in 0..Len(s2c) : Taken(n)
  <1>1. s2c \in Seq(Replies) /\ Len(s2c) \in Nat /\ (s2c = <<>> <=> Len(s2c) = 0)
    BY Fields, EmptyFacts
  <1>2. PICK n \in 0..Len(s2c) : /\ n = 0 <=> s2c = <<>>
                                 /\ s2c' = SubSeq(s2c, n + 1, Len(s2c))
    BY DEF TakeReplies
  <1>3. /\ Len(s2c') = Len(s2c) - n
        /\ \A i \in 1..Len(s2c') : s2c'[i] = s2c[n + i]
    BY <1>1, <1>2, DropFacts
  <1>4. ReplyRead = IF s2c = <<>> THEN NoReply ELSE s2c[1]
    BY <1>1 DEF ReplyRead
  <1> QED
    BY <1>1, <1>2, <1>3, <1>4 DEF Taken

(* What the steps with cases in them do to the fields of the local states. *)
KeepsCommand == c'.op = c.op /\ c'.file = c.file /\ c'.id = c.id

LEMMA LsControlEffect ==
    ASSUME TypeOK, ClientLsControl
    PROVE  /\ c.pc = "ls" /\ ~c.ctlDone /\ ControlReadable /\ TakeReplies
           /\ UNCHANGED <<s, cfile, sfile, c2s, dc2s, ds2c, pending, faults>>
           /\ KeepsCommand /\ c'.key = c.key /\ c'.buf = c.buf /\ c'.temp = c.temp
           /\ c'.dataDone = c.dataDone
           /\ \/ /\ ReplyRead.code = 0 /\ c'.pc = "dead" /\ c'.open = FALSE
                 /\ c'.reply = c.reply /\ c'.ctlDone = c.ctlDone
              \/ /\ ReplyRead.code = 200 /\ c'.pc = "ls" /\ c'.open = c.open
                 /\ c'.reply = ReplyRead /\ c'.ctlDone = TRUE
              \/ /\ ReplyRead.code # 0 /\ c'.pc = "prompt" /\ c'.open = FALSE
                 /\ c'.reply = ReplyRead /\ c'.ctlDone = TRUE /\ c'.ok = TRUE
  <1> USE Fields
  <1> DEFINE r  == ReplyRead
             c1 == [c EXCEPT !.reply = r, !.ctlDone = TRUE]
  <1>0. /\ c.pc = "ls" /\ ~c.ctlDone /\ ControlReadable /\ TakeReplies
        /\ UNCHANGED <<s, cfile, sfile, c2s, dc2s, ds2c, pending, faults>>
    BY DEF ClientLsControl, ctl, data
  <1>1. CASE r.code = 0 /\ c' = Crash(c)
    BY <1>0, <1>1 DEF Crash, ClientStates, ClientLsControl, KeepsCommand
  <1>2. CASE r.code = 200 /\ ~c.dataDone /\ c' = c1
    BY <1>0, <1>2, ZenonT(60) DEF ClientStates, ClientLsControl, KeepsCommand
  <1>3. CASE r.code # 0 /\ c' = Return(c1, TRUE)
    BY <1>0, <1>3 DEF Return, ClientStates, KeepsCommand
  <1> QED
    BY <1>0, <1>1, <1>2, <1>3, LsControlCases, Zenon

LEMMA LsDataEffect ==
    ASSUME TypeOK, ClientLsData
    PROVE  /\ c.pc = "ls" /\ ~c.dataDone /\ ServerDataClosed /\ ds2c' = <<>>
           /\ UNCHANGED <<s, cfile, sfile, c2s, s2c, dc2s, pending, faults>>
           /\ KeepsCommand /\ c'.key = c.key /\ c'.buf = ds2c /\ c'.temp = c.temp
           /\ c'.dataDone = TRUE /\ c'.reply = c.reply /\ c'.ctlDone = c.ctlDone
           /\ \/ ~c.ctlDone /\ c'.pc = "ls" /\ c'.open = c.open
              \/ c.ctlDone /\ c'.pc = "prompt" /\ c'.open = FALSE /\ c'.ok = TRUE
  <1> USE Fields
  <1>0. /\ c.pc = "ls" /\ ~c.dataDone /\ ServerDataClosed /\ ds2c' = <<>>
        /\ UNCHANGED <<s, cfile, sfile, c2s, s2c, dc2s, pending, faults>>
    BY DEF ClientLsData, ctl, data
  <1>1. CASE c.ctlDone
    BY <1>0, <1>1 DEF ClientLsData, Return, ClientStates, KeepsCommand
  <1>2. CASE ~c.ctlDone
    BY <1>0, <1>2 DEF ClientLsData, ClientStates, KeepsCommand
  <1> QED
    BY <1>0, <1>1, <1>2

LEMMA DHRecvEffect ==
    ASSUME TypeOK, Dispatched, ClientDHRecv
    PROVE  /\ c.pc = "dh_recv" /\ (ds2c # <<>> \/ ServerDataClosed)
           /\ ds2c' = IF ds2c = <<>> THEN <<>> ELSE Tail(ds2c)
           /\ UNCHANGED <<s, cfile, sfile, c2s, s2c, dc2s, pending, faults>>
           /\ KeepsCommand /\ c'.buf = c.buf /\ c'.temp = c.temp
           /\ c'.key = Append(c.key, <<ClientHalf, HalfRead(ds2c, c.key, 2)>>)
           /\ c'.key \in Keys /\ Len(c'.key) = Len(c.key) + 1
           /\ c'.open = c.open /\ c'.reply = c.reply
           /\ c'.ctlDone = c.ctlDone /\ c'.dataDone = c.dataDone
           /\ \/ Len(c'.key) < DHRounds /\ c'.pc = "dh_send"
              \/ Len(c'.key) >= DHRounds /\ c.op = "get" /\ c'.pc = "get_open"
              \/ Len(c'.key) >= DHRounds /\ c.op = "put" /\ c'.pc = "put_prepare"
  <1> USE Fields
  <1> DEFINE key == Append(c.key, <<ClientHalf, HalfRead(ds2c, c.key, 2)>>)
  <1>1. c.op \in {"get", "put"}
    BY DEF ClientDHRecv, Dispatched, InDH
  <1>2. ClientHalf \in Halves /\ HalfRead(ds2c, c.key, 2) \in Halves \cup {None}
    BY HalvesTyped
  <1>3. key \in Keys /\ Len(key) = Len(c.key) + 1 /\ Len(key) \in Nat
    BY <1>2, KeyType
  <1>4. DHRounds \in Nat
    BY TransferAssumption
  <1> HIDE DEF key
  <1>5. c' = [c EXCEPT !.key = key,
                       !.pc = IF Len(key) < DHRounds THEN "dh_send"
                             ELSE IF c.op = "get"     THEN "get_open"
                             ELSE "put_prepare"]
    BY DEF ClientDHRecv, key
  <1>6. /\ KeepsCommand /\ c'.buf = c.buf /\ c'.temp = c.temp /\ c'.key = key
        /\ c'.open = c.open /\ c'.reply = c.reply
        /\ c'.ctlDone = c.ctlDone /\ c'.dataDone = c.dataDone
    BY <1>5 DEF ClientStates, KeepsCommand
  <1>7. c'.pc = IF Len(key) < DHRounds THEN "dh_send"
               ELSE IF c.op = "get"     THEN "get_open"
               ELSE "put_prepare"
    BY <1>5 DEF ClientStates
  <1>8. \/ Len(key) < DHRounds /\ c'.pc = "dh_send"
        \/ Len(key) >= DHRounds /\ c.op = "get" /\ c'.pc = "get_open"
        \/ Len(key) >= DHRounds /\ c.op = "put" /\ c'.pc = "put_prepare"
    <2>1. CASE Len(key) < DHRounds
      BY <1>7, <2>1
    <2>2. CASE ~(Len(key) < DHRounds) /\ c.op = "get"
      BY <1>7, <2>2, <1>3, <1>4
    <2>3. CASE ~(Len(key) < DHRounds) /\ c.op # "get"
      BY <1>7, <2>3, <1>1, <1>3, <1>4
    <2> QED
      BY <2>1, <2>2, <2>3
  <1>0. /\ c.pc = "dh_recv" /\ (ds2c # <<>> \/ ServerDataClosed)
        /\ ds2c' = IF ds2c = <<>> THEN <<>> ELSE Tail(ds2c)
        /\ UNCHANGED <<s, cfile, sfile, c2s, s2c, dc2s, pending, faults>>
    BY DEF ClientDHRecv, ctl, data
  <1> QED
    BY <1>0, <1>3, <1>6, <1>8 DEF key

LEMMA GetOpenEffect ==
    ASSUME TypeOK, ClientGetOpen
    PROVE  /\ c.pc = "get_open"
           /\ UNCHANGED <<s, cfile, sfile, c2s, s2c, dc2s, ds2c, pending, faults>>
           /\ KeepsCommand /\ c'.key = c.key /\ c'.buf = c.buf /\ c'.reply = c.reply
           /\ c'.ctlDone = c.ctlDone /\ c'.dataDone = c.dataDone
           /\ \/ /\ c'.pc = "get_recv" /\ c'.open = c.open
                 /\ c'.temp = c.temp \cup Temp({"enc"}, c.id)
              \/ /\ c'.pc = "prompt" /\ c'.open = FALSE /\ "copen" \in faults
                 /\ c'.ok = FALSE /\ c'.temp = c.temp
  <1>0. /\ c.pc = "get_open"
        /\ UNCHANGED <<s, cfile, sfile, c2s, s2c, dc2s, ds2c, pending, faults>>
    BY DEF ClientGetOpen, ctl, data
  <1> DEFINE t == c.temp \cup Temp({"enc"}, c.id)
  <1>1. \/ c' = [c EXCEPT !.pc = "get_recv", !.temp = t]
        \/ "copen" \in faults /\ c' = Return(c, FALSE)
    BY DEF ClientGetOpen
  <1> HIDE DEF t
  <1>2. /\ KeepsCommand /\ c'.key = c.key /\ c'.buf = c.buf /\ c'.reply = c.reply
        /\ c'.ctlDone = c.ctlDone /\ c'.dataDone = c.dataDone
        /\ \/ /\ c'.pc = "get_recv" /\ c'.open = c.open /\ c'.temp = t
           \/ /\ c'.pc = "prompt" /\ c'.open = FALSE /\ "copen" \in faults
              /\ c'.ok = FALSE /\ c'.temp = c.temp
    BY <1>1, Fields DEF Return, ClientStates, KeepsCommand
  <1> QED
    BY <1>0, <1>2 DEF t

LEMMA GetRecvEffect ==
    ASSUME TypeOK, ClientGetRecv
    PROVE  /\ c.pc = "get_recv"
           /\ UNCHANGED <<s, cfile, sfile, c2s, s2c, dc2s, pending, faults>>
           /\ KeepsCommand /\ c'.key = c.key /\ c'.temp = c.temp /\ c'.reply = c.reply
           /\ c'.ctlDone = c.ctlDone /\ c'.dataDone = c.dataDone /\ c'.open = c.open
           /\ \/ /\ ds2c # <<>> /\ c'.pc = "get_recv"
                 /\ c'.buf = Append(c.buf, Head(ds2c)) /\ ds2c' = Tail(ds2c)
              \/ /\ ds2c = <<>> /\ ServerDataClosed /\ c'.pc = "get_reply"
                 /\ c'.buf = c.buf /\ ds2c' = ds2c
              \/ /\ s.pc = "dead" /\ c'.pc = "get_abort"
                 /\ c'.buf = c.buf /\ ds2c' = ds2c
  <1> DEFINE buf == Append(c.buf, Head(ds2c))
  <1>1. /\ c.pc = "get_recv"
        /\ UNCHANGED <<s, cfile, sfile, c2s, s2c, dc2s, pending, faults>>
        /\ \/ ds2c # <<>> /\ c' = [c EXCEPT !.buf = buf] /\ ds2c' = Tail(ds2c)
           \/ /\ ds2c = <<>> /\ ServerDataClosed /\ c' = [c EXCEPT !.pc = "get_reply"]
              /\ ds2c' = ds2c
           \/ s.pc = "dead" /\ c' = [c EXCEPT !.pc = "get_abort"] /\ ds2c' = ds2c
    BY DEF ClientGetRecv, ctl
  <1> HIDE DEF buf
  <1>2. /\ KeepsCommand /\ c'.key = c.key /\ c'.temp = c.temp /\ c'.reply = c.reply
        /\ c'.ctlDone = c.ctlDone /\ c'.dataDone = c.dataDone /\ c'.open = c.open
    BY <1>1, Fields DEF ClientStates, KeepsCommand
  <1>3. \/ ds2c # <<>> /\ c'.pc = "get_recv" /\ c'.buf = buf /\ ds2c' = Tail(ds2c)
        \/ /\ ds2c = <<>> /\ ServerDataClosed /\ c'.pc = "get_reply"
           /\ c'.buf = c.buf /\ ds2c' = ds2c
        \/ /\ s.pc = "dead" /\ c'.pc = "get_abort"
           /\ c'.buf = c.buf /\ ds2c' = ds2c
    BY <1>1, Fields DEF ClientStates
  <1> QED
    BY <1>1, <1>2, <1>3 DEF buf

LEMMA GetReplyEffect ==
    ASSUME TypeOK, ClientGetReply
    PROVE  /\ ControlReadable /\ TakeReplies
           /\ UNCHANGED <<s, cfile, sfile, c2s, dc2s, ds2c, pending, faults>>
           /\ KeepsCommand /\ c'.key = c.key /\ c'.buf = c.buf /\ c'.reply = ReplyRead
           /\ c'.ctlDone = c.ctlDone /\ c'.dataDone = c.dataDone
           /\ \/ /\ c.pc = "get_reply" /\ c'.pc = "get_process"
                 /\ c'.open = c.open /\ c'.temp = c.temp
              \/ /\ c.pc = "get_abort" /\ c'.pc = "prompt" /\ c'.ok = FALSE
                 /\ c'.open = FALSE /\ c'.temp = c.temp \ Temp({"enc"}, c.id)
  <1> USE Fields
  <1>0. /\ ControlReadable /\ TakeReplies
        /\ UNCHANGED <<s, cfile, sfile, c2s, dc2s, ds2c, pending, faults>>
    BY DEF ClientGetReply, ctl, data
  <1>1. CASE c.pc = "get_reply"
    BY <1>0, <1>1 DEF ClientGetReply, ClientStates, KeepsCommand
  <1>2. CASE c.pc = "get_abort"
    BY <1>0, <1>2 DEF ClientGetReply, Return, ClientStates, KeepsCommand
  <1> QED
    BY <1>0, <1>1, <1>2 DEF ClientGetReply

LEMMA GetProcessEffect ==
    ASSUME TypeOK, ClientGetDecrypt \/ ClientGetUncomp
    PROVE  /\ UNCHANGED <<s, sfile, c2s, s2c, dc2s, ds2c, pending, faults>>
           /\ KeepsCommand /\ c'.key = c.key /\ c'.buf = c.buf /\ c'.reply = c.reply
           /\ c'.ctlDone = c.ctlDone /\ c'.dataDone = c.dataDone
           /\ \/ /\ c.pc = "get_process" /\ c'.pc = "get_uncomp"
                 /\ c'.open = c.open /\ c'.ok = c.ok /\ c.buf # <<>>
                 /\ cfile' = [cfile EXCEPT ![c.file] = Spoiled]
                 /\ c'.temp = (c.temp \ Temp({"enc"}, c.id)) \cup Temp({"comp"}, c.id)
              \/ /\ c.pc = "get_process" /\ c'.pc = "prompt"
                 /\ c'.open = FALSE /\ c'.ok = FALSE /\ cfile' = cfile
                 /\ c'.temp = c.temp \cup Temp({"enc", "comp"}, c.id)
              \/ /\ c.pc = "get_uncomp" /\ c'.pc = "prompt"
                 /\ c'.open = FALSE /\ c'.ok = TRUE
                 /\ \E v \in Values : /\ c.buf = Stream(v, c.key)
                                      /\ cfile' = [cfile EXCEPT ![c.file] = v]
                 /\ c'.temp = c.temp \ Temp({"comp"}, c.id)
              \/ /\ c.pc = "get_uncomp" /\ c'.pc = "prompt"
                 /\ c'.open = FALSE /\ c'.ok \in BOOLEAN /\ cfile' = cfile
                 /\ ~Whole(c.buf, c.key) \/ "process" \in faults
                 /\ c'.temp = c.temp \ {t \in Temp({"comp"}, c.id) : c'.ok}
  <1> USE Fields
  <1>0. UNCHANGED <<s, sfile, c2s, s2c, dc2s, ds2c, pending, faults>>
    BY DEF ClientGetDecrypt, ClientGetUncomp, ctl, data
  <1>1. CASE ClientGetDecrypt
    <2>1. PICK ok \in Decrypted(c.buf, c.key) :
            \/ /\ ok
               /\ c' = [c EXCEPT !.pc = "get_uncomp",
                                 !.temp = (@ \ Temp({"enc"}, c.id))
                                          \cup Temp({"comp"}, c.id)]
               /\ cfile' = [cfile EXCEPT ![c.file] = Spoiled]
            \/ /\ ~ok
               /\ c' = Return([c EXCEPT !.temp = @ \cup Temp({"enc", "comp"}, c.id)], FALSE)
               /\ UNCHANGED cfile
      BY <1>1 DEF ClientGetDecrypt
    <2>2. c.pc = "get_process" /\ (ok => c.buf # <<>>)
      BY <1>1 DEF ClientGetDecrypt, Decrypted
    <2> DEFINE t == (c.temp \ Temp({"enc"}, c.id)) \cup Temp({"comp"}, c.id)
               u == c.temp \cup Temp({"enc", "comp"}, c.id)
    <2>3. \/ /\ ok /\ c' = [c EXCEPT !.pc = "get_uncomp", !.temp = t]
             /\ cfile' = [cfile EXCEPT ![c.file] = Spoiled]
          \/ c' = Return([c EXCEPT !.temp = u], FALSE) /\ cfile' = cfile
      BY <2>1
    <2> HIDE DEF t, u
    <2>4. /\ KeepsCommand /\ c'.key = c.key /\ c'.buf = c.buf /\ c'.reply = c.reply
          /\ c'.ctlDone = c.ctlDone /\ c'.dataDone = c.dataDone
          /\ \/ /\ c'.pc = "get_uncomp" /\ c'.open = c.open /\ c'.ok = c.ok /\ ok
                /\ cfile' = [cfile EXCEPT ![c.file] = Spoiled] /\ c'.temp = t
             \/ /\ c'.pc = "prompt" /\ c'.open = FALSE /\ c'.ok = FALSE
                /\ cfile' = cfile /\ c'.temp = u
      BY <2>3 DEF Return, ClientStates, KeepsCommand
    <2> QED
      BY <1>0, <2>2, <2>4 DEF t, u
  <1>2. CASE ClientGetUncomp
    <2>1. c.pc = "get_uncomp"
      BY <1>2 DEF ClientGetUncomp
    <2>2. CASE \E v \in Values :
            /\ c.buf = Stream(v, c.key)
            /\ cfile' = [cfile EXCEPT ![c.file] = v]
            /\ c' = Return([c EXCEPT !.temp = @ \ Temp({"comp"}, c.id)], TRUE)
      <3> DEFINE t == c.temp \ Temp({"comp"}, c.id)
      <3>1. c' = Return([c EXCEPT !.temp = t], TRUE)
        BY <2>2
      <3> HIDE DEF t
      <3>2. /\ KeepsCommand /\ c'.key = c.key /\ c'.buf = c.buf /\ c'.reply = c.reply
            /\ c'.ctlDone = c.ctlDone /\ c'.dataDone = c.dataDone
            /\ c'.pc = "prompt" /\ c'.open = FALSE /\ c'.ok = TRUE /\ c'.temp = t
        BY <3>1 DEF Return, ClientStates, KeepsCommand
      <3> QED
        BY <1>0, <2>1, <2>2, <3>2 DEF t
    <2>3. ASSUME NEW ok \in Incomplete(c.buf, c.key),
                 c' = Return([c EXCEPT !.temp = @ \ {x \in Temp({"comp"}, c.id) : ok}], ok),
                 cfile' = cfile
          PROVE  /\ KeepsCommand /\ c'.key = c.key /\ c'.buf = c.buf /\ c'.reply = c.reply
                 /\ c'.ctlDone = c.ctlDone /\ c'.dataDone = c.dataDone
                 /\ c'.pc = "prompt" /\ c'.open = FALSE /\ c'.ok \in BOOLEAN
                 /\ ~Whole(c.buf, c.key) \/ "process" \in faults
                 /\ c'.temp = c.temp \ {x \in Temp({"comp"}, c.id) : c'.ok}
      <3> DEFINE t == c.temp \ {x \in Temp({"comp"}, c.id) : ok}
      <3>1. c' = Return([c EXCEPT !.temp = t], ok)
        BY <2>3
      <3> HIDE DEF t
      <3>2. /\ KeepsCommand /\ c'.key = c.key /\ c'.buf = c.buf /\ c'.reply = c.reply
            /\ c'.ctlDone = c.ctlDone /\ c'.dataDone = c.dataDone
            /\ c'.pc = "prompt" /\ c'.open = FALSE /\ c'.ok = ok /\ c'.temp = t
        BY <3>1 DEF Return, ClientStates, KeepsCommand
      <3>3. ok \in BOOLEAN /\ (~Whole(c.buf, c.key) \/ "process" \in faults)
        BY DEF Incomplete
      <3>4. c'.temp = c.temp \ {x \in Temp({"comp"}, c.id) : c'.ok}
        BY <3>2 DEF t
      <3> QED
        BY <3>2, <3>3, <3>4
    <2> QED
      BY <1>0, <1>2, <2>1, <2>2, <2>3 DEF ClientGetUncomp
  <1> QED
    BY <1>1, <1>2

(* What that says of control alone.                                        *)
LEMMA GetProcessControl ==
    ASSUME TypeOK, ClientGetDecrypt \/ ClientGetUncomp
    PROVE  /\ UNCHANGED <<s, c2s, s2c, dc2s, ds2c, pending, faults>>
           /\ KeepsCommand /\ c'.key = c.key /\ c'.buf = c.buf /\ c'.reply = c.reply
           /\ c'.ctlDone = c.ctlDone /\ c'.dataDone = c.dataDone
           /\ c.pc \in {"get_process", "get_uncomp"}
           /\ \/ /\ c.pc = "get_process" /\ c'.pc = "get_uncomp"
                 /\ c'.open = c.open /\ c.buf # <<>>
              \/ c'.pc = "prompt" /\ c'.open = FALSE
  BY GetProcessEffect, Zenon

LEMMA PutPrepareEffect ==
    ASSUME TypeOK, ClientPutPrepare
    PROVE  /\ c.pc = "put_prepare"
           /\ UNCHANGED <<s, cfile, sfile, s2c, dc2s, ds2c, pending, faults>>
           /\ KeepsCommand /\ c'.key = c.key /\ c'.reply = c.reply
           /\ c'.ctlDone = c.ctlDone /\ c'.dataDone = c.dataDone
           /\ \/ /\ c'.pc = "put_skip" /\ c'.buf = c.buf /\ c'.open = c.open
                 /\ Sent(Command("SKIP", None, c.id))
                 /\ Command("SKIP", None, c.id).verb = "SKIP"
                 /\ Command("SKIP", None, c.id).id = c.id
                 /\ \E left \in SUBSET {"enc", "comp"} :
                        c'.temp = c.temp \cup Temp(left, c.id)
              \/ /\ c'.pc = "put_send" /\ cfile[c.file] # None /\ c'.open = c.open
                 /\ c'.buf = Stream(cfile[c.file], c.key) /\ c2s' = c2s
                 /\ c'.temp = c.temp \cup Temp({"enc"}, c.id)
              \/ /\ c'.pc = "prompt" /\ "copen" \in faults /\ c'.open = FALSE
                 /\ c'.buf = c.buf /\ c2s' = c2s /\ c'.ok = FALSE
                 /\ c'.temp = c.temp \cup Temp({"enc"}, c.id)
  <1> DEFINE c1(left) == [c EXCEPT !.temp = @ \cup Temp(left, c.id)]
  <1>0. /\ c.pc = "put_prepare"
        /\ UNCHANGED <<s, cfile, sfile, s2c, dc2s, ds2c, pending, faults>>
    BY DEF ClientPutPrepare, ctl, data
  <1>1. PICK left \in SUBSET {"enc", "comp"} :
            \/ /\ c' = [c1(left) EXCEPT !.pc = "put_skip"]
               /\ c2s' = Append(c2s, Command("SKIP", None, c.id))
            \/ /\ cfile[c.file] # None /\ left = {"enc"}
               /\ c' = [c1(left) EXCEPT !.pc = "put_send",
                                        !.buf = Stream(cfile[c.file], c.key)]
               /\ c2s' = c2s
            \/ /\ left = {"enc"} /\ "copen" \in faults
               /\ c' = Return(c1(left), FALSE) /\ c2s' = c2s
    BY PutPrepareCases, Zenon
  <1> DEFINE d1 == c1(left)
  <1>2. d1 \in ClientStates
    BY Fields, TempType DEF ClientStates
  <1>3. /\ d1.op = c.op /\ d1.file = c.file /\ d1.id = c.id /\ d1.key = c.key
        /\ d1.buf = c.buf /\ d1.open = c.open /\ d1.reply = c.reply
        /\ d1.ctlDone = c.ctlDone /\ d1.dataDone = c.dataDone
        /\ d1.temp = c.temp \cup Temp(left, c.id)
    BY Fields DEF ClientStates
  <1>4. CASE /\ c' = [d1 EXCEPT !.pc = "put_skip"]
             /\ c2s' = Append(c2s, Command("SKIP", None, c.id))
    <2>1. None \in Names /\ c.id \in Ids /\ "SKIP" \in Verbs
      BY Fields, VerbFacts DEF Names
    <2> DEFINE m == Command("SKIP", None, c.id)
    <2>2. m \in Commands /\ m.verb = "SKIP" /\ m.id = c.id
      BY <2>1, CommandType
    <2>3. Sent(m)
      BY <1>4, <2>2, SentAppend
    <2> HIDE DEF d1
    <2> QED
      BY <1>0, <1>2, <1>3, <1>4, <2>2, <2>3 DEF ClientStates, KeepsCommand
  <1>5. CASE /\ cfile[c.file] # None /\ left = {"enc"}
             /\ c' = [d1 EXCEPT !.pc = "put_send", !.buf = Stream(cfile[c.file], c.key)]
             /\ c2s' = c2s
    <2> HIDE DEF d1
    <2> QED
      BY <1>0, <1>2, <1>3, <1>5 DEF ClientStates, KeepsCommand
  <1>6. CASE /\ left = {"enc"} /\ "copen" \in faults
             /\ c' = Return(d1, FALSE) /\ c2s' = c2s
    <2> HIDE DEF d1
    <2> QED
      BY <1>0, <1>2, <1>3, <1>6 DEF Return, ClientStates, KeepsCommand
  <1> QED
    BY <1>0, <1>1, <1>4, <1>5, <1>6, Zenon

LEMMA PutCloseEffect ==
    ASSUME TypeOK, ClientPutClose
    PROVE  /\ c.pc = "put_send" /\ ~c.dataDone /\ c.buf = <<>>
           /\ UNCHANGED <<s, cfile, sfile, c2s, s2c, dc2s, ds2c, pending, faults>>
           /\ KeepsCommand /\ c'.key = c.key /\ c'.reply = c.reply /\ c'.buf = c.buf
           /\ c'.ctlDone = c.ctlDone /\ c'.dataDone = TRUE /\ c'.open = FALSE
           /\ \/ c.ctlDone = FALSE /\ c'.pc = "put_send" /\ c'.temp = c.temp
              \/ /\ c.ctlDone = TRUE /\ c'.pc = "prompt" /\ c'.ok = TRUE
                 /\ c'.temp = c.temp \ Temp({"enc"}, c.id)
  <1> USE Fields
  <1>0. /\ c.pc = "put_send" /\ ~c.dataDone /\ c.buf = <<>>
        /\ UNCHANGED <<s, cfile, sfile, c2s, s2c, dc2s, ds2c, pending, faults>>
    BY DEF ClientPutClose, ctl, data
  <1>1. CASE c.ctlDone
    BY <1>0, <1>1 DEF ClientPutClose, PutReturn, Return, ClientStates, KeepsCommand
  <1>2. CASE ~c.ctlDone
    BY <1>0, <1>2 DEF ClientPutClose, ClientStates, KeepsCommand
  <1> QED
    BY <1>0, <1>1, <1>2

LEMMA PutReplyEffect ==
    ASSUME TypeOK, ClientPutReply
    PROVE  /\ c.pc = "put_send" /\ ~c.ctlDone /\ ControlReadable /\ TakeReplies
           /\ c.dataDone \/ Len(c.buf) = Blocks
           /\ UNCHANGED <<s, cfile, sfile, c2s, dc2s, ds2c, pending, faults>>
           /\ KeepsCommand /\ c'.key = c.key /\ c'.buf = c.buf
           /\ c'.dataDone = c.dataDone
           /\ \/ /\ ReplyRead.code = 0 /\ c'.pc = "dead" /\ c'.open = FALSE
                 /\ c'.reply = c.reply /\ c'.ctlDone = c.ctlDone /\ c'.temp = c.temp
              \/ /\ ReplyRead.code = 200 /\ ~c.dataDone /\ c'.pc = "put_send"
                 /\ c'.open = c.open /\ c'.reply = ReplyRead /\ c'.ctlDone = TRUE
                 /\ c'.temp = c.temp
              \/ /\ ReplyRead.code # 0 /\ c'.pc = "prompt" /\ c'.open = FALSE
                 /\ ReplyRead.code = 200 => c.dataDone
                 /\ c'.reply = ReplyRead /\ c'.ctlDone = TRUE /\ c'.ok = TRUE
                 /\ c'.temp = c.temp \ Temp({"enc"}, c.id)
  <1> USE Fields
  <1> DEFINE r  == ReplyRead
             c1 == [c EXCEPT !.reply = r, !.ctlDone = TRUE]
  <1>0. /\ c.pc = "put_send" /\ ~c.ctlDone /\ ControlReadable /\ TakeReplies
        /\ c.dataDone \/ Len(c.buf) = Blocks
        /\ UNCHANGED <<s, cfile, sfile, c2s, dc2s, ds2c, pending, faults>>
    BY DEF ClientPutReply, ctl, data
  <1>1. CASE r.code = 0 /\ c' = Crash(c)
    BY <1>0, <1>1 DEF Crash, ClientStates, KeepsCommand
  <1>2. CASE r.code = 200 /\ ~c.dataDone /\ c' = c1
    BY <1>0, <1>2, ZenonT(60) DEF ClientPutReply, ClientStates, KeepsCommand
  <1>3. CASE r.code # 0 /\ (r.code # 200 \/ c.dataDone) /\ c' = PutReturn(c1)
    BY <1>0, <1>3 DEF PutReturn, Return, ClientStates, KeepsCommand
  <1> QED
    BY <1>0, <1>1, <1>2, <1>3, PutReplyCases, Zenon

KeepsRequest == s'.verb = s.verb /\ s'.file = s.file /\ s'.id = s.id

LEMMA ServerDHEffect ==
    ASSUME TypeOK, Dispatched, ServerDH
    PROVE  /\ s.pc = "dh" /\ (dc2s # <<>> \/ ClientDataClosed)
           /\ dc2s' = IF dc2s = <<>> THEN <<>> ELSE Tail(dc2s)
           /\ ds2c' = IF ClientDataClosed THEN ds2c ELSE Append(ds2c, ServerHalf)
           /\ UNCHANGED <<c, cfile, sfile, c2s, s2c, pending, faults>>
           /\ KeepsRequest /\ s'.buf = s.buf /\ s'.temp = s.temp
           /\ s'.key = Append(s.key, <<HalfRead(dc2s, s.key, 1), ServerHalf>>)
           /\ s'.key \in Keys /\ Len(s'.key) = Len(s.key) + 1
           /\ s'.open = s.open
           /\ \/ Len(s'.key) < DHRounds /\ s'.pc = "dh"
              \/ Len(s'.key) >= DHRounds /\ s.verb = "RETR" /\ s'.pc = "retr_open"
              \/ Len(s'.key) >= DHRounds /\ s.verb = "STOR" /\ s'.pc = "stor_open"
  <1> USE Fields
  <1> DEFINE key == Append(s.key, <<HalfRead(dc2s, s.key, 1), ServerHalf>>)
  <1>1. s.verb \in {"RETR", "STOR"}
    BY DEF ServerDH, Dispatched
  <1>2. ServerHalf \in Halves /\ HalfRead(dc2s, s.key, 1) \in Halves \cup {None}
    BY HalvesTyped
  <1>3. key \in Keys /\ Len(key) = Len(s.key) + 1 /\ Len(key) \in Nat
    BY <1>2, KeyType
  <1>4. DHRounds \in Nat
    BY TransferAssumption
  <1> HIDE DEF key
  <1>5. s' = [s EXCEPT !.key = key,
                       !.pc = IF Len(key) < DHRounds   THEN "dh"
                             ELSE IF s.verb = "RETR" THEN "retr_open"
                             ELSE "stor_open"]
    BY DEF ServerDH, key
  <1>6. /\ KeepsRequest /\ s'.buf = s.buf /\ s'.temp = s.temp /\ s'.key = key
        /\ s'.open = s.open
    BY <1>5 DEF ServerStates, KeepsRequest
  <1>7. s'.pc = IF Len(key) < DHRounds   THEN "dh"
               ELSE IF s.verb = "RETR" THEN "retr_open"
               ELSE "stor_open"
    BY <1>5 DEF ServerStates
  <1>8. \/ Len(key) < DHRounds /\ s'.pc = "dh"
        \/ Len(key) >= DHRounds /\ s.verb = "RETR" /\ s'.pc = "retr_open"
        \/ Len(key) >= DHRounds /\ s.verb = "STOR" /\ s'.pc = "stor_open"
    <2>1. CASE Len(key) < DHRounds
      BY <1>7, <2>1
    <2>2. CASE ~(Len(key) < DHRounds) /\ s.verb = "RETR"
      BY <1>7, <2>2, <1>3, <1>4
    <2>3. CASE ~(Len(key) < DHRounds) /\ s.verb # "RETR"
      BY <1>7, <2>3, <1>1, <1>3, <1>4
    <2> QED
      BY <2>1, <2>2, <2>3
  <1>0. /\ s.pc = "dh" /\ (dc2s # <<>> \/ ClientDataClosed)
        /\ dc2s' = IF dc2s = <<>> THEN <<>> ELSE Tail(dc2s)
        /\ ds2c' = IF ClientDataClosed THEN ds2c ELSE Append(ds2c, ServerHalf)
        /\ UNCHANGED <<c, cfile, sfile, c2s, s2c, pending, faults>>
    BY DEF ServerDH, ctl, data
  <1> QED
    BY <1>0, <1>3, <1>6, <1>8 DEF key

LEMMA ListEffect ==
    ASSUME TypeOK, ServerList
    PROVE  /\ s.pc = "list"
           /\ UNCHANGED <<c, cfile, sfile, c2s, dc2s, pending, faults>>
           /\ KeepsRequest /\ s'.buf = s.buf /\ s'.temp = s.temp /\ s'.key = s.key
           /\ s'.pc = "close" /\ s'.open = s.open
           /\ SendReply(200) \/ \E code \in {451, 550} : SendReply(code)
  <1>1. s' = Leave(s, TRUE) \/ s' = Leave(s, FALSE)
    BY Zenon DEF ServerList
  <1>2. SendReply(200) \/ \E code \in {451, 550} : SendReply(code)
    <2>1. CASE \E n \in 0..Blocks : ds2c' = ds2c \o Listing(n) /\ SendReply(200) /\ s' = Leave(s, TRUE)
      BY <2>1, Zenon
    <2>2. CASE \E code \in {451, 550} : SendReply(code)
      BY <2>2, Zenon
    <2> QED
      BY <2>1, <2>2, Zenon DEF ServerList
  <1>3. /\ KeepsRequest /\ s'.buf = s.buf /\ s'.temp = s.temp /\ s'.key = s.key
        /\ s'.pc = "close" /\ s'.open = s.open
    BY <1>1, Fields DEF Leave, ServerStates, KeepsRequest
  <1>0. /\ s.pc = "list"
        /\ UNCHANGED <<c, cfile, sfile, c2s, dc2s, pending, faults>>
    BY DEF ServerList, ctl, data
  <1> QED
    BY <1>0, <1>2, <1>3, Zenon

LEMMA RetrOpenEffect ==
    ASSUME TypeOK, ServerRetrOpen
    PROVE  /\ s.pc = "retr_open"
           /\ UNCHANGED <<c, cfile, sfile, c2s, dc2s, ds2c, pending, faults>>
           /\ KeepsRequest /\ s'.key = s.key /\ s'.open = s.open
           /\ \/ /\ s'.pc = "close" /\ s'.buf = s.buf /\ s'.ok = FALSE
                 /\ \E code \in {451, 550} : SendReply(code)
                 /\ \E left \in SUBSET {"enc", "comp"} :
                        s'.temp = s.temp \cup Temp(left, s.id)
              \/ /\ s'.pc = "retr_send" /\ sfile[s.file] # None
                 /\ s'.buf = Stream(sfile[s.file], s.key) /\ s2c' = s2c
                 /\ s'.temp = s.temp \cup Temp({"enc"}, s.id)
  <1> USE Fields
  <1>0. /\ s.pc = "retr_open"
        /\ UNCHANGED <<c, cfile, sfile, c2s, dc2s, ds2c, pending, faults>>
    BY DEF ServerRetrOpen, ctl, data
  <1>1. CASE SendReply(550) /\ s' = Leave(s, FALSE)
    <2>1. /\ KeepsRequest /\ s'.key = s.key /\ s'.open = s.open
          /\ s'.pc = "close" /\ s'.buf = s.buf /\ s'.ok = FALSE /\ s'.temp = s.temp
      BY <1>1 DEF Leave, ServerStates, KeepsRequest
    <2>2. s'.temp = s.temp \cup Temp({}, s.id)
      BY <2>1 DEF Temp
    <2>3. {} \in SUBSET {"enc", "comp"} /\ 550 \in {451, 550}
      OBVIOUS
    <2> QED
      BY <1>0, <1>1, <2>1, <2>2, <2>3, Zenon
  <1>2. CASE sfile[s.file] # None /\ \E o \in Prepared(sfile[s.file], "sprepare") :
                LET s1 == [s EXCEPT !.temp = @ \cup Temp(o.left, s.id)]
                IN  \/ SendReply(451) /\ s' = Leave(s1, FALSE)
                    \/ /\ o.ok
                       /\ s' = [s1 EXCEPT !.pc = "retr_send",
                                          !.buf = Stream(sfile[s.file], s.key)]
                       /\ s2c' = s2c
    <2> DEFINE s1(o) == [s EXCEPT !.temp = @ \cup Temp(o.left, s.id)]
    <2>1. PICK o \in Prepared(sfile[s.file], "sprepare") :
              \/ SendReply(451) /\ s' = Leave(s1(o), FALSE)
              \/ /\ o.ok
                 /\ s' = [s1(o) EXCEPT !.pc = "retr_send",
                                       !.buf = Stream(sfile[s.file], s.key)]
                 /\ s2c' = s2c
      BY <1>2, Zenon
    <2>2. o.left \in SUBSET {"enc", "comp"} /\ (o.ok => o.left = {"enc"})
      BY PreparedType
    <2> DEFINE d1 == s1(o)
    <2>3. d1 \in ServerStates
      BY <2>2, TempType DEF ServerStates
    <2>4. /\ d1.verb = s.verb /\ d1.file = s.file /\ d1.id = s.id /\ d1.key = s.key
          /\ d1.open = s.open /\ d1.buf = s.buf
          /\ d1.temp = s.temp \cup Temp(o.left, s.id)
      BY DEF ServerStates
    <2>5. CASE SendReply(451) /\ s' = Leave(d1, FALSE)
      <3>1. /\ KeepsRequest /\ s'.key = s.key /\ s'.open = s.open
            /\ s'.pc = "close" /\ s'.buf = s.buf /\ s'.ok = FALSE
            /\ s'.temp = s.temp \cup Temp(o.left, s.id)
        <4> HIDE DEF d1
        <4> QED
          BY <2>3, <2>4, <2>5 DEF Leave, ServerStates, KeepsRequest
      <3>2. 451 \in {451, 550}
        OBVIOUS
      <3> QED
        BY <1>0, <2>2, <2>5, <3>1, <3>2, ZenonT(60)
    <2>6. CASE /\ o.ok
               /\ s' = [d1 EXCEPT !.pc = "retr_send", !.buf = Stream(sfile[s.file], s.key)]
               /\ s2c' = s2c
      <3> HIDE DEF d1
      <3> QED
        BY <1>0, <1>2, <2>2, <2>3, <2>4, <2>6 DEF ServerStates, KeepsRequest
    <2> QED
      BY <2>1, <2>5, <2>6, Zenon
  <1> QED
    BY <1>0, <1>1, <1>2, Zenon DEF ServerRetrOpen

LEMMA StorProcessEffect ==
    ASSUME TypeOK, ServerStorDecrypt \/ ServerStorUncomp
    PROVE  /\ UNCHANGED <<c, cfile, c2s, s2c, dc2s, ds2c, pending, faults>>
           /\ KeepsRequest /\ s'.key = s.key /\ s'.buf = s.buf
           /\ \/ /\ s.pc = "stor_process" /\ s'.pc = "stor_uncomp"
                 /\ s'.open = s.open /\ s'.ok = s.ok /\ s.buf # <<>>
                 /\ sfile' = [sfile EXCEPT ![s.file] = Spoiled]
                 /\ s'.temp = (s.temp \ Temp({"enc"}, s.id)) \cup Temp({"comp"}, s.id)
              \/ /\ s.pc = "stor_process" /\ s'.pc = "close"
                 /\ s'.open = s.open /\ s'.ok = FALSE /\ sfile' = sfile
                 /\ s'.temp = s.temp \cup Temp({"enc", "comp"}, s.id)
              \/ /\ s.pc = "stor_uncomp" /\ s'.pc = "close"
                 /\ s'.open = s.open /\ s'.ok = TRUE
                 /\ \E v \in Values : /\ s.buf = Stream(v, s.key)
                                      /\ sfile' = [sfile EXCEPT ![s.file] = v]
                 /\ s'.temp = s.temp \ Temp({"comp"}, s.id)
              \/ /\ s.pc = "stor_uncomp" /\ s'.pc = "close"
                 /\ s'.open = s.open /\ s'.ok \in BOOLEAN /\ sfile' = sfile
                 /\ ~Whole(s.buf, s.key) \/ "process" \in faults
                 /\ s'.temp = s.temp \ {t \in Temp({"comp"}, s.id) : s'.ok}
  <1> USE Fields
  <1>0. UNCHANGED <<c, cfile, c2s, s2c, dc2s, ds2c, pending, faults>>
    BY DEF ServerStorDecrypt, ServerStorUncomp, ctl, data
  <1>1. CASE ServerStorDecrypt
    <2>1. PICK ok \in Decrypted(s.buf, s.key) :
            \/ /\ ok
               /\ s' = [s EXCEPT !.pc = "stor_uncomp",
                                 !.temp = (@ \ Temp({"enc"}, s.id))
                                          \cup Temp({"comp"}, s.id)]
               /\ sfile' = [sfile EXCEPT ![s.file] = Spoiled]
            \/ /\ ~ok
               /\ s' = Leave([s EXCEPT !.temp = @ \cup Temp({"enc", "comp"}, s.id)], FALSE)
               /\ UNCHANGED sfile
      BY <1>1 DEF ServerStorDecrypt
    <2>2. s.pc = "stor_process" /\ (ok => s.buf # <<>>)
      BY <1>1 DEF ServerStorDecrypt, Decrypted
    <2> DEFINE t == (s.temp \ Temp({"enc"}, s.id)) \cup Temp({"comp"}, s.id)
               u == s.temp \cup Temp({"enc", "comp"}, s.id)
    <2>3. \/ /\ ok /\ s' = [s EXCEPT !.pc = "stor_uncomp", !.temp = t]
             /\ sfile' = [sfile EXCEPT ![s.file] = Spoiled]
          \/ s' = Leave([s EXCEPT !.temp = u], FALSE) /\ sfile' = sfile
      BY <2>1
    <2> HIDE DEF t, u
    <2>4. /\ KeepsRequest /\ s'.key = s.key /\ s'.buf = s.buf
          /\ \/ /\ s'.pc = "stor_uncomp" /\ s'.open = s.open /\ s'.ok = s.ok /\ ok
                /\ sfile' = [sfile EXCEPT ![s.file] = Spoiled] /\ s'.temp = t
             \/ /\ s'.pc = "close" /\ s'.open = s.open /\ s'.ok = FALSE
                /\ sfile' = sfile /\ s'.temp = u
      BY <2>3 DEF Leave, ServerStates, KeepsRequest
    <2> QED
      BY <1>0, <2>2, <2>4 DEF t, u
  <1>2. CASE ServerStorUncomp
    <2>1. s.pc = "stor_uncomp"
      BY <1>2 DEF ServerStorUncomp
    <2>2. CASE \E v \in Values :
            /\ s.buf = Stream(v, s.key)
            /\ sfile' = [sfile EXCEPT ![s.file] = v]
            /\ s' = Leave([s EXCEPT !.temp = @ \ Temp({"comp"}, s.id)], TRUE)
      <3> DEFINE t == s.temp \ Temp({"comp"}, s.id)
      <3>1. s' = Leave([s EXCEPT !.temp = t], TRUE)
        BY <2>2
      <3> HIDE DEF t
      <3>2. /\ KeepsRequest /\ s'.key = s.key /\ s'.buf = s.buf
             /\ s'.pc = "close" /\ s'.open = s.open /\ s'.ok = TRUE /\ s'.temp = t
        BY <3>1 DEF Leave, ServerStates, KeepsRequest
      <3> QED
        BY <1>0, <2>1, <2>2, <3>2 DEF t
    <2>3. ASSUME NEW ok \in Incomplete(s.buf, s.key),
                 s' = Leave([s EXCEPT !.temp = @ \ {x \in Temp({"comp"}, s.id) : ok}], ok),
                 sfile' = sfile
          PROVE  /\ KeepsRequest /\ s'.key = s.key /\ s'.buf = s.buf
                       /\ s'.pc = "close" /\ s'.open = s.open /\ s'.ok \in BOOLEAN
                 /\ ~Whole(s.buf, s.key) \/ "process" \in faults
                 /\ s'.temp = s.temp \ {x \in Temp({"comp"}, s.id) : s'.ok}
      <3> DEFINE t == s.temp \ {x \in Temp({"comp"}, s.id) : ok}
      <3>1. s' = Leave([s EXCEPT !.temp = t], ok)
        BY <2>3
      <3> HIDE DEF t
      <3>2. /\ KeepsRequest /\ s'.key = s.key /\ s'.buf = s.buf
             /\ s'.pc = "close" /\ s'.open = s.open /\ s'.ok = ok /\ s'.temp = t
        BY <3>1 DEF Leave, ServerStates, KeepsRequest
      <3>3. ok \in BOOLEAN /\ (~Whole(s.buf, s.key) \/ "process" \in faults)
        BY DEF Incomplete
      <3>4. s'.temp = s.temp \ {x \in Temp({"comp"}, s.id) : s'.ok}
        BY <3>2 DEF t
      <3> QED
        BY <3>2, <3>3, <3>4
    <2> QED
      BY <1>0, <1>2, <2>1, <2>2, <2>3 DEF ServerStorUncomp
  <1> QED
    BY <1>1, <1>2

LEMMA StorProcessControl ==
    ASSUME TypeOK, ServerStorDecrypt \/ ServerStorUncomp
    PROVE  /\ UNCHANGED <<c, c2s, s2c, dc2s, ds2c, pending, faults>>
           /\ KeepsRequest /\ s'.key = s.key /\ s'.buf = s.buf /\ s'.open = s.open
           /\ s.pc \in {"stor_process", "stor_uncomp"}
           /\ \/ s.pc = "stor_process" /\ s'.pc = "stor_uncomp" /\ s.buf # <<>>
              \/ s'.pc = "close"
  BY StorProcessEffect, Zenon

LEMMA UserCommandEffect ==
    ASSUME TypeOK, NEW op \in Ops, NEW f \in Files, UserCommand(op, f)
    PROVE  /\ c.pc = "prompt" /\ c.id < MaxCmds
           /\ UNCHANGED <<s, cfile, sfile, s2c, dc2s, ds2c, pending, faults>>
           /\ c'.pc = "accept" /\ c'.op = op /\ c'.file = f /\ c'.id = c.id + 1
           /\ c'.key = <<>> /\ c'.buf = <<>> /\ c'.ctlDone = FALSE
           /\ c'.dataDone = FALSE /\ c'.reply = NoReply
           /\ c'.open = c.open /\ c'.temp = c.temp
           /\ Sent(Command("PORT", f, c.id + 1))
           /\ c.id + 1 \in Ids
           /\ Command("PORT", f, c.id + 1).verb = "PORT"
           /\ Command("PORT", f, c.id + 1).id = c.id + 1
  <1>1. c.id + 1 \in Ids /\ f \in Names
    BY Fields, TransferAssumption DEF UserCommand, Ids, Names
  <1> DEFINE m == Command("PORT", f, c.id + 1)
  <1>2. m \in Commands /\ m.verb = "PORT" /\ m.id = c.id + 1
    BY <1>1, CommandType
  <1>4. Sent(m)
    BY <1>2, SentAppend DEF UserCommand
  <1>3. /\ c'.pc = "accept" /\ c'.op = op /\ c'.file = f /\ c'.id = c.id + 1
        /\ c'.key = <<>> /\ c'.buf = <<>> /\ c'.ctlDone = FALSE
        /\ c'.dataDone = FALSE /\ c'.reply = NoReply
        /\ c'.open = c.open /\ c'.temp = c.temp
    BY Fields DEF UserCommand, ClientStates
  <1>0. /\ c.pc = "prompt" /\ c.id < MaxCmds
        /\ UNCHANGED <<s, cfile, sfile, s2c, dc2s, ds2c, pending, faults>>
    BY DEF UserCommand, ctl, data
  <1> QED
    BY <1>0, <1>1, <1>2, <1>3, <1>4

LEMMA UserQuitEffect ==
    ASSUME TypeOK, UserQuit
    PROVE  /\ c.pc = "prompt"
           /\ UNCHANGED <<s, cfile, sfile, s2c, dc2s, ds2c, pending, faults>>
           /\ KeepsCommand /\ c'.pc = "quit" /\ c'.key = c.key /\ c'.buf = c.buf
           /\ c'.ctlDone = c.ctlDone /\ c'.dataDone = c.dataDone /\ c'.reply = c.reply
           /\ c'.open = c.open /\ c'.temp = c.temp
           /\ Sent(Command("QUIT", None, c.id))
           /\ Command("QUIT", None, c.id).verb = "QUIT"
           /\ Command("QUIT", None, c.id).id = c.id
  <1>1. None \in Names /\ c.id \in Ids
    BY Fields DEF Names
  <1> DEFINE m == Command("QUIT", None, c.id)
  <1>2. m \in Commands /\ m.verb = "QUIT" /\ m.id = c.id
    BY <1>1, CommandType
  <1>4. Sent(m)
    BY <1>2, SentAppend DEF UserQuit
  <1>3. /\ KeepsCommand /\ c'.pc = "quit" /\ c'.key = c.key /\ c'.buf = c.buf
        /\ c'.ctlDone = c.ctlDone /\ c'.dataDone = c.dataDone /\ c'.reply = c.reply
        /\ c'.open = c.open /\ c'.temp = c.temp
    BY Fields DEF UserQuit, ClientStates, KeepsCommand
  <1>0. /\ c.pc = "prompt"
        /\ UNCHANGED <<s, cfile, sfile, s2c, dc2s, ds2c, pending, faults>>
    BY DEF UserQuit, ctl, data
  <1> QED
    BY <1>0, <1>2, <1>3, <1>4

LEMMA AcceptEffect ==
    ASSUME TypeOK, ClientAccept
    PROVE  /\ c.pc = "accept" /\ pending /\ pending' = FALSE
           /\ UNCHANGED <<s, cfile, sfile, s2c, dc2s, ds2c, faults>>
           /\ KeepsCommand /\ c'.key = c.key /\ c'.buf = c.buf
           /\ c'.ctlDone = c.ctlDone /\ c'.dataDone = c.dataDone /\ c'.reply = c.reply
           /\ c'.open = TRUE /\ c'.temp = c.temp
           /\ \/ c.op = "ls" /\ c'.pc = "ls"
              \/ c.op = "skip" /\ c'.pc = "skip"
              \/ c.op \in {"get", "put"} /\ c'.pc = "dh_send"
           /\ Verb[c.op] \in Verbs
           /\ Sent(Command(Verb[c.op], c.file, c.id))
           /\ Command(Verb[c.op], c.file, c.id).verb = Verb[c.op]
           /\ Command(Verb[c.op], c.file, c.id).file = c.file
           /\ Command(Verb[c.op], c.file, c.id).id = c.id
  <1>1. Verb[c.op] \in Verbs
    BY Fields, VerbFacts
  <1>2. Sent(Command(Verb[c.op], c.file, c.id))
    BY <1>1, Fields, CommandType, SentAppend DEF ClientAccept
  <1>3. /\ KeepsCommand /\ c'.key = c.key /\ c'.buf = c.buf
        /\ c'.ctlDone = c.ctlDone /\ c'.dataDone = c.dataDone /\ c'.reply = c.reply
        /\ c'.open = TRUE /\ c'.temp = c.temp
    BY Fields DEF ClientAccept, ClientStates, KeepsCommand
  <1>4. \/ c.op = "ls" /\ c'.pc = "ls"
        \/ c.op = "skip" /\ c'.pc = "skip"
        \/ c.op \in {"get", "put"} /\ c'.pc = "dh_send"
    BY Fields, VerbFacts DEF ClientAccept, ClientStates
  <1>0. /\ c.pc = "accept" /\ pending /\ pending' = FALSE
        /\ UNCHANGED <<s, cfile, sfile, s2c, dc2s, ds2c, faults>>
    BY DEF ClientAccept, ctl, data
  <1> QED
    BY <1>0, <1>1, <1>2, <1>3, <1>4, Fields, CommandType

LEMMA ServerQuitEffect ==
    ASSUME TypeOK, ServerQuit
    PROVE  /\ s.pc = "idle" /\ c2s # <<>> /\ Head(c2s).verb = "QUIT"
           /\ s2c' = Append(s2c, Reply(221, Head(c2s).id))
           /\ UNCHANGED <<c, cfile, sfile, dc2s, ds2c, pending, faults>>
           /\ Received(1) /\ KeepsRequest /\ s'.pc = "exit" /\ s'.open = s.open
           /\ s'.key = s.key /\ s'.buf = s.buf /\ s'.temp = s.temp /\ s'.ok = s.ok
  BY Fields, ReceivedTail DEF ctl, data, ServerQuit, ServerStates, KeepsRequest

LEMMA ServerPortEffect ==
    ASSUME TypeOK, ServerPort
    PROVE  /\ s.pc = "idle" /\ c2s # <<>> /\ Head(c2s).verb # "QUIT"
           /\ UNCHANGED <<c, cfile, sfile, s2c, dc2s, ds2c, pending, faults>>
           /\ \E n \in 1..Len(c2s) : HasPort(n) /\ Received(n)
           /\ KeepsRequest /\ s'.pc = "setup" /\ s'.open = s.open
           /\ s'.key = s.key /\ s'.buf = s.buf /\ s'.temp = s.temp /\ s'.ok = s.ok
  <1>1. PICK n \in 1..Len(c2s) : HasPort(n) /\ TakeCommands(n)
    BY DEF ServerPort
  <1>2. \E i \in 1..Len(c2s) : HasPort(i) /\ Received(i)
    BY <1>1, ReceivedTaken
  <1>3. /\ KeepsRequest /\ s'.pc = "setup" /\ s'.open = s.open
        /\ s'.key = s.key /\ s'.buf = s.buf /\ s'.temp = s.temp /\ s'.ok = s.ok
    BY Fields DEF ServerPort, ServerStates, KeepsRequest
  <1>0. /\ s.pc = "idle" /\ c2s # <<>> /\ Head(c2s).verb # "QUIT"
        /\ UNCHANGED <<c, cfile, sfile, s2c, dc2s, ds2c, pending, faults>>
    BY DEF ServerPort, ctl, data
  <1> QED
    BY <1>0, <1>2, <1>3

LEMMA ServerMergedEffect ==
    ASSUME TypeOK, ServerMerged
    PROVE  /\ s.pc = "cmd"
           /\ UNCHANGED <<c, cfile, sfile, s2c, dc2s, ds2c, pending, faults>>
           /\ \E n \in 2..Len(c2s) : Received(n)
           /\ KeepsRequest /\ s'.pc = "close" /\ s'.open = s.open
           /\ s'.key = s.key /\ s'.buf = s.buf /\ s'.temp = s.temp /\ s'.ok = s.ok
  <1>1. PICK n \in 2..Len(c2s) : TakeCommands(n)
    BY DEF ServerMerged
  <1>2. n \in 1..Len(c2s)
    OBVIOUS
  <1>3. \E i \in 2..Len(c2s) : Received(i)
    BY <1>1, <1>2, ReceivedTaken
  <1>4. /\ KeepsRequest /\ s'.pc = "close" /\ s'.open = s.open
        /\ s'.key = s.key /\ s'.buf = s.buf /\ s'.temp = s.temp /\ s'.ok = s.ok
    BY Fields DEF ServerMerged, ServerStates, KeepsRequest
  <1>0. /\ s.pc = "cmd"
        /\ UNCHANGED <<c, cfile, sfile, s2c, dc2s, ds2c, pending, faults>>
    BY DEF ServerMerged, ctl, data
  <1> QED
    BY <1>0, <1>3, <1>4

LEMMA ConnectEffect ==
    ASSUME TypeOK, ServerConnect
    PROVE  /\ s.pc = "setup" /\ UNCHANGED <<c, cfile, sfile, c2s, s2c, faults>>
           /\ KeepsRequest /\ s'.key = s.key /\ s'.buf = s.buf /\ s'.temp = s.temp
           /\ s'.ok = s.ok
           /\ \/ /\ ClientUp /\ s'.pc = "cmd" /\ s'.open = TRUE
                 /\ pending' = TRUE /\ dc2s' = <<>> /\ ds2c' = <<>>
              \/ s'.pc = "exit" /\ s'.open = s.open /\ UNCHANGED <<dc2s, ds2c, pending>>
  BY Fields DEF ServerConnect, ServerStates, ctl, data, KeepsRequest

LEMMA CommandEffect ==
    ASSUME TypeOK, PortInTurn, ServerCommand
    PROVE  /\ s.pc = "cmd" /\ c2s # <<>>
           /\ UNCHANGED <<c, cfile, sfile, dc2s, ds2c, pending, faults>>
           /\ Received(1) /\ Head(c2s).verb \in Verbs
           /\ s'.verb = Head(c2s).verb /\ s'.file = Head(c2s).file /\ s'.id = Head(c2s).id
           /\ s'.key = <<>> /\ s'.buf = <<>> /\ s'.open = s.open
           /\ s'.temp = s.temp /\ s'.ok = s.ok
           /\ \/ Head(c2s).verb = "LIST" /\ s'.pc = "list" /\ s2c' = s2c
              \/ Head(c2s).verb \in {"RETR", "STOR"} /\ s'.pc = "dh" /\ s2c' = s2c
              \/ /\ Head(c2s).verb = "SKIP" /\ s'.pc = "close"
                 /\ s2c' = Append(s2c, Reply(550, Head(c2s).id))
  <1> DEFINE m == Head(c2s)
  <1>1. Received(1)
    BY ReceivedTail DEF ServerCommand
  <1>2. m.verb \in Verbs
    BY DEF ServerCommand, PortInTurn
  <1> HIDE DEF m
  <1>3. /\ s' = [s EXCEPT !.verb = m.verb, !.file = m.file, !.id = m.id,
                          !.key = <<>>, !.buf = <<>>,
                          !.pc = CASE m.verb = "LIST" -> "list"
                                   [] m.verb \in {"RETR", "STOR"} -> "dh"
                                   [] OTHER -> "close"]
        /\ s2c' = IF m.verb = "SKIP" THEN Append(s2c, Reply(550, m.id)) ELSE s2c
    BY DEF ServerCommand, m
  <1>4. /\ s'.verb = m.verb /\ s'.file = m.file /\ s'.id = m.id
        /\ s'.key = <<>> /\ s'.buf = <<>> /\ s'.open = s.open
        /\ s'.temp = s.temp /\ s'.ok = s.ok
    BY <1>3, Fields DEF ServerStates
  <1>5. \/ m.verb = "LIST" /\ s'.pc = "list" /\ s2c' = s2c
        \/ m.verb \in {"RETR", "STOR"} /\ s'.pc = "dh" /\ s2c' = s2c
        \/ /\ m.verb = "SKIP" /\ s'.pc = "close"
           /\ s2c' = Append(s2c, Reply(550, m.id))
    BY <1>2, <1>3, VerbFacts, Fields DEF ServerStates
  <1>0. /\ s.pc = "cmd" /\ c2s # <<>>
        /\ UNCHANGED <<c, cfile, sfile, dc2s, ds2c, pending, faults>>
    BY DEF ServerCommand, ctl, data
  <1> QED
    BY <1>0, <1>1, <1>2, <1>4, <1>5 DEF m

(* What the steps do to the dispatch of commands and to the place of PORT. *)
LEMMA DispatchedClientStep ==
    ASSUME TypeOK, Dispatched, UserStep \/ ClientStep \/ ClientSigpipe \/ ClientKilled
    PROVE  Dispatched'
  <1>1. ASSUME NEW op \in Ops, NEW f \in Files, UserCommand(op, f) PROVE Dispatched'
    <2>1. /\ UNCHANGED s /\ c'.pc = "accept" /\ c'.file \in Files
          /\ Sent(Command("PORT", f, c.id + 1)) /\ Command("PORT", f, c.id + 1).verb = "PORT"
      BY <1>1, UserCommandEffect DEF KeepsCommand, KeepsRequest
    <2> QED
      BY <2>1 DEF KeepsRequest, Sent, Dispatched, Busy, InDH, InGet, InPut, Retr, Stor,
         Serving
  <1>2. CASE UserQuit
    <2>1. UNCHANGED s /\ KeepsCommand /\ c'.pc = "quit"
      BY <1>2, UserQuitEffect
    <2> DEFINE m == Command("QUIT", None, c.id)
    <2>2. Sent(m) /\ m.verb = "QUIT"
      BY <1>2, UserQuitEffect
    <2> HIDE DEF m
    <2>3. \A i \in 1..Len(c2s') : c2s'[i].verb \in {"RETR", "STOR"} => c2s'[i].file \in Files
      BY <2>1, <2>2, CommandLen DEF Sent, Dispatched
    <2> QED
      BY <2>1, <2>3 DEF Dispatched, Busy, InDH, InGet, InPut, Retr, Stor, Serving,
         KeepsCommand
  <1>3. CASE ClientAccept
    <2>1. UNCHANGED s /\ KeepsCommand /\ c.pc = "accept"
          /\ \/ c.op = "ls" /\ c'.pc = "ls"
             \/ c.op = "skip" /\ c'.pc = "skip"
             \/ c.op \in {"get", "put"} /\ c'.pc = "dh_send"
      BY <1>3, AcceptEffect
    <2> DEFINE m == Command(Verb[c.op], c.file, c.id)
    <2>2. Sent(m) /\ m.file = c.file
      BY <1>3, AcceptEffect
    <2> HIDE DEF m
    <2>3. \A i \in 1..Len(c2s') : c2s'[i].verb \in {"RETR", "STOR"} => c2s'[i].file \in Files
      BY <2>1, <2>2, CommandLen DEF Sent, Dispatched
    <2> QED
      BY <2>1, <2>3 DEF Dispatched, Busy, InDH, InGet, InPut, Retr, Stor, Serving,
         KeepsCommand
  <1>4. CASE ClientSkipReply
    BY <1>4, Locals, Lens DEF ClientSkipReply, ctl, data, Return, ClientStates,
       Dispatched, Busy, InDH, InGet, InPut, Retr, Stor, Serving
  <1>5. CASE ClientQuitReply
    BY <1>5, Locals, Lens DEF ClientQuitReply, ctl, data, ClientStates, Dispatched,
       Busy, InDH, InGet, InPut, Retr, Stor, Serving
  <1>6. CASE ClientLsControl
    <2>1. /\ UNCHANGED <<s, c2s>> /\ KeepsCommand /\ c.pc = "ls"
          /\ c'.pc \in {"dead", "ls", "prompt"}
      BY <1>6, LsControlEffect
    <2> QED
      BY <2>1 DEF KeepsCommand, Dispatched, Busy, InDH, InGet, InPut, Retr, Stor,
         Serving
  <1>7. CASE ClientLsData
    BY <1>7, LsDataEffect, Lens DEF KeepsCommand, Dispatched, Busy, InDH, InGet, InPut,
       Retr, Stor, Serving
  <1>8. CASE ClientDHSend
    BY <1>8, Locals, Lens DEF ClientDHSend, ctl, data, ClientStates, Dispatched, Busy,
       InDH, InGet, InPut, Retr, Stor, Serving
  <1>9. CASE ClientDHRecv
    BY <1>9, DHRecvEffect, Lens DEF KeepsCommand, Dispatched, Busy, InDH, InGet, InPut,
       Retr, Stor, Serving
  <1>10. CASE ClientGetOpen
    BY <1>10, Locals, Lens DEF ClientGetOpen, ctl, data, Return, ClientStates,
       Dispatched, Busy, InDH, InGet, InPut, Retr, Stor, Serving
  <1>11. CASE ClientGetRecv
    BY <1>11, Locals, Lens DEF ClientGetRecv, ctl, data, ClientStates, Dispatched,
       Busy, InDH, InGet, InPut, Retr, Stor, Serving
  <1>12. CASE ClientGetReply
    <2>1. /\ UNCHANGED <<s, c2s, dc2s, ds2c, pending>> /\ KeepsCommand
          /\ c.pc \in {"get_reply", "get_abort"} /\ c'.pc \in {"get_process", "prompt"}
      BY <1>12, GetReplyEffect DEF KeepsCommand, KeepsRequest
    <2> QED
      BY <2>1 DEF KeepsCommand, Dispatched, Busy, InDH, InGet, InPut, Retr, Stor,
         Serving
  <1>13. CASE ClientGetDecrypt \/ ClientGetUncomp
    BY <1>13, GetProcessControl, Lens DEF KeepsCommand, Dispatched, Busy, InDH, InGet,
       InPut, Retr, Stor, Serving
  <1>14. CASE ClientPutPrepare
    <2>1. /\ UNCHANGED s /\ KeepsCommand /\ c.pc = "put_prepare"
          /\ c'.pc \in {"put_skip", "put_send", "prompt"}
      BY <1>14, PutPrepareEffect
    <2> DEFINE m == Command("SKIP", None, c.id)
    <2>2. c2s' = c2s \/ (Sent(m) /\ m.verb = "SKIP")
      BY <1>14, PutPrepareEffect
    <2> HIDE DEF m
    <2>3. \A i \in 1..Len(c2s') : c2s'[i].verb \in {"RETR", "STOR"} => c2s'[i].file \in Files
      BY <2>2, CommandLen DEF Sent, Dispatched
    <2> QED
      BY <2>1, <2>3 DEF Dispatched, Busy, InDH, InGet, InPut, Retr, Stor, Serving,
         KeepsCommand
  <1>15. CASE ClientPutWrite
    BY <1>15, Locals, Lens DEF ClientPutWrite, ctl, data, ClientStates, Dispatched,
       Busy, InDH, InGet, InPut, Retr, Stor, Serving
  <1>16. CASE ClientPutClose
    BY <1>16, PutCloseEffect, Lens DEF KeepsCommand, Dispatched, Busy, InDH, InGet,
       InPut, Retr, Stor, Serving
  <1>17. CASE ClientPutReply
    BY <1>17, PutReplyEffect, Lens DEF KeepsCommand, Dispatched, Busy, InDH, InGet,
       InPut, Retr, Stor, Serving
  <1>18. CASE ClientSigpipe
    BY <1>18, Locals, Lens DEF ClientSigpipe, ctl, data, Crash, ClientStates,
       Dispatched, Busy, InDH, InGet, InPut, Retr, Stor, Serving
  <1>19. CASE ClientKilled
    BY <1>19, Locals, Lens DEF ClientKilled, ctl, data, Crash, ClientStates,
       Dispatched, Busy, InDH, InGet, InPut, Retr, Stor, Serving
  <1> QED
    BY <1>1, <1>2, <1>3, <1>4, <1>5, <1>6, <1>7, <1>8, <1>9, <1>10, <1>11, <1>12,
       <1>13, <1>14, <1>15, <1>16, <1>17, <1>18, <1>19 DEF UserStep, ClientStep

LEMMA DispatchedServerStep ==
    ASSUME TypeOK, Dispatched, PortInTurn, ServerStep \/ ServerSigpipe \/ ServerKilled
    PROVE  Dispatched'
  <1>1. CASE ServerQuit
    <2>1. UNCHANGED c /\ KeepsRequest /\ s'.pc = "exit"
      BY <1>1, ServerQuitEffect
    <2>2. PICK n \in 1..Len(c2s) : Received(n)
      BY <1>1, ServerQuitEffect DEF Received
    <2>3. \A i \in 1..Len(c2s') : c2s'[i].verb \in {"RETR", "STOR"} => c2s'[i].file \in Files
      BY <2>2, CommandLen DEF Received, Dispatched
    <2> QED
      BY <2>1, <2>3 DEF Dispatched, Busy, InDH, InGet, InPut, Retr, Stor, Serving,
         KeepsRequest
  <1>2. CASE ServerPort
    <2>1. UNCHANGED c /\ KeepsRequest /\ s'.pc = "setup"
      BY <1>2, ServerPortEffect
    <2>2. PICK n \in 1..Len(c2s) : Received(n)
      BY <1>2, ServerPortEffect DEF Received
    <2>3. \A i \in 1..Len(c2s') : c2s'[i].verb \in {"RETR", "STOR"} => c2s'[i].file \in Files
      BY <2>2, CommandLen DEF Received, Dispatched
    <2> QED
      BY <2>1, <2>3 DEF Dispatched, Busy, InDH, InGet, InPut, Retr, Stor, Serving,
         KeepsRequest
  <1>3. CASE ServerGarbled
    BY <1>3, Locals, Lens DEF ServerGarbled, ctl, data, Crash, ServerStates,
       Dispatched, Busy, InDH, InGet, InPut, Retr, Stor, Serving
  <1>4. CASE ServerConnect
    BY <1>4, Locals, Lens DEF ServerConnect, ctl, data, ServerStates, Dispatched, Busy,
       InDH, InGet, InPut, Retr, Stor, Serving
  <1>5. CASE ServerCommand
    <2>1. UNCHANGED c /\ Received(1)
      BY <1>5, CommandEffect
    <2>2. Head(c2s).verb \in {"RETR", "STOR"} => Head(c2s).file \in Files
      BY <2>1, CommandLen DEF Received, Dispatched
    <2>3. \/ Head(c2s).verb = "LIST" /\ s'.pc = "list"
          \/ /\ Head(c2s).verb \in {"RETR", "STOR"} /\ s'.pc = "dh"
             /\ s'.verb = Head(c2s).verb /\ s'.file = Head(c2s).file
          \/ Head(c2s).verb = "SKIP" /\ s'.pc = "close"
      BY <1>5, CommandEffect
    <2>4. PICK n \in 1..Len(c2s) : Received(n)
      BY <2>1 DEF Received
    <2>5. \A i \in 1..Len(c2s') : c2s'[i].verb \in {"RETR", "STOR"} => c2s'[i].file \in Files
      BY <2>4, CommandLen DEF Received, Dispatched
    <2> QED
      BY <2>1, <2>2, <2>3, <2>5 DEF Dispatched, Busy, InDH, InGet, InPut, Retr, Stor,
         Serving
  <1>6. CASE ServerMerged
    <2>1. UNCHANGED c /\ KeepsRequest /\ s'.pc = "close"
      BY <1>6, ServerMergedEffect
    <2>2. PICK n \in 1..Len(c2s) : Received(n)
      BY <1>6, ServerMergedEffect DEF Received
    <2>3. \A i \in 1..Len(c2s') : c2s'[i].verb \in {"RETR", "STOR"} => c2s'[i].file \in Files
      BY <2>2, CommandLen DEF Received, Dispatched
    <2> QED
      BY <2>1, <2>3 DEF Dispatched, Busy, InDH, InGet, InPut, Retr, Stor, Serving,
         KeepsRequest
  <1>7. CASE ServerClose
    BY <1>7, Locals, Lens DEF ServerClose, ctl, data, ServerStates, Dispatched, Busy,
       InDH, InGet, InPut, Retr, Stor, Serving
  <1>8. CASE ServerList
    BY <1>8, ListEffect, Lens DEF KeepsRequest, Dispatched, Busy, InDH, InGet, InPut,
       Retr, Stor, Serving
  <1>9. CASE ServerDH
    BY <1>9, ServerDHEffect, Lens DEF KeepsRequest, Dispatched, Busy, InDH, InGet,
       InPut, Retr, Stor, Serving
  <1>10. CASE ServerRetrOpen
    <2>1. /\ UNCHANGED <<c, c2s, dc2s, ds2c, pending>> /\ KeepsRequest /\ s.pc = "retr_open" /\ s'.pc \in {"close", "retr_send"}
      BY <1>10, RetrOpenEffect DEF KeepsCommand, KeepsRequest
    <2> QED
      BY <2>1 DEF KeepsRequest, Dispatched, Busy, InDH, InGet, InPut, Retr, Stor,
         Serving
  <1>11. CASE ServerRetrWrite
    BY <1>11, Locals, Lens DEF ServerRetrWrite, ctl, data, ServerStates, Dispatched,
       Busy, InDH, InGet, InPut, Retr, Stor, Serving
  <1>12. CASE ServerRetrDone
    BY <1>12, Locals, Lens DEF ServerRetrDone, ctl, data, Leave, ServerStates,
       Dispatched, Busy, InDH, InGet, InPut, Retr, Stor, Serving
  <1>13. CASE ServerStorOpen
    BY <1>13, Locals, Lens DEF ServerStorOpen, ctl, data, Leave, ServerStates,
       Dispatched, Busy, InDH, InGet, InPut, Retr, Stor, Serving
  <1>14. CASE ServerStorRecv
    BY <1>14, Locals, Lens DEF ServerStorRecv, ctl, data, ServerStates, Dispatched,
       Busy, InDH, InGet, InPut, Retr, Stor, Serving
  <1>15. CASE ServerStorEof
    BY <1>15, Locals, Lens DEF ServerStorEof, ctl, data, ServerStates, Dispatched,
       Busy, InDH, InGet, InPut, Retr, Stor, Serving
  <1>16. CASE ServerStorDecrypt \/ ServerStorUncomp
    BY <1>16, StorProcessControl, Lens DEF KeepsRequest, Dispatched, Busy, InDH, InGet,
       InPut, Retr, Stor, Serving
  <1>17. CASE ServerSigpipe
    BY <1>17, Locals, Lens DEF ServerSigpipe, ctl, data, Crash, ServerStates,
       Dispatched, Busy, InDH, InGet, InPut, Retr, Stor, Serving
  <1>18. CASE ServerKilled
    BY <1>18, Locals, Lens DEF ServerKilled, ctl, data, Crash, ServerStates,
       Dispatched, Busy, InDH, InGet, InPut, Retr, Stor, Serving
  <1> QED
    BY <1>1, <1>2, <1>3, <1>4, <1>5, <1>6, <1>7, <1>8, <1>9, <1>10, <1>11, <1>12,
       <1>13, <1>14, <1>15, <1>16, <1>17, <1>18 DEF ServerStep

LEMMA PortInTurnClientStep ==
    ASSUME TypeOK, Dispatched, PortInTurn, UserStep \/ ClientStep \/ ClientSigpipe \/ ClientKilled
    PROVE  PortInTurn'
  <1>1. ASSUME NEW op \in Ops, NEW f \in Files, UserCommand(op, f) PROVE PortInTurn'
    <2>1. UNCHANGED <<s, dc2s, ds2c>> /\ UNCHANGED pending /\ c.pc = "prompt" /\ c'.pc = "accept"
      BY <1>1, UserCommandEffect
    <2> DEFINE m == Command("PORT", f, c.id + 1)
    <2>2. Sent(m) /\ m.verb = "PORT"
      BY <1>1, UserCommandEffect
    <2> HIDE DEF m
    <2> QED
      BY <2>1, <2>2, CommandLen DEF Sent, PortInTurn
  <1>2. CASE UserQuit
    <2>1. UNCHANGED <<s, dc2s, ds2c>> /\ UNCHANGED pending /\ c.pc = "prompt" /\ c'.pc = "quit"
      BY <1>2, UserQuitEffect
    <2> DEFINE m == Command("QUIT", None, c.id)
    <2>2. Sent(m) /\ m.verb = "QUIT"
      BY <1>2, UserQuitEffect
    <2> HIDE DEF m
    <2> QED
      BY <2>1, <2>2, CommandLen DEF Sent, PortInTurn
  <1>3. CASE ClientAccept
    <2>1. UNCHANGED <<s, dc2s, ds2c>> /\ c.pc = "accept" /\ pending /\ pending' = FALSE
      BY <1>3, AcceptEffect
    <2> DEFINE m == Command(Verb[c.op], c.file, c.id)
    <2>2. Sent(m) /\ m.verb \in {"LIST", "RETR", "STOR", "SKIP"} /\ m.verb \in Verbs
      BY <1>3, AcceptEffect, VerbFacts
    <2> HIDE DEF m
    <2> QED
      BY <2>1, <2>2, CommandLen DEF Sent, PortInTurn
  <1>4. CASE ClientSkipReply
    BY <1>4, Locals, Lens DEF ClientSkipReply, ctl, data, Return, ClientStates,
       PortInTurn
  <1>5. CASE ClientQuitReply
    BY <1>5, Locals, Lens DEF ClientQuitReply, ctl, data, ClientStates, PortInTurn
  <1>6. CASE ClientLsControl
    BY <1>6, LsControlEffect, Lens DEF KeepsCommand, PortInTurn
  <1>7. CASE ClientLsData
    BY <1>7, LsDataEffect, Lens DEF KeepsCommand, PortInTurn
  <1>8. CASE ClientDHSend
    BY <1>8, Locals, Lens DEF ClientDHSend, ctl, data, ClientStates, PortInTurn
  <1>9. CASE ClientDHRecv
    BY <1>9, DHRecvEffect, Lens DEF KeepsCommand, PortInTurn
  <1>10. CASE ClientGetOpen
    BY <1>10, Locals, Lens DEF ClientGetOpen, ctl, data, Return, ClientStates,
       PortInTurn
  <1>11. CASE ClientGetRecv
    BY <1>11, Locals, Lens DEF ClientGetRecv, ctl, data, ClientStates, PortInTurn
  <1>12. CASE ClientGetReply
    <2>1. /\ UNCHANGED <<s, c2s, dc2s, ds2c, pending>> /\ KeepsCommand
          /\ c.pc \in {"get_reply", "get_abort"} /\ c'.pc \in {"get_process", "prompt"}
      BY <1>12, GetReplyEffect DEF KeepsCommand, KeepsRequest
    <2> QED
      BY <2>1 DEF KeepsCommand, PortInTurn
  <1>13. CASE ClientGetDecrypt \/ ClientGetUncomp
    <2>1. /\ UNCHANGED <<s, c2s, dc2s, ds2c, pending>>
          /\ c.pc \in {"get_process", "get_uncomp"}
      BY <1>13, GetProcessControl, Zenon
    <2> QED
      BY <2>1 DEF PortInTurn
  <1>14. CASE ClientPutPrepare
    <2>1. /\ UNCHANGED <<s, dc2s, ds2c, pending>> /\ c.pc = "put_prepare"
      BY <1>14, PutPrepareEffect
    <2> DEFINE m == Command("SKIP", None, c.id)
    <2>2. c2s' = c2s \/ (Sent(m) /\ m.verb = "SKIP" /\ m.verb \in Verbs)
      BY <1>14, PutPrepareEffect, VerbFacts
    <2> HIDE DEF m
    <2> QED
      BY <2>1, <2>2, CommandLen DEF Sent, PortInTurn
  <1>15. CASE ClientPutWrite
    BY <1>15, Locals, Lens DEF ClientPutWrite, ctl, data, ClientStates, PortInTurn
  <1>16. CASE ClientPutClose
    BY <1>16, PutCloseEffect, Lens DEF KeepsCommand, PortInTurn
  <1>17. CASE ClientPutReply
    BY <1>17, PutReplyEffect, Lens DEF KeepsCommand, PortInTurn
  <1>18. CASE ClientSigpipe
    BY <1>18, Locals, Lens DEF ClientSigpipe, ctl, data, Crash, ClientStates, PortInTurn
  <1>19. CASE ClientKilled
    BY <1>19, Locals, Lens DEF ClientKilled, ctl, data, Crash, ClientStates, PortInTurn
  <1> QED
    BY <1>1, <1>2, <1>3, <1>4, <1>5, <1>6, <1>7, <1>8, <1>9, <1>10, <1>11, <1>12,
       <1>13, <1>14, <1>15, <1>16, <1>17, <1>18, <1>19 DEF UserStep, ClientStep

LEMMA PortInTurnServerStep ==
    ASSUME TypeOK, Dispatched, PortInTurn, ServerStep \/ ServerSigpipe \/ ServerKilled
    PROVE  PortInTurn'
  <1>1. CASE ServerQuit
    <2>1. /\ UNCHANGED <<c, dc2s, ds2c, pending>> /\ s.pc = "idle" /\ s'.pc = "exit"
      BY <1>1, ServerQuitEffect
    <2>2. PICK n \in 1..Len(c2s) : Received(n)
      BY <1>1, ServerQuitEffect DEF Received
    <2> QED
      BY <2>1, <2>2, CommandLen DEF Received, PortInTurn
  <1>2. CASE ServerPort
    <2>1. /\ UNCHANGED <<c, dc2s, ds2c, pending>> /\ s.pc = "idle" /\ s'.pc = "setup"
      BY <1>2, ServerPortEffect
    <2>2. PICK n \in 1..Len(c2s) : HasPort(n) /\ Received(n)
      BY <1>2, ServerPortEffect
    <2>3. PICK i \in 1..n : c2s[i].verb = "PORT"
      BY <2>2 DEF HasPort
    <2>4. i = Len(c2s) /\ c.pc \in {"accept", "dead"} /\ ~pending
      BY <2>2, <2>3, CommandLen DEF PortInTurn
    <2>5. n = Len(c2s) /\ c2s' = <<>>
      BY <2>2, <2>4, CommandLen DEF Received
    <2> QED
      BY <2>1, <2>4, <2>5 DEF PortInTurn
  <1>3. CASE ServerGarbled
    BY <1>3, Locals, Lens DEF ServerGarbled, ctl, data, Crash, ServerStates, PortInTurn
  <1>4. CASE ServerConnect
    <2>1. /\ UNCHANGED <<c, c2s>> /\ s.pc = "setup"
          /\ \/ /\ ClientUp /\ s'.pc = "cmd"
                /\ pending' = TRUE /\ dc2s' = <<>> /\ ds2c' = <<>>
             \/ s'.pc = "exit" /\ UNCHANGED <<pending, dc2s, ds2c>>
      BY <1>4, Locals DEF ServerConnect, ServerStates, ctl, data
    <2> QED
      BY <2>1 DEF PortInTurn, ClientUp
  <1>5. CASE ServerCommand
    <2>1. /\ UNCHANGED <<c, dc2s, ds2c, pending>> /\ s.pc = "cmd"
          /\ s'.pc \in {"list", "dh", "close"}
      BY <1>5, CommandEffect
    <2>2. PICK n \in 1..Len(c2s) : Received(n)
      BY <1>5, CommandEffect DEF Received
    <2> QED
      BY <2>1, <2>2, CommandLen DEF Received, PortInTurn
  <1>6. CASE ServerMerged
    <2>1. /\ UNCHANGED <<c, dc2s, ds2c, pending>> /\ s.pc = "cmd" /\ s'.pc = "close"
      BY <1>6, ServerMergedEffect
    <2>2. PICK n \in 1..Len(c2s) : Received(n)
      BY <1>6, ServerMergedEffect DEF Received
    <2> QED
      BY <2>1, <2>2, CommandLen DEF Received, PortInTurn
  <1>7. CASE ServerClose
    BY <1>7, Locals, Lens DEF ServerClose, ctl, data, ServerStates, PortInTurn
  <1>8. CASE ServerList
    BY <1>8, ListEffect, Lens DEF KeepsRequest, PortInTurn
  <1>9. CASE ServerDH
    BY <1>9, ServerDHEffect, Lens DEF KeepsRequest, PortInTurn
  <1>10. CASE ServerRetrOpen
    <2>1. /\ UNCHANGED <<c, c2s, dc2s, ds2c, pending>> /\ KeepsRequest /\ s.pc = "retr_open" /\ s'.pc \in {"close", "retr_send"}
      BY <1>10, RetrOpenEffect DEF KeepsCommand, KeepsRequest
    <2> QED
      BY <2>1 DEF KeepsRequest, PortInTurn
  <1>11. CASE ServerRetrWrite
    BY <1>11, Locals, Lens DEF ServerRetrWrite, ctl, data, ServerStates, PortInTurn
  <1>12. CASE ServerRetrDone
    BY <1>12, Locals, Lens DEF ServerRetrDone, ctl, data, Leave, ServerStates,
       PortInTurn
  <1>13. CASE ServerStorOpen
    BY <1>13, Locals, Lens DEF ServerStorOpen, ctl, data, Leave, ServerStates,
       PortInTurn
  <1>14. CASE ServerStorRecv
    BY <1>14, Locals, Lens DEF ServerStorRecv, ctl, data, ServerStates, PortInTurn
  <1>15. CASE ServerStorEof
    BY <1>15, Locals, Lens DEF ServerStorEof, ctl, data, ServerStates, PortInTurn
  <1>16. CASE ServerStorDecrypt \/ ServerStorUncomp
    BY <1>16, StorProcessControl, Lens DEF KeepsRequest, PortInTurn
  <1>17. CASE ServerSigpipe
    BY <1>17, Locals, Lens DEF ServerSigpipe, ctl, data, Crash, ServerStates, PortInTurn
  <1>18. CASE ServerKilled
    BY <1>18, Locals, Lens DEF ServerKilled, ctl, data, Crash, ServerStates, PortInTurn
  <1> QED
    BY <1>1, <1>2, <1>3, <1>4, <1>5, <1>6, <1>7, <1>8, <1>9, <1>10, <1>11, <1>12,
       <1>13, <1>14, <1>15, <1>16, <1>17, <1>18 DEF ServerStep

(* TypeInv is inductive: only with what the control queue may hold (PORT   *)
(* last, and a child that has read it next reads a command proper) is what *)
(* a child takes for its command one.                                      *)
LEMMA TypeInvStep == TypeInv /\ [Next]_vars => TypeInv'
  <1> SUFFICES ASSUME TypeInv, [Next]_vars PROVE TypeInv'
    OBVIOUS
  <1>1. TypeOK /\ Dispatched /\ PortInTurn
    BY DEF TypeInv
  <1>2. CASE UserStep \/ ClientStep \/ ClientSigpipe \/ ClientKilled
    <2>1. TypeOK' /\ Dispatched' /\ PortInTurn'
      BY <1>1, <1>2, ClientTypeStep, DispatchedClientStep, PortInTurnClientStep, Zenon
    <2> QED
      BY <2>1 DEF TypeInv
  <1>3. CASE ServerStep \/ ServerSigpipe \/ ServerKilled
    <2>1. TypeOK' /\ Dispatched' /\ PortInTurn'
      BY <1>1, <1>3, ServerTypeStep, DispatchedServerStep, PortInTurnServerStep, Zenon
    <2> QED
      BY <2>1 DEF TypeInv
  <1>4. CASE UNCHANGED vars
    BY <1>1, <1>4 DEF vars, TypeInv, TypeOK, Dispatched, PortInTurn
  <1> QED
    BY <1>2, <1>3, <1>4 DEF Next, SignalStep

LEMMA TypeInvInit == Init => TypeInv
  <1> SUFFICES ASSUME Init PROVE TypeInv
    OBVIOUS
  <1>1. TypeOK
    BY TypeInit
  <1>2. c.pc = "prompt" /\ s.pc = "idle" /\ c2s = <<>> /\ ~pending
    BY DEF Init
  <1>3. Dispatched
    BY <1>2 DEF Dispatched, Busy, InDH, InGet, InPut, Retr, Stor, Serving
  <1>4. PortInTurn
    BY <1>2 DEF PortInTurn
  <1> QED
    BY <1>1, <1>3, <1>4 DEF TypeInv

(* Whatever is entered, prepared, lost or killed, the two programs' state  *)
(* and everything in flight keep their types, a handler runs only for the  *)
(* verb it is for, and PORT is read in its turn.                           *)
THEOREM TypeInvHolds == Spec => []TypeInv
  BY TypeInvInit, TypeInvStep, PTL DEF Spec

(* Both programs' state, the queues between them, the signal and the two   *)
(* directories keep their types.                                           *)
THEOREM TypeCorrect == Spec => []TypeOK
  <1>1. TypeInv => TypeOK
    BY DEF TypeInv
  <1> QED
    BY <1>1, TypeInvHolds, PTL

(***************************************************************************)
(* How the two programs of a session keep step.                            *)
(***************************************************************************)

(* A read of the control connection that returns nothing means that the    *)
(* child has gone.                                                         *)
LEMMA DownWithoutReply ==
    ASSUME TypeOK, NotBefore, ControlReadable, TakeReplies, ReplyRead.code = 0
    PROVE  ~ServerUp
  <1>1. PICK n \in 0..Len(s2c) : Taken(n)
    BY TakenReplies
  <1>2. CASE n = 0
    <2>1. s2c = <<>>
      BY <1>1, <1>2, Fields, EmptyFacts DEF Taken
    <2> QED
      BY <2>1 DEF ControlReadable
  <1>3. CASE n > 0
    BY <1>1, <1>3, ReplyLen DEF Taken, NotBefore
  <1> QED
    BY <1>2, <1>3, ReplyLen

(* The commands in flight, and the first of them.                          *)
LEMMA CommandIds == TypeOK =>
      \A i \in 1..Len(c2s) : c2s[i] \in Commands /\ c2s[i].id \in Nat
  <1> SUFFICES ASSUME TypeOK, NEW i \in 1..Len(c2s)
               PROVE  c2s[i] \in Commands /\ c2s[i].id \in Nat
    OBVIOUS
  <1>1. c2s[i] \in Commands
    BY Fields
  <1> QED
    BY <1>1, TransferAssumption DEF Commands, Ids

LEMMA CommandHead ==
    ASSUME TypeOK, c2s # <<>>
    PROVE  Head(c2s) = c2s[1] /\ 1 \in 1..Len(c2s)
  BY Fields, TailFacts

-----------------------------------------------------------------------------
(* Sockets: which data sockets are open. The client's loops over both      *)
(* connections end at a failed read of the control connection only when    *)
(* the child has gone, and with it the child's socket.                     *)
LEMMA SocketsClientStep ==
    ASSUME TypeOK, Dispatched, PortInTurn, Sockets, NotBefore,
           UserStep \/ ClientStep \/ ClientSigpipe \/ ClientKilled
    PROVE  Sockets'
  <1>1. ASSUME NEW op \in Ops, NEW f \in Files, UserCommand(op, f) PROVE Sockets'
    BY <1>1, UserCommandEffect, Lens DEF KeepsRequest, Sent, Sockets, ClientDataClosed,
       ServerDataClosed, ServerUp, Busy, InDH, InGet, InPut, Retr, Stor, Serving
  <1>2. CASE UserQuit
    BY <1>2, UserQuitEffect, Lens DEF KeepsRequest, Sent, Sockets, ClientDataClosed,
       ServerDataClosed, ServerUp, Busy, InDH, InGet, InPut, Retr, Stor, Serving
  <1>3. CASE ClientAccept
    BY <1>3, AcceptEffect, Lens DEF KeepsCommand, Sent, Sockets, ClientDataClosed,
       ServerDataClosed, ServerUp, Busy, InDH, InGet, InPut, Retr, Stor, Serving
  <1>4. CASE ClientSkipReply
    BY <1>4, Locals, Lens DEF ClientSkipReply, ctl, data, Return, ClientStates, Sockets,
       ClientDataClosed, ServerDataClosed, ServerUp, Busy, InDH, InGet, InPut, Retr,
       Stor, Serving
  <1>5. CASE ClientQuitReply
    BY <1>5, Locals, Lens DEF ClientQuitReply, ctl, data, ClientStates, Sockets,
       ClientDataClosed, ServerDataClosed, ServerUp, Busy, InDH, InGet, InPut, Retr,
       Stor, Serving
  <1>6. CASE ClientLsControl
    <2>1. /\ UNCHANGED <<s, c2s, pending, faults>> /\ c.pc = "ls" /\ KeepsCommand
          /\ c'.dataDone = c.dataDone /\ TakeReplies /\ ControlReadable
      BY <1>6, LsControlEffect
    <2>2. \/ ReplyRead.code = 0 /\ c'.pc = "dead" /\ c'.open = FALSE
          \/ c'.pc = "ls" /\ c'.open = c.open
          \/ c'.pc = "prompt" /\ c'.open = FALSE
      BY <1>6, LsControlEffect
    <2>3. ReplyRead.code = 0 => ~s.open
      BY <2>1, DownWithoutReply DEF Sockets, ServerUp, Busy, InDH, InGet, InPut, Retr,
         Stor, Serving
    <2> QED
      BY <2>1, <2>2, <2>3 DEF Sockets, Busy, InDH, InGet, InPut, Retr, Stor, Serving
  <1>7. CASE ClientLsData
    BY <1>7, LsDataEffect, Lens DEF KeepsCommand, Sockets, ClientDataClosed,
       ServerDataClosed, ServerUp, Busy, InDH, InGet, InPut, Retr, Stor, Serving
  <1>8. CASE ClientDHSend
    BY <1>8, Locals, Lens DEF ClientDHSend, ctl, data, ClientStates, Sockets,
       ClientDataClosed, ServerDataClosed, ServerUp, Busy, InDH, InGet, InPut, Retr,
       Stor, Serving
  <1>9. CASE ClientDHRecv
    BY <1>9, DHRecvEffect, Lens DEF KeepsCommand, Sockets, ClientDataClosed,
       ServerDataClosed, ServerUp, Busy, InDH, InGet, InPut, Retr, Stor, Serving
  <1>10. CASE ClientGetOpen
    BY <1>10, GetOpenEffect, Lens DEF KeepsCommand, Sockets, ClientDataClosed,
       ServerDataClosed, ServerUp, Busy, InDH, InGet, InPut, Retr, Stor, Serving
  <1>11. CASE ClientGetRecv
    BY <1>11, GetRecvEffect, Lens DEF KeepsCommand, Sockets, ClientDataClosed,
       ServerDataClosed, ServerUp, Busy, InDH, InGet, InPut, Retr, Stor, Serving
  <1>12. CASE ClientGetReply
    BY <1>12, GetReplyEffect, Lens DEF KeepsCommand, Sockets, ClientDataClosed,
       ServerDataClosed, ServerUp, Busy, InDH, InGet, InPut, Retr, Stor, Serving
  <1>13. CASE ClientGetDecrypt \/ ClientGetUncomp
    BY <1>13, GetProcessControl, Lens DEF KeepsCommand, Sockets, ClientDataClosed,
       ServerDataClosed, ServerUp, Busy, InDH, InGet, InPut, Retr, Stor, Serving
  <1>14. CASE ClientPutPrepare
    BY <1>14, PutPrepareEffect, Lens DEF KeepsCommand, Sent, Sockets, ClientDataClosed,
       ServerDataClosed, ServerUp, Busy, InDH, InGet, InPut, Retr, Stor, Serving
  <1>15. CASE ClientPutWrite
    BY <1>15, Locals, Lens DEF ClientPutWrite, ctl, data, ClientStates, Sockets,
       ClientDataClosed, ServerDataClosed, ServerUp, Busy, InDH, InGet, InPut, Retr,
       Stor, Serving
  <1>16. CASE ClientPutClose
    BY <1>16, PutCloseEffect, Lens DEF KeepsCommand, Sockets, ClientDataClosed,
       ServerDataClosed, ServerUp, Busy, InDH, InGet, InPut, Retr, Stor, Serving
  <1>17. CASE ClientPutReply
    <2>1. /\ UNCHANGED <<s, c2s, pending, faults>> /\ c.pc = "put_send" /\ KeepsCommand
          /\ c'.dataDone = c.dataDone /\ TakeReplies /\ ControlReadable
      BY <1>17, PutReplyEffect
    <2>2. \/ ReplyRead.code = 0 /\ c'.pc = "dead" /\ c'.open = FALSE
          \/ c'.pc = "put_send" /\ c'.open = c.open
          \/ c'.pc = "prompt" /\ c'.open = FALSE
      BY <1>17, PutReplyEffect
    <2>3. ReplyRead.code = 0 => ~s.open
      BY <2>1, DownWithoutReply DEF Sockets, ServerUp, Busy, InDH, InGet, InPut, Retr,
         Stor, Serving
    <2> QED
      BY <2>1, <2>2, <2>3 DEF Sockets, Busy, InDH, InGet, InPut, Retr, Stor, Serving
  <1>18. CASE ClientSigpipe
    BY <1>18, Locals, Lens DEF ClientSigpipe, ctl, data, Crash, ClientStates, Sockets,
       ClientDataClosed, ServerDataClosed, ServerUp, Busy, InDH, InGet, InPut, Retr,
       Stor, Serving
  <1>19. CASE ClientKilled
    BY <1>19, Locals, Lens DEF ClientKilled, ctl, data, Crash, ClientStates, Sockets,
       ClientDataClosed, ServerDataClosed, ServerUp, Busy, InDH, InGet, InPut, Retr,
       Stor, Serving
  <1> QED
    BY <1>1, <1>2, <1>3, <1>4, <1>5, <1>6, <1>7, <1>8, <1>9, <1>10, <1>11, <1>12, <1>13,
       <1>14, <1>15, <1>16, <1>17, <1>18, <1>19 DEF UserStep, ClientStep

LEMMA SocketsServerStep ==
    ASSUME TypeOK, Dispatched, PortInTurn, Sockets,
           ServerStep \/ ServerSigpipe \/ ServerKilled
    PROVE  Sockets'
  <1>1. CASE ServerQuit
    BY <1>1, ServerQuitEffect, Lens DEF KeepsRequest, Received, Sockets, ClientUp, Busy,
       InDH, InGet, InPut, Retr, Stor, Serving
  <1>2. CASE ServerPort
    BY <1>2, ServerPortEffect, Lens DEF KeepsRequest, Received, Sockets, ClientUp, Busy,
       InDH, InGet, InPut, Retr, Stor, Serving
  <1>3. CASE ServerGarbled
    BY <1>3, Locals, Lens DEF ServerGarbled, ctl, data, Crash, ServerStates, Sockets,
       ClientUp, Busy, InDH, InGet, InPut, Retr, Stor, Serving
  <1>4. CASE ServerConnect
    BY <1>4, ConnectEffect, Lens DEF KeepsRequest, Sockets, ClientUp, Busy, InDH, InGet,
       InPut, Retr, Stor, Serving
  <1>5. CASE ServerCommand
    BY <1>5, CommandEffect, Lens DEF KeepsRequest, Received, Sockets, ClientUp, Busy,
       InDH, InGet, InPut, Retr, Stor, Serving
  <1>6. CASE ServerMerged
    BY <1>6, ServerMergedEffect, Lens DEF KeepsRequest, Received, Sockets, ClientUp,
       Busy, InDH, InGet, InPut, Retr, Stor, Serving
  <1>7. CASE ServerClose
    BY <1>7, Locals, Lens DEF ServerClose, ctl, data, ServerStates, Sockets, ClientUp,
       Busy, InDH, InGet, InPut, Retr, Stor, Serving
  <1>8. CASE ServerList
    BY <1>8, ListEffect, Lens DEF KeepsRequest, Sockets, ClientUp, Busy, InDH, InGet,
       InPut, Retr, Stor, Serving
  <1>9. CASE ServerDH
    BY <1>9, ServerDHEffect, Lens DEF KeepsRequest, Sockets, ClientUp, Busy, InDH, InGet,
       InPut, Retr, Stor, Serving
  <1>10. CASE ServerRetrOpen
    <2>1. /\ UNCHANGED <<c, faults>> /\ s.pc = "retr_open" /\ s'.open = s.open
          /\ s'.pc \in {"close", "retr_send"}
      BY <1>10, RetrOpenEffect
    <2> QED
      BY <2>1 DEF Sockets, Busy, InDH, InGet, InPut, Retr, Stor, Serving
  <1>11. CASE ServerRetrWrite
    BY <1>11, Locals, Lens DEF ServerRetrWrite, ctl, data, ServerStates, Sockets,
       ClientUp, Busy, InDH, InGet, InPut, Retr, Stor, Serving
  <1>12. CASE ServerRetrDone
    BY <1>12, Locals, Lens DEF ServerRetrDone, ctl, data, Leave, ServerStates, Sockets,
       ClientUp, Busy, InDH, InGet, InPut, Retr, Stor, Serving
  <1>13. CASE ServerStorOpen
    BY <1>13, Locals, Lens DEF ServerStorOpen, ctl, data, Leave, ServerStates, Sockets,
       ClientUp, Busy, InDH, InGet, InPut, Retr, Stor, Serving
  <1>14. CASE ServerStorRecv
    BY <1>14, Locals, Lens DEF ServerStorRecv, ctl, data, ServerStates, Sockets,
       ClientUp, Busy, InDH, InGet, InPut, Retr, Stor, Serving
  <1>15. CASE ServerStorEof
    BY <1>15, Locals, Lens DEF ServerStorEof, ctl, data, ServerStates, Sockets, ClientUp,
       Busy, InDH, InGet, InPut, Retr, Stor, Serving
  <1>16. CASE ServerStorDecrypt \/ ServerStorUncomp
    BY <1>16, StorProcessControl, Lens DEF KeepsRequest, Sockets, ClientUp, Busy, InDH,
       InGet, InPut, Retr, Stor, Serving
  <1>17. CASE ServerSigpipe
    BY <1>17, Locals, Lens DEF ServerSigpipe, ctl, data, Crash, ServerStates, Sockets,
       ClientUp, Busy, InDH, InGet, InPut, Retr, Stor, Serving
  <1>18. CASE ServerKilled
    BY <1>18, Locals, Lens DEF ServerKilled, ctl, data, Crash, ServerStates, Sockets,
       ClientUp, Busy, InDH, InGet, InPut, Retr, Stor, Serving
  <1> QED
    BY <1>1, <1>2, <1>3, <1>4, <1>5, <1>6, <1>7, <1>8, <1>9, <1>10, <1>11, <1>12, <1>13,
       <1>14, <1>15, <1>16, <1>17, <1>18 DEF ServerStep

-----------------------------------------------------------------------------
(* Numbered: the numbers of commands grow, and one number is one command.  *)
LEMMA NumberedClientStep ==
    ASSUME TypeOK, Dispatched, PortInTurn, Numbered, Paired,
           UserStep \/ ClientStep \/ ClientSigpipe \/ ClientKilled
    PROVE  Numbered'
  <1>1. ASSUME NEW op \in Ops, NEW f \in Files, UserCommand(op, f) PROVE Numbered'
    <2>1. UNCHANGED s /\ c.pc = "prompt" /\ c'.pc = "accept" /\ c'.id = c.id + 1
      BY <1>1, UserCommandEffect
    <2> DEFINE m == Command("PORT", f, c.id + 1)
    <2>2. Sent(m) /\ m.verb = "PORT" /\ m.id = c.id + 1
      BY <1>1, UserCommandEffect
    <2> HIDE DEF m
    <2>3. s.pc = "cmd" => c2s # <<>> /\ Head(c2s) = c2s[1] /\ 1 \in 1..Len(c2s)
      BY <2>1, CommandHead DEF PortInTurn
    <2>4. s'.id <= c'.id /\ s'.id < c'.id /\ (s'.id = c'.id => FALSE)
      BY <2>1, Locals DEF Numbered
    <2>5. \A i \in 1..Len(c2s') :
            /\ c2s'[i].id <= c'.id
            /\ c2s'[i].verb # "QUIT"
            /\ c2s'[i].verb # "PORT" => c2s'[i].id < c'.id
      BY <2>1, <2>2, CommandIds, CommandLen, Locals DEF Sent, Numbered
    <2>6. s.pc = "cmd" /\ c2s' # <<>> => s'.id < Head(c2s').id /\ Head(c2s').id # c'.id
      BY <2>1, <2>2, <2>3, CommandIds, CommandLen, Locals DEF Sent, Numbered
    <2> QED
      BY <2>1, <2>4, <2>5, <2>6 DEF Numbered
  <1>2. CASE UserQuit
    <2>1. UNCHANGED s /\ KeepsCommand /\ c.pc = "prompt" /\ c'.pc = "quit"
      BY <1>2, UserQuitEffect
    <2> DEFINE m == Command("QUIT", None, c.id)
    <2>2. Sent(m) /\ m.id = c.id
      BY <1>2, UserQuitEffect
    <2> HIDE DEF m
    <2>3. s.pc = "cmd" => c2s # <<>>
      BY <2>1 DEF PortInTurn
    <2>4. \A i \in 1..Len(c2s') : c2s'[i].id <= c'.id /\ (c2s'[i].verb = "QUIT" => c2s'[i].id = c'.id)
      BY <2>1, <2>2, CommandLen, Locals DEF Sent, Numbered, KeepsCommand
    <2>5. s.pc = "cmd" => Head(c2s') = Head(c2s) /\ c2s # <<>>
      BY <2>2, <2>3 DEF Sent
    <2> QED
      BY <2>1, <2>4, <2>5 DEF Numbered, KeepsCommand
  <1>3. CASE ClientAccept
    <2>1. /\ UNCHANGED s /\ KeepsCommand /\ c.pc = "accept"
          /\ c'.pc \in {"ls", "skip", "dh_send"}
      BY <1>3, AcceptEffect
    <2> DEFINE m == Command(Verb[c.op], c.file, c.id)
    <2>2. Sent(m) /\ m.id = c.id /\ c2s = <<>> /\ m.verb \in Verbs
      BY <1>3, AcceptEffect DEF PortInTurn
    <2>3. m = Command(Verb[c.op], c.file, c.id)
      OBVIOUS
    <2>4. m.verb # "QUIT"
      BY <2>2, VerbFacts
    <2> HIDE DEF m
    <2>5. s.id < c.id
      BY <2>1 DEF Numbered
    <2>6. Len(c2s') = 1 /\ c2s'[1] = m /\ Head(c2s') = m
      BY <2>2 DEF Sent
    <2>7. \A i \in 1..Len(c2s') : c2s'[i] = m
      BY <2>6
    <2> QED
      BY <2>1, <2>2, <2>3, <2>4, <2>5, <2>6, <2>7, Locals DEF Numbered, KeepsCommand
  <1>4. CASE ClientSkipReply
    BY <1>4, Locals, Lens DEF ClientSkipReply, ctl, data, Return, ClientStates, Numbered
  <1>5. CASE ClientQuitReply
    BY <1>5, Locals, Lens DEF ClientQuitReply, ctl, data, ClientStates, Numbered
  <1>6. CASE ClientLsControl
    BY <1>6, LsControlEffect, Lens DEF KeepsCommand, Numbered
  <1>7. CASE ClientLsData
    BY <1>7, LsDataEffect, Lens DEF KeepsCommand, Numbered
  <1>8. CASE ClientDHSend
    BY <1>8, Locals, Lens DEF ClientDHSend, ctl, data, ClientStates, Numbered
  <1>9. CASE ClientDHRecv
    BY <1>9, DHRecvEffect, Lens DEF KeepsCommand, Numbered
  <1>10. CASE ClientGetOpen
    BY <1>10, GetOpenEffect, Lens DEF KeepsCommand, Numbered
  <1>11. CASE ClientGetRecv
    BY <1>11, GetRecvEffect, Lens DEF KeepsCommand, Numbered
  <1>12. CASE ClientGetReply
    BY <1>12, GetReplyEffect, Lens DEF KeepsCommand, Numbered
  <1>13. CASE ClientGetDecrypt \/ ClientGetUncomp
    BY <1>13, GetProcessControl, Lens DEF KeepsCommand, Numbered
  <1>14. CASE ClientPutPrepare
    <2>1. /\ UNCHANGED s /\ KeepsCommand /\ c.pc = "put_prepare"
          /\ c'.pc \in {"put_skip", "put_send", "prompt"}
      BY <1>14, PutPrepareEffect
    <2> DEFINE m == Command("SKIP", None, c.id)
    <2>2. c2s' = c2s \/ (Sent(m) /\ m.verb = "SKIP" /\ m.id = c.id)
      BY <1>14, PutPrepareEffect
    <2> HIDE DEF m
    <2>3. s.pc # "cmd"
      BY <2>1 DEF Paired, Busy, InDH, InGet, InPut, Retr, Stor, Serving
    <2>4. \A i \in 1..Len(c2s') : c2s'[i].id <= c.id /\ c2s'[i].verb # "QUIT"
      BY <2>1, <2>2, CommandLen, Locals DEF Sent, Numbered
    <2> QED
      BY <2>1, <2>3, <2>4 DEF Numbered, KeepsCommand
  <1>15. CASE ClientPutWrite
    BY <1>15, Locals, Lens DEF ClientPutWrite, ctl, data, ClientStates, Numbered
  <1>16. CASE ClientPutClose
    BY <1>16, PutCloseEffect, Lens DEF KeepsCommand, Numbered
  <1>17. CASE ClientPutReply
    BY <1>17, PutReplyEffect, Lens DEF KeepsCommand, Numbered
  <1>18. CASE ClientSigpipe
    BY <1>18, Locals, Lens DEF ClientSigpipe, ctl, data, Crash, ClientStates, Numbered
  <1>19. CASE ClientKilled
    BY <1>19, Locals, Lens DEF ClientKilled, ctl, data, Crash, ClientStates, Numbered
  <1> QED
    BY <1>1, <1>2, <1>3, <1>4, <1>5, <1>6, <1>7, <1>8, <1>9, <1>10, <1>11, <1>12, <1>13,
       <1>14, <1>15, <1>16, <1>17, <1>18, <1>19 DEF UserStep, ClientStep

LEMMA NumberedServerStep ==
    ASSUME TypeOK, Dispatched, PortInTurn, Numbered, Paired,
           ServerStep \/ ServerSigpipe \/ ServerKilled
    PROVE  Numbered'
  <1>1. CASE ServerQuit
    <2>1. UNCHANGED c /\ KeepsRequest /\ s'.pc = "exit"
      BY <1>1, ServerQuitEffect
    <2>2. PICK n \in 1..Len(c2s) : Received(n)
      BY <1>1, ServerQuitEffect DEF Received
    <2>3. \A i \in 1..Len(c2s') : i + n \in 1..Len(c2s) /\ c2s'[i] = c2s[i + n]
      BY <2>2, CommandLen DEF Received
    <2> QED
      BY <2>1, <2>3 DEF Numbered, KeepsRequest
  <1>2. CASE ServerPort
    <2>1. UNCHANGED c /\ KeepsRequest /\ s'.pc = "setup"
      BY <1>2, ServerPortEffect
    <2>2. PICK n \in 1..Len(c2s) : Received(n)
      BY <1>2, ServerPortEffect DEF Received
    <2>3. \A i \in 1..Len(c2s') : i + n \in 1..Len(c2s) /\ c2s'[i] = c2s[i + n]
      BY <2>2, CommandLen DEF Received
    <2> QED
      BY <2>1, <2>3 DEF Numbered, KeepsRequest
  <1>3. CASE ServerGarbled
    BY <1>3, Locals, Lens DEF ServerGarbled, ctl, data, Crash, ServerStates, Numbered
  <1>4. CASE ServerConnect
    <2>1. UNCHANGED <<c, c2s>> /\ KeepsRequest /\ s.pc = "setup"
      BY <1>4, ConnectEffect
    <2>2. c2s = <<>>
      BY <2>1 DEF PortInTurn
    <2> QED
      BY <2>1, <2>2 DEF Numbered, KeepsRequest
  <1>5. CASE ServerCommand
    <2>1. /\ UNCHANGED c /\ s.pc = "cmd" /\ c2s # <<>>
          /\ s'.pc \in {"list", "dh", "close"}
          /\ Head(c2s).verb \in Verbs
          /\ s'.verb = Head(c2s).verb /\ s'.file = Head(c2s).file /\ s'.id = Head(c2s).id
      BY <1>5, CommandEffect
    <2>2. PICK n \in 1..Len(c2s) : Received(n)
      BY <1>5, CommandEffect DEF Received
    <2>3. \A i \in 1..Len(c2s') : i + n \in 1..Len(c2s) /\ c2s'[i] = c2s[i + n]
      BY <2>2, CommandLen DEF Received
    <2>4. 1 \in 1..Len(c2s) /\ Head(c2s) = c2s[1]
      BY <2>2, CommandLen DEF Received
    <2>5. s'.id <= c.id /\ (c.pc = "accept" => s'.id < c.id)
      BY <2>1, <2>4, VerbFacts DEF Numbered
    <2>6. s'.id = c.id => s'.verb = Verb[c.op] /\ s'.file = c.file
      BY <2>1, Fields, VerbFacts, CommandType DEF Numbered
    <2> QED
      BY <2>1, <2>3, <2>5, <2>6 DEF Numbered
  <1>6. CASE ServerMerged
    <2>1. UNCHANGED c /\ KeepsRequest /\ s'.pc = "close"
      BY <1>6, ServerMergedEffect
    <2>2. PICK n \in 1..Len(c2s) : Received(n)
      BY <1>6, ServerMergedEffect DEF Received
    <2>3. \A i \in 1..Len(c2s') : i + n \in 1..Len(c2s) /\ c2s'[i] = c2s[i + n]
      BY <2>2, CommandLen DEF Received
    <2> QED
      BY <2>1, <2>3 DEF Numbered, KeepsRequest
  <1>7. CASE ServerClose
    BY <1>7, Locals, Lens DEF ServerClose, ctl, data, ServerStates, Numbered
  <1>8. CASE ServerList
    BY <1>8, ListEffect, Lens DEF KeepsRequest, Numbered
  <1>9. CASE ServerDH
    BY <1>9, ServerDHEffect, Lens DEF KeepsRequest, Numbered
  <1>10. CASE ServerRetrOpen
    BY <1>10, RetrOpenEffect, Lens, ZenonT(60) DEF KeepsRequest, Numbered
  <1>11. CASE ServerRetrWrite
    BY <1>11, Locals, Lens DEF ServerRetrWrite, ctl, data, ServerStates, Numbered
  <1>12. CASE ServerRetrDone
    BY <1>12, Locals, Lens DEF ServerRetrDone, ctl, data, Leave, ServerStates, Numbered
  <1>13. CASE ServerStorOpen
    BY <1>13, Locals, Lens DEF ServerStorOpen, ctl, data, Leave, ServerStates, Numbered
  <1>14. CASE ServerStorRecv
    BY <1>14, Locals, Lens DEF ServerStorRecv, ctl, data, ServerStates, Numbered
  <1>15. CASE ServerStorEof
    BY <1>15, Locals, Lens DEF ServerStorEof, ctl, data, ServerStates, Numbered
  <1>16. CASE ServerStorDecrypt \/ ServerStorUncomp
    BY <1>16, StorProcessControl, Lens DEF KeepsRequest, Numbered
  <1>17. CASE ServerSigpipe
    BY <1>17, Locals, Lens DEF ServerSigpipe, ctl, data, Crash, ServerStates, Numbered
  <1>18. CASE ServerKilled
    BY <1>18, Locals, Lens DEF ServerKilled, ctl, data, Crash, ServerStates, Numbered
  <1> QED
    BY <1>1, <1>2, <1>3, <1>4, <1>5, <1>6, <1>7, <1>8, <1>9, <1>10, <1>11, <1>12, <1>13,
       <1>14, <1>15, <1>16, <1>17, <1>18 DEF ServerStep

(* A client that gives up a put adds SKIP to the control connection.       *)
LEMMA PutPrepareAppends ==
    ASSUME TypeOK, ClientPutPrepare
    PROVE  \/ c'.pc = "put_skip" /\ c2s' = Append(c2s, Command("SKIP", None, c.id))
           \/ c'.pc # "put_skip" /\ c2s' = c2s
  <1> DEFINE c1(left) == [c EXCEPT !.temp = @ \cup Temp(left, c.id)]
  <1>1. PICK left \in SUBSET {"enc", "comp"} :
            \/ /\ c' = [c1(left) EXCEPT !.pc = "put_skip"]
               /\ c2s' = Append(c2s, Command("SKIP", None, c.id))
            \/ /\ c' = [c1(left) EXCEPT !.pc = "put_send",
                                        !.buf = Stream(cfile[c.file], c.key)]
               /\ c2s' = c2s
            \/ c' = Return(c1(left), FALSE) /\ c2s' = c2s
    BY PutPrepareCases, Zenon
  <1>2. /\ c'.pc = "put_skip" \/ c2s' = c2s
        /\ c2s' = Append(c2s, Command("SKIP", None, c.id)) \/ c'.pc # "put_skip"
    BY <1>1, Fields DEF Return, ClientStates
  <1> QED
    BY <1>2

-----------------------------------------------------------------------------
(* Paired: a client past its command has a child that has read it, will    *)
(* read it next, or is dead.                                               *)
LEMMA PairedClientStep ==
    ASSUME TypeOK, Dispatched, PortInTurn, Numbered, Sockets, Paired, InTurn, Rounds,
           UserStep \/ ClientStep \/ ClientSigpipe \/ ClientKilled
    PROVE  Paired'
  <1>1. ASSUME NEW op \in Ops, NEW f \in Files, UserCommand(op, f) PROVE Paired'
    BY <1>1, UserCommandEffect, Lens DEF KeepsRequest, Sent, Paired, Away, Alive, Busy,
       InDH, InGet, InPut, Retr, Stor, Serving
  <1>2. CASE UserQuit
    BY <1>2, UserQuitEffect, Lens DEF KeepsRequest, Sent, Paired, Away, Alive, Busy,
       InDH, InGet, InPut, Retr, Stor, Serving
  <1>3. CASE ClientAccept
    <2>1. /\ UNCHANGED <<s, faults>> /\ KeepsCommand /\ c.pc = "accept" /\ pending
          /\ ~pending'
          /\ c'.pc \in {"ls", "skip", "dh_send"}
          /\ (c'.pc = "dh_send" => c.op \in {"get", "put"})
          /\ (c.op \in {"get", "put"} => c'.pc = "dh_send")
      BY <1>3, AcceptEffect, VerbFacts
    <2> DEFINE m == Command(Verb[c.op], c.file, c.id)
    <2>2. c2s = <<>> /\ s.pc \in {"cmd", "dead"}
      BY <2>1 DEF PortInTurn
    <2>3. c2s' = <<m>>
      BY <1>3, <2>2 DEF ClientAccept
    <2>4. Head(c2s').verb \in {"RETR", "STOR"} => c.op \in {"get", "put"}
      BY <2>3, <1>3, AcceptEffect, Fields, VerbFacts
    <2>5. s.id # c.id
      BY <2>1, Locals DEF Numbered
    <2>6. c2s' = <<Command(Verb[c'.op], c'.file, c'.id)>>
      BY <2>1, <2>3 DEF KeepsCommand
    <2>7. "crash" \in faults \/ s.pc # "dead"
      BY <2>1 DEF Paired, Alive
    <2> HIDE DEF m
    <2> QED
      BY <2>1, <2>2, <2>4, <2>5, <2>6, <2>7 DEF Paired, Alive, Away, KeepsCommand, Busy,
         InDH, InGet, InPut, Retr, Stor, Serving
  <1>4. CASE ClientSkipReply
    BY <1>4, Locals, Lens DEF ClientSkipReply, ctl, data, Return, ClientStates, Paired,
       Away, Alive, Busy, InDH, InGet, InPut, Retr, Stor, Serving
  <1>5. CASE ClientQuitReply
    BY <1>5, Locals, Lens DEF ClientQuitReply, ctl, data, ClientStates, Paired, Away,
       Alive, Busy, InDH, InGet, InPut, Retr, Stor, Serving
  <1>6. CASE ClientLsControl
    <2>1. /\ UNCHANGED <<s, c2s, pending, faults>> /\ KeepsCommand /\ c.pc = "ls"
          /\ c'.pc \in {"ls", "prompt", "dead"}
      BY <1>6, LsControlEffect
    <2> QED
      BY <2>1 DEF Paired, Away, Alive, Busy, InDH, InGet, InPut, Retr, Stor, Serving,
         KeepsCommand
  <1>7. CASE ClientLsData
    <2>1. /\ UNCHANGED <<s, c2s, pending, faults>> /\ KeepsCommand /\ c.pc = "ls"
          /\ c'.pc \in {"ls", "prompt"}
      BY <1>7, LsDataEffect
    <2> QED
      BY <2>1 DEF Paired, Away, Alive, Busy, InDH, InGet, InPut, Retr, Stor, Serving,
         KeepsCommand
  <1>8. CASE ClientDHSend
    BY <1>8, Locals, Lens DEF ClientDHSend, ctl, data, ClientStates, Paired, Away, Alive,
       Busy, InDH, InGet, InPut, Retr, Stor, Serving
  <1>9. CASE ClientDHRecv
    <2>1. /\ UNCHANGED <<s, c2s, pending, faults>> /\ KeepsCommand /\ c.pc = "dh_recv"
          /\ c'.pc \in {"dh_send", "get_open", "put_prepare"}
      BY <1>9, DHRecvEffect
    <2>2. s.pc # "cmd"
      <3>1. s.pc = "cmd" => ds2c = <<>> /\ s.open
        BY <2>1 DEF InTurn, Sockets, InDH
      <3> QED
        BY <1>9, <3>1 DEF ClientDHRecv, ServerDataClosed
    <2>3. s.pc = "dh" => c'.pc = "dh_send"
      <3> SUFFICES ASSUME s.pc = "dh" PROVE c'.pc = "dh_send"
        OBVIOUS
      <3>1. s.id = c.id /\ Exchanging /\ Len(s.key) < DHRounds /\ s.open
        BY <2>1 DEF Paired, Exchanging, Alive, Rounds, Sockets, Busy, InDH, InGet, InPut,
           Retr, Stor, Serving
      <3>2. HalfWaits
        BY <2>1, <3>1, <1>9 DEF InTurn, ServerTurn, ClientDHRecv, ServerDataClosed
      <3>3. Len(c'.key) < DHRounds
        BY <3>1, <3>2, <1>9, DHRecvEffect DEF HalfWaits
      <3>4. Len(c'.key) \in Nat
        BY <1>9, DHRecvEffect, Lens
      <3> QED
        BY <3>3, <3>4, <1>9, DHRecvEffect, TransferAssumption
    <2> QED
      BY <2>1, <2>2, <2>3 DEF Paired, Away, Alive, KeepsCommand, Busy, InDH, InGet,
         InPut, Retr, Stor, Serving
  <1>10. CASE ClientGetOpen
    <2>1. /\ UNCHANGED <<s, c2s, pending, faults>> /\ KeepsCommand /\ c.pc = "get_open"
          /\ c'.pc \in {"get_recv", "prompt"}
      BY <1>10, GetOpenEffect
    <2> QED
      BY <2>1 DEF Paired, Away, Alive, Busy, InDH, InGet, InPut, Retr, Stor, Serving,
         KeepsCommand
  <1>11. CASE ClientGetRecv
    <2>1. /\ UNCHANGED <<s, c2s, pending, faults>> /\ KeepsCommand /\ c.pc = "get_recv"
          /\ c'.pc \in {"get_recv", "get_reply", "get_abort"}
      BY <1>11, GetRecvEffect
    <2> QED
      BY <2>1 DEF Paired, Away, Alive, Busy, InDH, InGet, InPut, Retr, Stor, Serving,
         KeepsCommand
  <1>12. CASE ClientGetReply
    BY <1>12, GetReplyEffect, Lens DEF KeepsCommand, Paired, Away, Alive, Busy, InDH,
       InGet, InPut, Retr, Stor, Serving
  <1>13. CASE ClientGetDecrypt \/ ClientGetUncomp
    BY <1>13, GetProcessControl, Lens DEF KeepsCommand, Paired, Away, Alive, Busy, InDH,
       InGet, InPut, Retr, Stor, Serving
  <1>14. CASE ClientPutPrepare
    <2>1. /\ UNCHANGED <<s, pending, faults>> /\ KeepsCommand /\ c.pc = "put_prepare"
          /\ c'.pc \in {"put_skip", "put_send", "prompt"}
      BY <1>14, PutPrepareEffect
    <2>2. /\ \/ s.pc = "dead"
             \/ s.pc \in Serving \cup {"close", "idle"} /\ s.id = c.id /\ c2s = <<>>
          /\ s.pc # "dh" /\ ~pending
      BY <2>1 DEF Paired, PortInTurn, Busy, InDH, InGet, InPut, Retr, Stor, Serving
    <2>3. \/ c'.pc = "put_skip" /\ (c2s = <<>> => c2s' = <<Command("SKIP", None, c.id)>>)
          \/ c'.pc # "put_skip" /\ c2s' = c2s
      <3> DEFINE m == Command("SKIP", None, c.id)
      <3>1. \/ c'.pc = "put_skip" /\ c2s' = Append(c2s, m)
            \/ c'.pc # "put_skip" /\ c2s' = c2s
        BY <1>14, PutPrepareAppends
      <3> HIDE DEF m
      <3>2. c2s = <<>> => Append(c2s, m) = <<m>>
        OBVIOUS
      <3> QED
        BY <3>1, <3>2 DEF m
    <2> QED
      BY <2>1, <2>2, <2>3 DEF Paired, Away, Alive, KeepsCommand, Busy, InDH, InGet,
         InPut, Retr, Stor, Serving
  <1>15. CASE ClientPutWrite
    BY <1>15, Locals, Lens DEF ClientPutWrite, ctl, data, ClientStates, Paired, Away,
       Alive, Busy, InDH, InGet, InPut, Retr, Stor, Serving
  <1>16. CASE ClientPutClose
    <2>1. /\ UNCHANGED <<s, c2s, pending, faults>> /\ KeepsCommand /\ c.pc = "put_send"
          /\ c'.pc \in {"put_send", "prompt"}
      BY <1>16, PutCloseEffect
    <2> QED
      BY <2>1 DEF Paired, Away, Alive, Busy, InDH, InGet, InPut, Retr, Stor, Serving,
         KeepsCommand
  <1>17. CASE ClientPutReply
    <2>1. /\ UNCHANGED <<s, c2s, pending, faults>> /\ KeepsCommand /\ c.pc = "put_send"
          /\ c'.pc \in {"put_send", "prompt", "dead"}
      BY <1>17, PutReplyEffect
    <2> QED
      BY <2>1 DEF Paired, Away, Alive, Busy, InDH, InGet, InPut, Retr, Stor, Serving,
         KeepsCommand
  <1>18. CASE ClientSigpipe
    BY <1>18, Locals, Lens DEF ClientSigpipe, ctl, data, Crash, ClientStates, Paired,
       Away, Alive, Busy, InDH, InGet, InPut, Retr, Stor, Serving
  <1>19. CASE ClientKilled
    BY <1>19, Locals, Lens DEF ClientKilled, ctl, data, Crash, ClientStates, Paired,
       Away, Alive, Busy, InDH, InGet, InPut, Retr, Stor, Serving
  <1> QED
    BY <1>1, <1>2, <1>3, <1>4, <1>5, <1>6, <1>7, <1>8, <1>9, <1>10, <1>11, <1>12, <1>13,
       <1>14, <1>15, <1>16, <1>17, <1>18, <1>19 DEF UserStep, ClientStep

LEMMA PairedServerStep ==
    ASSUME TypeOK, Dispatched, PortInTurn, Numbered, Sockets, Paired, InTurn, Rounds,
           ServerStep \/ ServerSigpipe \/ ServerKilled
    PROVE  Paired'
  <1>1. CASE ServerQuit
    <2>1. /\ UNCHANGED <<c, pending, faults>> /\ KeepsRequest /\ s.pc = "idle"
          /\ s'.pc = "exit"
          /\ c2s # <<>> /\ Head(c2s).verb = "QUIT"
      BY <1>1, ServerQuitEffect
    <2>2. c.pc \notin Busy
      <3> SUFFICES ASSUME c.pc \in Busy PROVE FALSE
        OBVIOUS
      <3>1. c2s = <<Command("SKIP", None, c.id)>> \/ c2s = <<>>
        BY <2>1 DEF Paired, Busy, InDH, InGet, InPut, Retr, Stor, Serving
      <3>2. Command("SKIP", None, c.id).verb = "SKIP"
        BY DEF Command
      <3> QED
        BY <2>1, <3>1, <3>2
    <2> QED
      BY <2>1, <2>2 DEF Paired, Away, Alive, KeepsRequest, Busy, InDH, InGet, InPut,
         Retr, Stor, Serving
  <1>2. CASE ServerPort
    <2>1. /\ UNCHANGED <<c, pending, faults>> /\ KeepsRequest /\ s.pc = "idle"
          /\ s'.pc = "setup"
          /\ c2s # <<>>
      BY <1>2, ServerPortEffect
    <2>2. c.pc \notin Busy
      <3> SUFFICES ASSUME c.pc \in Busy PROVE FALSE
        OBVIOUS
      <3>1. c2s = <<Command("SKIP", None, c.id)>> \/ c2s = <<>>
        BY <2>1 DEF Paired, Busy, InDH, InGet, InPut, Retr, Stor, Serving
      <3>2. Command("SKIP", None, c.id).verb = "SKIP"
        BY DEF Command
      <3>3. PICK n \in 1..Len(c2s) : HasPort(n)
        BY <1>2, ServerPortEffect
      <3>4. PICK i \in 1..n : c2s[i].verb = "PORT"
        BY <3>3 DEF HasPort
      <3> DEFINE m == Command("SKIP", None, c.id)
      <3>5. c2s = <<m>> /\ m.verb = "SKIP"
        BY <2>1, <3>1, <3>2
      <3> HIDE DEF m
      <3> QED
        BY <3>4, <3>5
    <2> QED
      BY <2>1, <2>2 DEF Paired, Away, Alive, KeepsRequest, Busy, InDH, InGet, InPut,
         Retr, Stor, Serving
  <1>3. CASE ServerGarbled
    <2>1. /\ UNCHANGED <<c, c2s, pending, faults>> /\ s'.pc = "dead"
          /\ s.pc \in {"idle", "cmd"}
          /\ (c2s # <<>> => s.pc = "idle") /\ (c2s = <<>> => ~ClientUp)
      BY <1>3, Locals DEF ServerGarbled, Crash, ServerStates, ctl, data
    <2>2. ~pending
      BY <2>1 DEF PortInTurn, ClientUp
    <2>3. c.pc \notin Busy \ {"put_skip", "put_send"}
      BY <2>1 DEF Paired, ClientUp, Busy, InDH, InGet, InPut, Retr, Stor, Serving
    <2> QED
      BY <2>1, <2>2, <2>3 DEF Paired, Away, Alive, Busy, InDH, InGet, InPut, Retr, Stor,
         Serving
  <1>4. CASE ServerConnect
    <2>1. /\ UNCHANGED <<c, c2s, faults>> /\ s.pc = "setup" /\ s'.pc \in {"cmd", "exit"}
      BY <1>4, ConnectEffect
    <2>2. c.pc \in {"accept", "dead"} /\ c2s = <<>>
      BY <2>1 DEF PortInTurn
    <2> QED
      BY <2>1, <2>2 DEF Paired, Away, Alive, Busy, InDH, InGet, InPut, Retr, Stor, Serving
  <1>5. CASE ServerCommand
    <2>1. /\ UNCHANGED <<c, pending, faults>> /\ s.pc = "cmd" /\ c2s # <<>>
          /\ s'.pc \in {"list", "dh", "close"} /\ s'.id = Head(c2s).id
          /\ (s'.pc = "dh" <=> Head(c2s).verb \in {"RETR", "STOR"})
          /\ c2s' = Tail(c2s)
      BY <1>5, CommandEffect DEF ServerCommand
    <2>2. s'.pc = "dh" => c.pc \in InDH \cup {"dead"}
      BY <2>1 DEF Paired
    <2>3. c.pc \in Busy =>
          s'.pc = "dh" /\ s'.id = c.id /\ c2s' = <<>> /\ c.pc # "put_skip"
      <3> SUFFICES ASSUME c.pc \in Busy
                   PROVE  s'.pc = "dh" /\ s'.id = c.id /\ c2s' = <<>> /\ c.pc # "put_skip"
        OBVIOUS
      <3> DEFINE m == Command(Verb[c.op], c.file, c.id)
      <3>1. c2s = <<m>> /\ c.pc \in InDH
        BY <2>1 DEF Paired, Busy, InDH, InGet, InPut, Retr, Stor, Serving
      <3>2. m.verb = Verb[c.op] /\ m.id = c.id
        BY DEF Command
      <3>3. m.verb \in {"RETR", "STOR"}
        BY <3>1, <3>2, VerbFacts DEF Dispatched
      <3> HIDE DEF m
      <3>4. Head(c2s) = m /\ Tail(c2s) = <<>>
        BY <3>1
      <3> QED
        BY <2>1, <3>1, <3>2, <3>3, <3>4 DEF InDH
    <2> QED
      BY <2>1, <2>2, <2>3 DEF Paired, Away, Alive, Busy, InDH, InGet, InPut, Retr, Stor,
         Serving
  <1>6. CASE ServerMerged
    <2>1. /\ UNCHANGED <<c, pending, faults>> /\ s.pc = "cmd" /\ s'.pc = "close"
      BY <1>6, ServerMergedEffect
    <2>2. c.pc \notin Busy
      <3> SUFFICES ASSUME c.pc \in Busy PROVE FALSE
        OBVIOUS
      <3> DEFINE m == Command(Verb[c.op], c.file, c.id)
      <3>1. c2s = <<m>>
        BY <2>1 DEF Paired, Busy, InDH, InGet, InPut, Retr, Stor, Serving
      <3>2. PICK n \in 2..Len(c2s) : TRUE
        BY <1>6 DEF ServerMerged
      <3> HIDE DEF m
      <3> QED
        BY <3>1, <3>2
    <2> QED
      BY <2>1, <2>2 DEF Paired, Away, Alive, Busy, InDH, InGet, InPut, Retr, Stor, Serving
  <1>7. CASE ServerClose
    BY <1>7, Locals, Lens DEF ServerClose, ctl, data, ServerStates, Paired, Away, Alive,
       Busy, InDH, InGet, InPut, Retr, Stor, Serving
  <1>8. CASE ServerList
    BY <1>8, ListEffect, Lens DEF KeepsRequest, Paired, Away, Alive, Busy, InDH, InGet,
       InPut, Retr, Stor, Serving
  <1>9. CASE ServerDH
    BY <1>9, ServerDHEffect, Lens DEF KeepsRequest, Paired, Away, Alive, Busy, InDH,
       InGet, InPut, Retr, Stor, Serving
  <1>10. CASE ServerRetrOpen
    <2>1. /\ UNCHANGED <<c, c2s, pending, faults>> /\ KeepsRequest /\ s.pc = "retr_open"
          /\ s'.pc \in {"close", "retr_send"}
      BY <1>10, RetrOpenEffect
    <2> QED
      BY <2>1 DEF Paired, Away, Alive, Busy, InDH, InGet, InPut, Retr, Stor, Serving,
         KeepsRequest
  <1>11. CASE ServerRetrWrite
    BY <1>11, Locals, Lens DEF ServerRetrWrite, ctl, data, ServerStates, Paired, Away,
       Alive, Busy, InDH, InGet, InPut, Retr, Stor, Serving
  <1>12. CASE ServerRetrDone
    BY <1>12, Locals, Lens DEF ServerRetrDone, ctl, data, Leave, ServerStates, Paired,
       Away, Alive, Busy, InDH, InGet, InPut, Retr, Stor, Serving
  <1>13. CASE ServerStorOpen
    BY <1>13, Locals, Lens DEF ServerStorOpen, ctl, data, Leave, ServerStates, Paired,
       Away, Alive, Busy, InDH, InGet, InPut, Retr, Stor, Serving
  <1>14. CASE ServerStorRecv
    BY <1>14, Locals, Lens DEF ServerStorRecv, ctl, data, ServerStates, Paired, Away,
       Alive, Busy, InDH, InGet, InPut, Retr, Stor, Serving
  <1>15. CASE ServerStorEof
    BY <1>15, Locals, Lens DEF ServerStorEof, ctl, data, ServerStates, Paired, Away,
       Alive, Busy, InDH, InGet, InPut, Retr, Stor, Serving
  <1>16. CASE ServerStorDecrypt \/ ServerStorUncomp
    BY <1>16, StorProcessControl, Lens DEF KeepsRequest, Paired, Away, Alive, Busy, InDH,
       InGet, InPut, Retr, Stor, Serving
  <1>17. CASE ServerSigpipe
    <2>1. /\ UNCHANGED <<c, c2s, pending, faults>> /\ s'.pc = "dead"
          /\ s.pc \in {"list", "dh", "retr_open", "retr_send", "stor_recv"}
          /\ ~ClientUp \/ ClientDataClosed
      BY <1>17, Locals DEF ServerSigpipe, Crash, ServerStates, ctl, data
    <2>2. ~pending
      BY <2>1 DEF PortInTurn
    <2>3. c.pc \notin Busy \ {"put_skip", "put_send"}
      BY <2>1 DEF Sockets, ClientUp, ClientDataClosed, Busy, InDH, InGet, InPut, Retr,
         Stor, Serving
    <2> QED
      BY <2>1, <2>2, <2>3 DEF Paired, Away, Alive, Busy, InDH, InGet, InPut, Retr, Stor,
         Serving
  <1>18. CASE ServerKilled
    BY <1>18, Locals, Lens DEF ServerKilled, ctl, data, Crash, ServerStates, Paired,
       Away, Alive, Busy, InDH, InGet, InPut, Retr, Stor, Serving
  <1> QED
    BY <1>1, <1>2, <1>3, <1>4, <1>5, <1>6, <1>7, <1>8, <1>9, <1>10, <1>11, <1>12, <1>13,
       <1>14, <1>15, <1>16, <1>17, <1>18 DEF ServerStep

(* A key made of each round's own halves stays so when a round adds its    *)
(* own.                                                                    *)
LEMMA ProperAppend ==
    ASSUME NEW key \in Keys, NEW id \in Ids, Proper(key, id)
    PROVE  Proper(Append(key, <<Half("client", id, Len(key) + 1),
                                Half("server", id, Len(key) + 1)>>), id)
  <1> DEFINE h == <<Half("client", id, Len(key) + 1), Half("server", id, Len(key) + 1)>>
  <1>1. Len(key) \in Nat
    BY DEF Keys
  <1>2. h \in (Halves \cup {None}) \X (Halves \cup {None})
    BY <1>1, HalfType
  <1>3. /\ Len(Append(key, h)) = Len(key) + 1
        /\ \A i \in 1..Len(Append(key, h)) : Append(key, h)[i] = IF i <= Len(key) THEN key[i] ELSE h
    BY <1>2, AppendFacts DEF Keys
  <1> SUFFICES ASSUME NEW r \in 1..Len(key) + 1
               PROVE  Append(key, h)[r] = <<Half("client", id, r), Half("server", id, r)>>
    BY <1>3 DEF Proper
  <1>4. CASE r <= Len(key)
    BY <1>1, <1>3, <1>4 DEF Proper
  <1>5. CASE r = Len(key) + 1
    BY <1>1, <1>3, <1>5
  <1> QED
    BY <1>1, <1>4, <1>5

-----------------------------------------------------------------------------
(* Rounds: how far the key exchange is at each control point.              *)
LEMMA RoundsClientStep ==
    ASSUME TypeOK, Dispatched, PortInTurn, Numbered, Sockets, Paired, Agreed, Rounds,
           InTurn, UserStep \/ ClientStep \/ ClientSigpipe \/ ClientKilled
    PROVE  Rounds'
  <1>1. ASSUME NEW op \in Ops, NEW f \in Files, UserCommand(op, f) PROVE Rounds'
    BY <1>1, UserCommandEffect, Lens DEF KeepsRequest, Sent, Rounds, Alive, Busy, InDH,
       InGet, InPut, Retr, Stor, Serving
  <1>2. CASE UserQuit
    BY <1>2, UserQuitEffect, Lens DEF KeepsRequest, Sent, Rounds, Alive, Busy, InDH,
       InGet, InPut, Retr, Stor, Serving
  <1>3. CASE ClientAccept
    <2>1. /\ UNCHANGED s /\ KeepsCommand /\ c'.key = c.key /\ c'.buf = c.buf
          /\ c.pc = "accept" /\ c'.pc \in {"ls", "skip", "dh_send"}
      BY <1>3, AcceptEffect
    <2>2. c.key = <<>> /\ c.buf = <<>> /\ 0 < DHRounds
      BY <2>1, TransferAssumption DEF Agreed, Rounds
    <2> QED
      BY <2>1, <2>2, EmptySeq DEF Rounds, Alive, Busy, InDH, InGet, InPut, Retr, Stor,
         Serving
  <1>4. CASE ClientSkipReply
    BY <1>4, Locals, Lens DEF ClientSkipReply, ctl, data, Return, ClientStates, Rounds,
       Alive, Busy, InDH, InGet, InPut, Retr, Stor, Serving
  <1>5. CASE ClientQuitReply
    BY <1>5, Locals, Lens DEF ClientQuitReply, ctl, data, ClientStates, Rounds, Alive,
       Busy, InDH, InGet, InPut, Retr, Stor, Serving
  <1>6. CASE ClientLsControl
    BY <1>6, LsControlEffect, Lens DEF KeepsCommand, Rounds, Alive, Busy, InDH, InGet,
       InPut, Retr, Stor, Serving
  <1>7. CASE ClientLsData
    BY <1>7, LsDataEffect, Lens DEF KeepsCommand, Rounds, Alive, Busy, InDH, InGet,
       InPut, Retr, Stor, Serving
  <1>8. CASE ClientDHSend
    BY <1>8, Locals, Lens DEF ClientDHSend, ctl, data, ClientStates, Rounds, Alive, Busy,
       InDH, InGet, InPut, Retr, Stor, Serving
  <1>9. CASE ClientDHRecv
    <2>1. /\ UNCHANGED s /\ c'.buf = c.buf /\ c.pc = "dh_recv"
          /\ Len(c'.key) = Len(c.key) + 1
          /\ \/ Len(c'.key) < DHRounds /\ c'.pc = "dh_send"
             \/ Len(c'.key) >= DHRounds /\ c'.pc = "get_open"
             \/ Len(c'.key) >= DHRounds /\ c'.pc = "put_prepare"
      BY <1>9, DHRecvEffect
    <2>2. Len(c.key) \in Nat /\ DHRounds \in Nat /\ Len(c.key) < DHRounds /\ c.buf = <<>>
      BY <2>1, Lens, TransferAssumption DEF Rounds, InDH
    <2> QED
      BY <2>1, <2>2 DEF Rounds, Alive, Busy, InDH, InGet, InPut, Retr, Stor, Serving
  <1>10. CASE ClientGetOpen
    BY <1>10, GetOpenEffect, Lens DEF KeepsCommand, Rounds, Alive, Busy, InDH, InGet,
       InPut, Retr, Stor, Serving
  <1>11. CASE ClientGetRecv
    BY <1>11, GetRecvEffect, Lens DEF KeepsCommand, Rounds, Alive, Busy, InDH, InGet,
       InPut, Retr, Stor, Serving
  <1>12. CASE ClientGetReply
    BY <1>12, GetReplyEffect, Lens DEF KeepsCommand, Rounds, Alive, Busy, InDH, InGet,
       InPut, Retr, Stor, Serving
  <1>13. CASE ClientGetDecrypt \/ ClientGetUncomp
    BY <1>13, GetProcessControl, Lens DEF KeepsCommand, Rounds, Alive, Busy, InDH, InGet,
       InPut, Retr, Stor, Serving
  <1>14. CASE ClientPutPrepare
    <2>1. /\ UNCHANGED s /\ c'.key = c.key /\ c.pc = "put_prepare"
          /\ \/ c'.pc = "put_skip" /\ c'.buf = c.buf
             \/ c'.pc = "put_send"
             \/ c'.pc = "prompt"
      BY <1>14, PutPrepareEffect
    <2> QED
      BY <2>1 DEF Rounds, Alive, Busy, InDH, InGet, InPut, Retr, Stor, Serving
  <1>15. CASE ClientPutWrite
    BY <1>15, Locals, Lens DEF ClientPutWrite, ctl, data, ClientStates, Rounds, Alive,
       Busy, InDH, InGet, InPut, Retr, Stor, Serving
  <1>16. CASE ClientPutClose
    BY <1>16, PutCloseEffect, Lens DEF KeepsCommand, Rounds, Alive, Busy, InDH, InGet,
       InPut, Retr, Stor, Serving
  <1>17. CASE ClientPutReply
    BY <1>17, PutReplyEffect, Lens DEF KeepsCommand, Rounds, Alive, Busy, InDH, InGet,
       InPut, Retr, Stor, Serving
  <1>18. CASE ClientSigpipe
    BY <1>18, Locals, Lens DEF ClientSigpipe, ctl, data, Crash, ClientStates, Rounds,
       Alive, Busy, InDH, InGet, InPut, Retr, Stor, Serving
  <1>19. CASE ClientKilled
    BY <1>19, Locals, Lens DEF ClientKilled, ctl, data, Crash, ClientStates, Rounds,
       Alive, Busy, InDH, InGet, InPut, Retr, Stor, Serving
  <1> QED
    BY <1>1, <1>2, <1>3, <1>4, <1>5, <1>6, <1>7, <1>8, <1>9, <1>10, <1>11, <1>12, <1>13,
       <1>14, <1>15, <1>16, <1>17, <1>18, <1>19 DEF UserStep, ClientStep

LEMMA RoundsServerStep ==
    ASSUME TypeOK, Dispatched, PortInTurn, Numbered, Sockets, Paired, Agreed, Rounds,
           InTurn, ServerStep \/ ServerSigpipe \/ ServerKilled
    PROVE  Rounds'
  <1>1. CASE ServerQuit
    BY <1>1, ServerQuitEffect, Lens DEF KeepsRequest, Received, Rounds, Alive, Busy,
       InDH, InGet, InPut, Retr, Stor, Serving
  <1>2. CASE ServerPort
    BY <1>2, ServerPortEffect, Lens DEF KeepsRequest, Received, Rounds, Alive, Busy,
       InDH, InGet, InPut, Retr, Stor, Serving
  <1>3. CASE ServerGarbled
    BY <1>3, Locals, Lens DEF ServerGarbled, ctl, data, Crash, ServerStates, Rounds,
       Alive, Busy, InDH, InGet, InPut, Retr, Stor, Serving
  <1>4. CASE ServerConnect
    BY <1>4, ConnectEffect, Lens DEF KeepsRequest, Rounds, Alive, Busy, InDH, InGet,
       InPut, Retr, Stor, Serving
  <1>5. CASE ServerCommand
    <2>1. /\ UNCHANGED c /\ s'.key = <<>> /\ s'.buf = <<>> /\ s'.verb = Head(c2s).verb
          /\ \/ Head(c2s).verb = "LIST" /\ s'.pc = "list"
             \/ s'.pc = "dh"
             \/ Head(c2s).verb = "SKIP" /\ s'.pc = "close"
      BY <1>5, CommandEffect
    <2>2. Len(s'.key) = 0 /\ 0 < DHRounds /\ 0 <= DHRounds
      BY <2>1, EmptySeq, TransferAssumption
    <2> QED
      BY <2>1, <2>2 DEF Rounds, Alive, Busy, InDH, InGet, InPut, Retr, Stor, Serving
  <1>6. CASE ServerMerged
    BY <1>6, ServerMergedEffect, Lens DEF KeepsRequest, Received, Rounds, Alive, Busy,
       InDH, InGet, InPut, Retr, Stor, Serving
  <1>7. CASE ServerClose
    BY <1>7, Locals, Lens DEF ServerClose, ctl, data, ServerStates, Rounds, Alive, Busy,
       InDH, InGet, InPut, Retr, Stor, Serving
  <1>8. CASE ServerList
    BY <1>8, ListEffect, Lens DEF KeepsRequest, Rounds, Alive, Busy, InDH, InGet, InPut,
       Retr, Stor, Serving
  <1>9. CASE ServerDH
    <2>1. /\ UNCHANGED c /\ s'.buf = s.buf /\ s.pc = "dh"
          /\ Len(s'.key) = Len(s.key) + 1
          /\ \/ Len(s'.key) < DHRounds /\ s'.pc = "dh"
             \/ Len(s'.key) >= DHRounds /\ s'.pc = "retr_open"
             \/ Len(s'.key) >= DHRounds /\ s'.pc = "stor_open"
      BY <1>9, ServerDHEffect
    <2>2. Len(s.key) \in Nat /\ DHRounds \in Nat /\ Len(s.key) < DHRounds /\ s.buf = <<>>
      BY <2>1, Lens, TransferAssumption DEF Rounds
    <2> QED
      BY <2>1, <2>2 DEF Rounds, Alive, Busy, InDH, InGet, InPut, Retr, Stor, Serving
  <1>10. CASE ServerRetrOpen
    <2>1. /\ UNCHANGED c /\ KeepsRequest /\ s'.key = s.key /\ s.pc = "retr_open"
          /\ s'.pc \in {"close", "retr_send"}
      BY <1>10, RetrOpenEffect
    <2> QED
      BY <2>1 DEF Rounds, Alive, KeepsRequest, Busy, InDH, InGet, InPut, Retr, Stor,
         Serving
  <1>11. CASE ServerRetrWrite
    BY <1>11, Locals, Lens DEF ServerRetrWrite, ctl, data, ServerStates, Rounds, Alive,
       Busy, InDH, InGet, InPut, Retr, Stor, Serving
  <1>12. CASE ServerRetrDone
    BY <1>12, Locals, Lens DEF ServerRetrDone, ctl, data, Leave, ServerStates, Rounds,
       Alive, Busy, InDH, InGet, InPut, Retr, Stor, Serving
  <1>13. CASE ServerStorOpen
    BY <1>13, Locals, Lens DEF ServerStorOpen, ctl, data, Leave, ServerStates, Rounds,
       Alive, Busy, InDH, InGet, InPut, Retr, Stor, Serving
  <1>14. CASE ServerStorRecv
    BY <1>14, Locals, Lens DEF ServerStorRecv, ctl, data, ServerStates, Rounds, Alive,
       Busy, InDH, InGet, InPut, Retr, Stor, Serving
  <1>15. CASE ServerStorEof
    BY <1>15, Locals, Lens DEF ServerStorEof, ctl, data, ServerStates, Rounds, Alive,
       Busy, InDH, InGet, InPut, Retr, Stor, Serving
  <1>16. CASE ServerStorDecrypt \/ ServerStorUncomp
    BY <1>16, StorProcessControl, Lens DEF KeepsRequest, Rounds, Alive, Busy, InDH, InGet,
       InPut, Retr, Stor, Serving
  <1>17. CASE ServerSigpipe
    BY <1>17, Locals, Lens DEF ServerSigpipe, ctl, data, Crash, ServerStates, Rounds,
       Alive, Busy, InDH, InGet, InPut, Retr, Stor, Serving
  <1>18. CASE ServerKilled
    BY <1>18, Locals, Lens DEF ServerKilled, ctl, data, Crash, ServerStates, Rounds,
       Alive, Busy, InDH, InGet, InPut, Retr, Stor, Serving
  <1> QED
    BY <1>1, <1>2, <1>3, <1>4, <1>5, <1>6, <1>7, <1>8, <1>9, <1>10, <1>11, <1>12, <1>13,
       <1>14, <1>15, <1>16, <1>17, <1>18 DEF ServerStep

-----------------------------------------------------------------------------
(* Agreed: the two keys are made of the same halves. A half-key is read    *)
(* with nothing before it, by InTurn, although the reads are not checked.  *)
LEMMA AgreedClientStep ==
    ASSUME TypeOK, Dispatched, PortInTurn, Numbered, Sockets, Paired, Agreed, Rounds,
           InTurn, UserStep \/ ClientStep \/ ClientSigpipe \/ ClientKilled
    PROVE  Agreed'
  <1>1. ASSUME NEW op \in Ops, NEW f \in Files, UserCommand(op, f) PROVE Agreed'
    <2>1. /\ UNCHANGED s /\ c'.key = <<>> /\ c'.id = c.id + 1 /\ c'.pc = "accept"
      BY <1>1, UserCommandEffect
    <2>2. s.id # c'.id
      BY <2>1, Locals DEF Numbered
    <2> QED
      BY <2>1, <2>2 DEF Agreed, Alive, Exchanging
  <1>2. CASE UserQuit
    <2>1. /\ UNCHANGED s /\ c'.key = c.key /\ c'.id = c.id /\ c.pc = "prompt"
          /\ c'.pc = "quit"
      BY <1>2, UserQuitEffect DEF KeepsCommand
    <2> QED
      BY <2>1 DEF Agreed, Alive, Exchanging
  <1>3. CASE ClientAccept
    BY <1>3, AcceptEffect, Lens DEF KeepsCommand, Sent, Agreed, Alive, Exchanging
  <1>4. CASE ClientSkipReply
    BY <1>4, Locals, Lens DEF ClientSkipReply, ctl, data, Return, ClientStates, Agreed,
       Alive, Exchanging
  <1>5. CASE ClientQuitReply
    BY <1>5, Locals, Lens DEF ClientQuitReply, ctl, data, ClientStates, Agreed, Alive,
       Exchanging
  <1>6. CASE ClientLsControl
    BY <1>6, LsControlEffect, Lens DEF KeepsCommand, Agreed, Alive, Exchanging
  <1>7. CASE ClientLsData
    BY <1>7, LsDataEffect, Lens DEF KeepsCommand, Agreed, Alive, Exchanging
  <1>8. CASE ClientDHSend
    BY <1>8, Locals, Lens DEF ClientDHSend, ctl, data, ClientStates, Agreed, Alive,
       Exchanging
  <1>9. CASE ClientDHRecv
    <2>1. /\ UNCHANGED s /\ c'.id = c.id /\ c.pc = "dh_recv"
          /\ (ds2c # <<>> \/ ServerDataClosed)
          /\ c'.key = Append(c.key, <<ClientHalf, HalfRead(ds2c, c.key, 2)>>)
          /\ c'.pc \in {"dh_send", "get_open", "put_prepare"}
      BY <1>9, DHRecvEffect DEF KeepsCommand
    <2>2. s.pc \notin {"setup", "cmd"}
      <3>1. s.pc = "cmd" => ds2c = <<>> /\ s.open
        BY <2>1 DEF InTurn, Sockets, InDH
      <3>2. s.pc # "cmd"
        BY <2>1, <3>1 DEF ServerDataClosed
      <3>3. s.pc # "setup"
        BY <2>1 DEF Paired, Busy, InDH, InGet, InPut, Retr, Stor, Serving
      <3> QED
        BY <3>2, <3>3
    <2>3. ASSUME s.id = c.id, Exchanging
          PROVE  Proper(c'.key, c.id) /\ Proper(s.key, s.id)
      <3>1. Proper(c.key, c.id) /\ Proper(s.key, c.id)
        BY <2>1, <2>3 DEF Agreed, Alive
      <3>2. HalfWaits
        BY <2>1, <2>3 DEF InTurn, ServerTurn, ServerDataClosed, Sockets, Busy, InDH,
           InGet, InPut, Retr, Stor, Serving
      <3>3. HalfRead(ds2c, c.key, 2) = Half("server", c.id, Len(c.key) + 1)
        <4>1. Half("server", c.id, Len(c.key) + 1) \in Halves
          BY Fields, Lens, HalfType
        <4> QED
          BY <3>2, <4>1 DEF HalfWaits, HalfRead
      <3>4. c'.key = Append(c.key, <<Half("client", c.id, Len(c.key) + 1),
                                     Half("server", c.id, Len(c.key) + 1)>>)
        BY <2>1, <3>3 DEF ClientHalf
      <3>5. Proper(c'.key, c.id)
        BY <3>1, <3>4, ProperAppend, Fields
      <3> QED
        BY <2>3, <3>1, <3>5
    <2>4. Exchanging' => Exchanging
      BY <2>1 DEF Exchanging, Alive
    <2> QED
      BY <2>1, <2>2, <2>3, <2>4 DEF Agreed, Alive
  <1>10. CASE ClientGetOpen
    BY <1>10, GetOpenEffect, Lens DEF KeepsCommand, Agreed, Alive, Exchanging
  <1>11. CASE ClientGetRecv
    BY <1>11, GetRecvEffect, Lens DEF KeepsCommand, Agreed, Alive, Exchanging
  <1>12. CASE ClientGetReply
    BY <1>12, GetReplyEffect, Lens DEF KeepsCommand, Agreed, Alive, Exchanging
  <1>13. CASE ClientGetDecrypt \/ ClientGetUncomp
    BY <1>13, GetProcessControl, Lens DEF KeepsCommand, Agreed, Alive, Exchanging
  <1>14. CASE ClientPutPrepare
    BY <1>14, PutPrepareEffect, Lens DEF KeepsCommand, Sent, Agreed, Alive, Exchanging
  <1>15. CASE ClientPutWrite
    BY <1>15, Locals, Lens DEF ClientPutWrite, ctl, data, ClientStates, Agreed, Alive,
       Exchanging
  <1>16. CASE ClientPutClose
    BY <1>16, PutCloseEffect, Lens DEF KeepsCommand, Agreed, Alive, Exchanging
  <1>17. CASE ClientPutReply
    BY <1>17, PutReplyEffect, Lens DEF KeepsCommand, Agreed, Alive, Exchanging
  <1>18. CASE ClientSigpipe
    BY <1>18, Locals, Lens DEF ClientSigpipe, ctl, data, Crash, ClientStates, Agreed,
       Alive, Exchanging
  <1>19. CASE ClientKilled
    BY <1>19, Locals, Lens DEF ClientKilled, ctl, data, Crash, ClientStates, Agreed,
       Alive, Exchanging
  <1> QED
    BY <1>1, <1>2, <1>3, <1>4, <1>5, <1>6, <1>7, <1>8, <1>9, <1>10, <1>11, <1>12, <1>13,
       <1>14, <1>15, <1>16, <1>17, <1>18, <1>19 DEF UserStep, ClientStep

LEMMA AgreedServerStep ==
    ASSUME TypeOK, Dispatched, PortInTurn, Numbered, Sockets, Paired, Agreed, Rounds,
           InTurn, ServerStep \/ ServerSigpipe \/ ServerKilled
    PROVE  Agreed'
  <1>1. CASE ServerQuit
    BY <1>1, ServerQuitEffect, Lens DEF KeepsRequest, Received, Agreed, Alive, Exchanging
  <1>2. CASE ServerPort
    <2>1. /\ UNCHANGED <<c, pending>> /\ KeepsRequest /\ s'.key = s.key /\ s.pc = "idle"
          /\ s'.pc = "setup"
      BY <1>2, ServerPortEffect
    <2>2. PICK n \in 1..Len(c2s) : HasPort(n)
      BY <1>2, ServerPortEffect
    <2>3. c.pc \in {"accept", "dead"}
      BY <2>2, CommandLen DEF HasPort, PortInTurn
    <2> QED
      BY <2>1, <2>3 DEF Agreed, Alive, Exchanging, KeepsRequest
  <1>3. CASE ServerGarbled
    BY <1>3, Locals, Lens DEF ServerGarbled, ctl, data, Crash, ServerStates, Agreed,
       Alive, Exchanging
  <1>4. CASE ServerConnect
    <2>1. /\ UNCHANGED c /\ KeepsRequest /\ s'.key = s.key /\ s.pc = "setup"
          /\ s'.pc \in {"cmd", "exit"}
      BY <1>4, ConnectEffect
    <2> QED
      BY <2>1 DEF Agreed, Alive, Exchanging, KeepsRequest
  <1>5. CASE ServerCommand
    <2>1. /\ UNCHANGED c /\ s.pc = "cmd" /\ s'.pc \in {"list", "dh", "close"}
          /\ s'.key = <<>>
      BY <1>5, CommandEffect
    <2>2. Alive(c) => c.key = <<>>
      BY <2>1 DEF Agreed
    <2>3. \A id : Proper(<<>>, id)
      BY DEF Proper
    <2> QED
      BY <2>1, <2>2, <2>3 DEF Agreed, Alive
  <1>6. CASE ServerMerged
    BY <1>6, ServerMergedEffect, Lens DEF KeepsRequest, Received, Agreed, Alive,
       Exchanging
  <1>7. CASE ServerClose
    BY <1>7, Locals, Lens DEF ServerClose, ctl, data, ServerStates, Agreed, Alive,
       Exchanging
  <1>8. CASE ServerList
    BY <1>8, ListEffect, Lens DEF KeepsRequest, Agreed, Alive, Exchanging
  <1>9. CASE ServerDH
    <2>1. /\ UNCHANGED c /\ s'.id = s.id /\ s.pc = "dh"
          /\ (dc2s # <<>> \/ ClientDataClosed)
          /\ s'.key = Append(s.key, <<HalfRead(dc2s, s.key, 1), ServerHalf>>)
          /\ s'.pc \in {"dh", "retr_open", "stor_open"}
      BY <1>9, ServerDHEffect DEF KeepsRequest
    <2>2. ASSUME Alive(c)
          PROVE  Proper(c.key, c.id) /\ Proper(s'.key, c.id)
      <3>1. c.pc \in InDH /\ s.id = c.id /\ c.open
        BY <2>1, <2>2 DEF Paired, Alive, Sockets, Busy, InDH, InGet, InPut, Retr, Stor,
           Serving
      <3>2. Proper(c.key, c.id) /\ Proper(s.key, c.id)
        BY <2>1, <2>2, <3>1 DEF Agreed, Alive, Exchanging
      <3>3. ServerTurn
        BY <2>1, <3>1 DEF InTurn, ClientTurn, HalfWaits, Exchanging, Alive,
           ClientDataClosed, InDH
      <3>4. HalfRead(dc2s, s.key, 1) = Half("client", c.id, Len(s.key) + 1)
        <4>0. c.id \in Ids /\ Len(s.key) + 1 \in Nat
          BY Fields, Lens
        <4>1. Half("client", c.id, Len(s.key) + 1) \in Halves
          BY <4>0, HalfType
        <4> DEFINE h == Half("client", c.id, Len(s.key) + 1)
        <4>2. dc2s = <<h>>
          BY <3>3 DEF ServerTurn
        <4> HIDE DEF h
        <4>3. dc2s # <<>> /\ Head(dc2s) = h
          BY <4>2
        <4> QED
          BY <4>1, <4>3 DEF HalfRead, h
      <3>5. s'.key = Append(s.key, <<Half("client", c.id, Len(s.key) + 1),
                                     Half("server", c.id, Len(s.key) + 1)>>)
        BY <2>1, <3>1, <3>4 DEF ServerHalf
      <3>6. Proper(s'.key, c.id)
        BY <3>2, <3>5, ProperAppend, Fields
      <3> QED
        BY <3>2, <3>6
    <2> QED
      BY <2>1, <2>2 DEF Agreed, Alive
  <1>10. CASE ServerRetrOpen
    <2>1. /\ UNCHANGED c /\ KeepsRequest /\ s'.key = s.key /\ s.pc = "retr_open"
          /\ s'.pc \in {"close", "retr_send"}
      BY <1>10, RetrOpenEffect
    <2> QED
      BY <2>1 DEF Agreed, Alive, Exchanging, KeepsRequest
  <1>11. CASE ServerRetrWrite
    BY <1>11, Locals, Lens DEF ServerRetrWrite, ctl, data, ServerStates, Agreed, Alive,
       Exchanging
  <1>12. CASE ServerRetrDone
    BY <1>12, Locals, Lens DEF ServerRetrDone, ctl, data, Leave, ServerStates, Agreed,
       Alive, Exchanging
  <1>13. CASE ServerStorOpen
    BY <1>13, Locals, Lens DEF ServerStorOpen, ctl, data, Leave, ServerStates, Agreed,
       Alive, Exchanging
  <1>14. CASE ServerStorRecv
    BY <1>14, Locals, Lens DEF ServerStorRecv, ctl, data, ServerStates, Agreed, Alive,
       Exchanging
  <1>15. CASE ServerStorEof
    BY <1>15, Locals, Lens DEF ServerStorEof, ctl, data, ServerStates, Agreed, Alive,
       Exchanging
  <1>16. CASE ServerStorDecrypt \/ ServerStorUncomp
    BY <1>16, StorProcessControl, Lens DEF KeepsRequest, Agreed, Alive, Exchanging
  <1>17. CASE ServerSigpipe
    BY <1>17, Locals, Lens DEF ServerSigpipe, ctl, data, Crash, ServerStates, Agreed,
       Alive, Exchanging
  <1>18. CASE ServerKilled
    BY <1>18, Locals, Lens DEF ServerKilled, ctl, data, Crash, ServerStates, Agreed,
       Alive, Exchanging
  <1> QED
    BY <1>1, <1>2, <1>3, <1>4, <1>5, <1>6, <1>7, <1>8, <1>9, <1>10, <1>11, <1>12, <1>13,
       <1>14, <1>15, <1>16, <1>17, <1>18 DEF ServerStep

(* A queue of one message is empty once it is read.                        *)
LEMMA TailOne ==
    ASSUME NEW S, NEW q \in Seq(S), Len(q) = 1
    PROVE  Tail(q) = <<>>
  <1>1. q # <<>>
    BY EmptySeq
  <1>2. Tail(q) \in Seq(S) /\ Len(Tail(q)) = 0
    BY <1>1, TailFacts
  <1> QED
    BY <1>2, EmptySeq

(* A half-key that waits alone is taken, and nothing is left.              *)
LEMMA HalfWaitsOne ==
    ASSUME TypeOK, HalfWaits, Len(s.key) # DHRounds
    PROVE  Len(ds2c) = 1
  <1> DEFINE l == Len(ds2c)
  <1>1. l \in Nat /\ l # 0
    BY Fields, EmptySeq DEF HalfWaits
  <1>2. ~(l > 1)
    BY DEF HalfWaits
  <1> HIDE DEF l
  <1>3. l = 1
    BY <1>1, <1>2
  <1> QED
    BY <1>3 DEF l

(* A child that dies leaves at most one of its half-keys unread.           *)
LEMMA InTurnCrash ==
    ASSUME TypeOK, Dispatched, Numbered, Paired, Rounds, InTurn,
           Alive(s), s' = Crash(s), UNCHANGED <<c, dc2s, ds2c>>
    PROVE  InTurn'
  <1>1. s'.pc = "dead" /\ s'.key = s.key /\ s'.id = s.id
    BY Locals DEF Crash, ServerStates
  <1>2. DHRounds \in Nat /\ Len(s.key) \in Nat /\ Len(ds2c) \in Nat
    BY Lens, TransferAssumption
  <1>3. c.pc \in InDH /\ s.id = c.id /\ s.pc # "cmd" =>
            \/ ds2c = <<>> /\ s.pc = "dh"
            \/ c.pc = "dh_recv" /\ HalfWaits
    BY DEF InTurn, ClientTurn, ServerTurn, Exchanging, InDH
  <1>4. c.pc \in InDH /\ s.id = c.id /\ Exchanging' => c.pc = "dh_recv" /\ HalfWaits'
    <2> SUFFICES ASSUME c.pc \in InDH, s.id = c.id, Exchanging'
                 PROVE  c.pc = "dh_recv" /\ HalfWaits'
      OBVIOUS
    <2>1. Len(s.key) = DHRounds
      BY <1>1 DEF Exchanging, Alive
    <2>2. s.pc # "dh"
      BY <1>2, <2>1 DEF Rounds
    <2>3. s.pc # "cmd"
      BY DEF Paired, Alive, Busy, InDH, InGet, InPut, Retr, Stor, Serving
    <2> QED
      BY <1>1, <1>3, <2>2, <2>3 DEF HalfWaits
  <1>5. ASSUME c.pc \in Busy, Len(s.key) < DHRounds \/ s.id # c.id
        PROVE  c.buf = <<>> /\ (ds2c # <<>> => c.pc = "dh_recv" /\ Len(ds2c) = 1)
    <2>1. CASE s.pc = "cmd"
      BY <2>1, <1>5 DEF Paired, InTurn, Rounds, Busy, InDH, InGet, InPut, Retr, Stor,
         Serving
    <2>2. CASE s.pc # "cmd"
      <3>1. s.id = c.id /\ Len(s.key) # DHRounds
        BY <1>2, <1>5, <2>2 DEF Paired, Alive
      <3>2. s.verb \in {"RETR", "STOR"}
        BY <1>5, <3>1, VerbFacts DEF Numbered, Dispatched, Busy, InGet, InPut
      <3>3. s.pc = "dh"
        BY <3>1, <3>2 DEF Rounds
      <3>4. c.pc \in InDH /\ c.buf = <<>>
        BY <1>5, <3>3 DEF Paired, Rounds, Busy, InDH, InGet, InPut
      <3>5. HalfWaits => Len(ds2c) = 1
        BY <3>1, HalfWaitsOne
      <3> QED
        BY <1>3, <2>2, <3>1, <3>4, <3>5
    <2> QED
      BY <2>1, <2>2
  <1> QED
    BY <1>1, <1>4, <1>5 DEF InTurn, Alive, InDH

-----------------------------------------------------------------------------
(* InTurn: in the exchange at most one half-key is in flight each way, and *)
(* it is the one its reader expects.                                       *)
LEMMA InTurnClientStep ==
    ASSUME TypeOK, Dispatched, PortInTurn, Numbered, Sockets, Paired, Agreed, Rounds,
           InTurn, UserStep \/ ClientStep \/ ClientSigpipe \/ ClientKilled
    PROVE  InTurn'
  <1>1. ASSUME NEW op \in Ops, NEW f \in Files, UserCommand(op, f) PROVE InTurn'
    BY <1>1, UserCommandEffect, Lens DEF KeepsRequest, Sent, InTurn, ClientTurn,
       ServerTurn, HalfWaits, Alive, Exchanging, Busy, InDH, InGet, InPut, Retr, Stor,
       Serving
  <1>2. CASE UserQuit
    BY <1>2, UserQuitEffect, Lens DEF KeepsRequest, Sent, InTurn, ClientTurn, ServerTurn,
       HalfWaits, Alive, Exchanging, Busy, InDH, InGet, InPut, Retr, Stor, Serving
  <1>3. CASE ClientAccept
    <2>1. /\ UNCHANGED <<s, dc2s, ds2c>> /\ KeepsCommand /\ c'.buf = c.buf
          /\ c.pc = "accept" /\ pending /\ c'.pc \in {"ls", "skip", "dh_send"}
      BY <1>3, AcceptEffect
    <2>2. /\ s.id # c.id /\ s.pc \in {"cmd", "dead"} /\ dc2s = <<>> /\ ds2c = <<>>
          /\ c.buf = <<>>
      BY <2>1, Locals DEF Numbered, PortInTurn, Rounds
    <2>3. Len(dc2s) <= 1
      BY <2>2
    <2> QED
      BY <2>1, <2>2, <2>3 DEF InTurn, Alive, KeepsCommand, Busy, InDH, InGet, InPut,
         Retr, Stor, Serving
  <1>4. CASE ClientSkipReply
    BY <1>4, Locals, Lens DEF ClientSkipReply, ctl, data, Return, ClientStates, InTurn,
       ClientTurn, ServerTurn, HalfWaits, Alive, Exchanging, Busy, InDH, InGet, InPut,
       Retr, Stor, Serving
  <1>5. CASE ClientQuitReply
    BY <1>5, Locals, Lens DEF ClientQuitReply, ctl, data, ClientStates, InTurn,
       ClientTurn, ServerTurn, HalfWaits, Alive, Exchanging, Busy, InDH, InGet, InPut,
       Retr, Stor, Serving
  <1>6. CASE ClientLsControl
    BY <1>6, LsControlEffect, Lens DEF KeepsCommand, InTurn, ClientTurn, ServerTurn,
       HalfWaits, Alive, Exchanging, Busy, InDH, InGet, InPut, Retr, Stor, Serving
  <1>7. CASE ClientLsData
    BY <1>7, LsDataEffect, Lens DEF KeepsCommand, InTurn, ClientTurn, ServerTurn,
       HalfWaits, Alive, Exchanging, Busy, InDH, InGet, InPut, Retr, Stor, Serving
  <1>8. CASE ClientDHSend
    <2>1. /\ UNCHANGED <<s, ds2c>> /\ c.pc = "dh_send" /\ c'.pc = "dh_recv"
          /\ c'.id = c.id /\ c'.key = c.key /\ c'.buf = c.buf /\ c'.op = c.op
          /\ dc2s' = IF ServerDataClosed THEN dc2s ELSE Append(dc2s, ClientHalf)
      BY <1>8, Locals DEF ClientDHSend, ClientStates
    <2>2. ASSUME s.pc = "cmd" \/ (s.id = c.id /\ Exchanging)
          PROVE  /\ s.pc \in {"cmd", "dh"} /\ dc2s = <<>> /\ ds2c = <<>>
                 /\ s.pc = "cmd" => c.key = <<>>
                 /\ dc2s' = <<Half("client", c.id, Len(c.key) + 1)>>
                 /\ Len(dc2s') <= 1
      <3>1. dc2s = <<>> /\ ds2c = <<>> /\ s.pc \in {"cmd", "dh"}
        BY <2>1, <2>2 DEF InTurn, ClientTurn, InDH
      <3>2. s.open
        BY <3>1 DEF Sockets, Serving
      <3>3. s.pc = "cmd" => c.key = <<>>
        BY <2>1 DEF Agreed, Alive
      <3> DEFINE h == Half("client", c.id, Len(c.key) + 1)
      <3>4. dc2s' = Append(dc2s, h)
        BY <2>1, <3>2 DEF ServerDataClosed, ClientHalf
      <3> HIDE DEF h
      <3>5. dc2s' = <<h>> /\ Len(<<h>>) = 1
        BY <3>1, <3>4
      <3>6. Len(dc2s') <= 1
        BY <3>5
      <3> QED
        BY <3>1, <3>3, <3>5, <3>6 DEF h
    <2>3. s.pc = "cmd" => dc2s' = <<Half("client", c.id, 1)>>
      <3>1. c.key = <<>> => Half("client", c.id, Len(c.key) + 1) = Half("client", c.id, 1)
        BY EmptySeq
      <3> QED
        BY <2>2, <3>1
    <2>4. s.pc = "dh" => s.id = c.id /\ Exchanging
      BY <2>1 DEF Paired, Exchanging, Alive, Busy, InDH, InGet, InPut, Retr, Stor, Serving
    <2>5. s.pc \in {"cmd", "dh"} => Len(dc2s') <= 1
      BY <2>2, <2>4, Zenon
    <2>6. s.id = c.id /\ Exchanging => ServerTurn'
      BY <2>1, <2>2, <2>4 DEF InTurn, ClientTurn, ServerTurn
    <2> QED
      BY <2>1, <2>2, <2>3, <2>5, <2>6 DEF InTurn, Alive, Exchanging, InDH, Busy
  <1>9. CASE ClientDHRecv
    <2>1. /\ UNCHANGED <<s, dc2s>> /\ KeepsCommand /\ c.pc = "dh_recv" /\ c'.buf = c.buf
          /\ (ds2c # <<>> \/ ServerDataClosed)
          /\ ds2c' = IF ds2c = <<>> THEN <<>> ELSE Tail(ds2c)
          /\ Len(c'.key) = Len(c.key) + 1
          /\ (c'.pc = "dh_send" => Len(c'.key) < DHRounds)
          /\ c'.pc \in {"dh_send", "get_open", "put_prepare"}
      BY <1>9, DHRecvEffect
    <2>2. s.pc # "cmd"
      BY <2>1 DEF InTurn, Sockets, ServerDataClosed, InDH
    <2>3. c.buf = <<>>
      BY <2>1 DEF Rounds, InDH
    <2>4. Len(ds2c) = 1 => ds2c' = <<>>
      BY <2>1, TailOne, Fields
    <2>5. ASSUME s.id = c.id, Exchanging, c'.pc = "dh_send"
          PROVE  ClientTurn'
      <3>1. HalfWaits
        BY <2>1, <2>5 DEF InTurn, ServerTurn, Sockets, ServerDataClosed, Serving
      <3>2. Len(s.key) = Len(c'.key) /\ Len(s.key) < DHRounds /\ dc2s = <<>>
        BY <2>1, <2>5, <3>1 DEF HalfWaits
      <3>3. ds2c' = <<>>
        <4>1. DHRounds \in Nat /\ Len(s.key) # DHRounds
          BY <3>2, Lens, TransferAssumption
        <4>3. Len(ds2c) = 1
          BY <3>1, <4>1, HalfWaitsOne
        <4> QED
          BY <2>4, <4>3
      <3>4. s.pc = "dh"
        <4>1. DHRounds \in Nat /\ Len(s.key) # DHRounds
          BY <3>2, Lens, TransferAssumption
        <4>2. Alive(s) /\ s.verb \in {"RETR", "STOR"}
          BY <2>1, <2>5, <4>1, VerbFacts DEF Exchanging, Numbered, Dispatched, InDH
        <4> QED
          BY <4>1, <4>2 DEF Rounds
      <3> QED
        BY <2>1, <3>2, <3>3, <3>4 DEF ClientTurn
    <2>6. c.pc \in Busy /\ ~Alive(s) /\ (Len(s.key) < DHRounds \/ s.id # c.id) =>
          ds2c' = <<>>
      BY <2>1, <2>4 DEF InTurn
    <2> QED
      BY <2>1, <2>2, <2>3, <2>5, <2>6 DEF InTurn, Alive, Exchanging, KeepsCommand, Busy,
         InDH, InGet, InPut, Retr, Stor, Serving
  <1>10. CASE ClientGetOpen
    BY <1>10, GetOpenEffect, Lens DEF KeepsCommand, InTurn, ClientTurn, ServerTurn,
       HalfWaits, Alive, Exchanging, Busy, InDH, InGet, InPut, Retr, Stor, Serving
  <1>11. CASE ClientGetRecv
    BY <1>11, GetRecvEffect, Lens DEF KeepsCommand, InTurn, ClientTurn, ServerTurn,
       HalfWaits, Alive, Exchanging, Busy, InDH, InGet, InPut, Retr, Stor, Serving
  <1>12. CASE ClientGetReply
    BY <1>12, GetReplyEffect, Lens DEF KeepsCommand, InTurn, ClientTurn, ServerTurn,
       HalfWaits, Alive, Exchanging, Busy, InDH, InGet, InPut, Retr, Stor, Serving
  <1>13. CASE ClientGetDecrypt \/ ClientGetUncomp
    BY <1>13, GetProcessControl, Lens DEF KeepsCommand, InTurn, ClientTurn, ServerTurn,
       HalfWaits, Alive, Exchanging, Busy, InDH, InGet, InPut, Retr, Stor, Serving
  <1>14. CASE ClientPutPrepare
    <2>1. /\ UNCHANGED <<s, dc2s, ds2c>> /\ KeepsCommand /\ c.pc = "put_prepare"
          /\ c'.pc \in {"put_skip", "put_send", "prompt"} /\ c.op = "put"
      BY <1>14, PutPrepareEffect DEF Dispatched, InPut
    <2> QED
      BY <2>1 DEF InTurn, Alive, KeepsCommand, Busy, InDH, InGet, InPut, Retr, Stor,
         Serving
  <1>15. CASE ClientPutWrite
    <2>1. /\ UNCHANGED <<s, ds2c>> /\ c.pc = "put_send" /\ c'.pc = "put_send"
          /\ c'.op = c.op /\ c'.id = c.id /\ c.op = "put"
      BY <1>15, Locals DEF ClientPutWrite, ClientStates, Dispatched, InPut
    <2>2. s.pc \notin {"cmd", "dh"}
      BY <2>1 DEF Paired, Busy, InDH, InGet, InPut, Retr, Stor, Serving
    <2> QED
      BY <2>1, <2>2 DEF InTurn, Alive, Busy, InDH, InGet, InPut, Retr, Stor, Serving
  <1>16. CASE ClientPutClose
    BY <1>16, PutCloseEffect, Lens DEF KeepsCommand, InTurn, ClientTurn, ServerTurn,
       HalfWaits, Alive, Exchanging, Busy, InDH, InGet, InPut, Retr, Stor, Serving
  <1>17. CASE ClientPutReply
    BY <1>17, PutReplyEffect, Lens DEF KeepsCommand, InTurn, ClientTurn, ServerTurn,
       HalfWaits, Alive, Exchanging, Busy, InDH, InGet, InPut, Retr, Stor, Serving
  <1>18. CASE ClientSigpipe
    BY <1>18, Locals, Lens DEF ClientSigpipe, ctl, data, Crash, ClientStates, InTurn,
       ClientTurn, ServerTurn, HalfWaits, Alive, Exchanging, Busy, InDH, InGet, InPut,
       Retr, Stor, Serving
  <1>19. CASE ClientKilled
    BY <1>19, Locals, Lens DEF ClientKilled, ctl, data, Crash, ClientStates, InTurn,
       ClientTurn, ServerTurn, HalfWaits, Alive, Exchanging, Busy, InDH, InGet, InPut,
       Retr, Stor, Serving
  <1> QED
    BY <1>1, <1>2, <1>3, <1>4, <1>5, <1>6, <1>7, <1>8, <1>9, <1>10, <1>11, <1>12, <1>13,
       <1>14, <1>15, <1>16, <1>17, <1>18, <1>19 DEF UserStep, ClientStep

LEMMA InTurnServerStep ==
    ASSUME TypeOK, Dispatched, PortInTurn, Numbered, Sockets, Paired, Agreed, Rounds,
           InTurn, ServerStep \/ ServerSigpipe \/ ServerKilled
    PROVE  InTurn'
  <1>1. CASE ServerQuit
    BY <1>1, ServerQuitEffect, Lens DEF KeepsRequest, Received, InTurn, ClientTurn,
       ServerTurn, HalfWaits, Alive, Exchanging, Busy, InDH, InGet, InPut, Retr, Stor,
       Serving
  <1>2. CASE ServerPort
    BY <1>2, ServerPortEffect, Lens DEF KeepsRequest, Received, InTurn, ClientTurn,
       ServerTurn, HalfWaits, Alive, Exchanging, Busy, InDH, InGet, InPut, Retr, Stor,
       Serving
  <1>3. CASE ServerGarbled
    BY <1>3, InTurnCrash DEF ServerGarbled, Alive, data
  <1>4. CASE ServerConnect
    <2>1. /\ UNCHANGED c /\ s.pc = "setup" /\ s'.pc \in {"cmd", "exit"}
          /\ (s'.pc = "cmd" => dc2s' = <<>>)
      BY <1>4, ConnectEffect
    <2>2. c.pc \in {"accept", "dead"}
      BY <2>1 DEF PortInTurn
    <2>3. s'.pc = "cmd" => Len(dc2s') <= 1
      BY <2>1
    <2> QED
      BY <2>1, <2>2, <2>3 DEF InTurn, Alive, Busy, InDH, InGet, InPut, Retr, Stor, Serving
  <1>5. CASE ServerCommand
    <2>1. /\ UNCHANGED <<c, dc2s, ds2c>> /\ s.pc = "cmd" /\ s'.key = <<>>
          /\ s'.id = Head(c2s).id /\ s'.pc \in {"list", "dh", "close"}
          /\ (Head(c2s).verb \in {"RETR", "STOR"} => s'.pc = "dh")
      BY <1>5, CommandEffect
    <2>2. ASSUME c.pc \in Busy
          PROVE  c.pc \in InDH /\ s'.pc = "dh" /\ c.key = <<>>
      <3> DEFINE m == Command(Verb[c.op], c.file, c.id)
      <3>1. c2s = <<m>> /\ c.pc \in InDH
        BY <2>1, <2>2 DEF Paired, Busy, InDH, InGet, InPut, Retr, Stor, Serving
      <3>2. m.verb \in {"RETR", "STOR"}
        BY <3>1, VerbFacts DEF Dispatched, Command
      <3>3. c.key = <<>>
        BY <2>1, <3>1 DEF Agreed, Alive, InDH
      <3> HIDE DEF m
      <3>4. Head(c2s) = m
        BY <3>1
      <3> QED
        BY <2>1, <3>1, <3>2, <3>3, <3>4
    <2>3. c.pc \in InDH =>
          ds2c = <<>> /\ dc2s = IF c.pc = "dh_send" THEN <<>> ELSE <<Half("client", c.id, 1)>>
      BY <2>1 DEF InTurn
    <2>4. c.key = <<>> => Len(c.key) = 0 /\ Len(s'.key) = 0 /\ Len(c.key) + 1 = 1
      BY <2>1, EmptySeq
    <2>5. c.pc = "dh_send" => ClientTurn'
      BY <2>1, <2>2, <2>3, <2>4 DEF ClientTurn, Busy, InDH
    <2>6. c.pc = "dh_recv" => ServerTurn'
      BY <2>1, <2>2, <2>3, <2>4 DEF ServerTurn, Busy, InDH
    <2> QED
      BY <2>1, <2>5, <2>6 DEF InTurn, Alive
  <1>6. CASE ServerMerged
    BY <1>6, ServerMergedEffect, Lens DEF KeepsRequest, Received, InTurn, ClientTurn,
       ServerTurn, HalfWaits, Alive, Exchanging, Busy, InDH, InGet, InPut, Retr, Stor,
       Serving
  <1>7. CASE ServerClose
    BY <1>7, Locals, Lens DEF ServerClose, ctl, data, ServerStates, InTurn, ClientTurn,
       ServerTurn, HalfWaits, Alive, Exchanging, Busy, InDH, InGet, InPut, Retr, Stor,
       Serving
  <1>8. CASE ServerList
    <2>1. UNCHANGED c /\ s.pc = "list" /\ s'.pc = "close"
      BY <1>8, ListEffect
    <2>2. c.pc \notin Busy
      BY <2>1 DEF Paired, Busy, InDH, InGet, InPut, Retr, Stor, Serving
    <2> QED
      BY <2>1, <2>2 DEF InTurn, Alive, Busy, InDH
  <1>9. CASE ServerDH
    <2>1. /\ UNCHANGED <<c, pending>> /\ KeepsRequest /\ s.pc = "dh"
          /\ (dc2s # <<>> \/ ClientDataClosed)
          /\ dc2s' = IF dc2s = <<>> THEN <<>> ELSE Tail(dc2s)
          /\ ds2c' = IF ClientDataClosed THEN ds2c ELSE Append(ds2c, ServerHalf)
          /\ Len(s'.key) = Len(s.key) + 1
          /\ s'.pc \in {"dh", "retr_open", "stor_open"}
      BY <1>9, ServerDHEffect
    <2>2. Len(dc2s) <= 1 => dc2s' = <<>> /\ Len(dc2s') <= 1
      BY <2>1, Fields
    <2>3. c.pc \in Busy => c.pc \in InDH /\ s.id = c.id /\ c.open
      BY <2>1 DEF Paired, Sockets, Busy, InDH, InGet, InPut, Retr, Stor, Serving
    <2>4. c.pc # "dh_send"
      BY <2>1, <2>3 DEF InTurn, ClientTurn, Exchanging, Alive, ClientDataClosed, Busy,
         InDH
    <2>5. ASSUME c.pc = "dh_recv"
          PROVE  HalfWaits'
      <3>1. ServerTurn
        BY <2>1, <2>3, <2>5 DEF InTurn, HalfWaits, Exchanging, Alive, ClientDataClosed,
           Busy, InDH
      <3> DEFINE h == Half("server", c.id, Len(c.key) + 1)
      <3>2. ds2c' = Append(ds2c, h)
        BY <2>1, <2>3, <2>5, <3>1 DEF ServerTurn, ServerHalf, ClientDataClosed, Busy, InDH
      <3>3. dc2s' = <<>>
        BY <2>1, <2>2 DEF InTurn
      <3> HIDE DEF h
      <3>4. ds2c' = <<h>>
        BY <3>1, <3>2 DEF ServerTurn
      <3>5. ds2c' # <<>> /\ Head(ds2c') = h /\ ~(Len(ds2c') > 1)
        BY <3>4
      <3>6. Len(s'.key) = Len(c.key) + 1
        BY <2>1, <3>1 DEF ServerTurn
      <3>7. h = Half("server", c'.id, Len(c'.key) + 1) /\ c'.key = c.key
        BY <2>1 DEF h
      <3> QED
        BY <3>3, <3>5, <3>6, <3>7 DEF HalfWaits
    <2> QED
      BY <2>1, <2>2, <2>3, <2>4, <2>5 DEF InTurn, Alive, Busy, InDH, KeepsRequest
  <1>10. CASE ServerRetrOpen
    <2>1. /\ UNCHANGED <<c, dc2s, ds2c>> /\ KeepsRequest /\ s.pc = "retr_open"
          /\ s'.key = s.key /\ s'.pc \in {"close", "retr_send"}
      BY <1>10, RetrOpenEffect
    <2> QED
      BY <2>1 DEF InTurn, ClientTurn, ServerTurn, HalfWaits, Exchanging, Alive,
         KeepsRequest
  <1>11. CASE ServerRetrWrite
    <2>1. /\ UNCHANGED <<c, dc2s>> /\ s.pc = "retr_send" /\ s'.pc = "retr_send"
          /\ s'.id = s.id /\ s'.key = s.key
          /\ ds2c' = IF ClientDataClosed THEN ds2c ELSE Append(ds2c, Head(s.buf))
      BY <1>11, Locals DEF ServerRetrWrite, ServerStates
    <2>2. c.pc # "dh_send" \/ s.id # c.id
      BY <2>1 DEF InTurn, ClientTurn, Exchanging, Alive
    <2>3. ASSUME c.pc = "dh_recv", s.id = c.id
          PROVE  HalfWaits'
      <3>1. HalfWaits
        BY <2>1, <2>3 DEF InTurn, ServerTurn, Exchanging, Alive
      <3>2. Len(s.key) = DHRounds
        BY <2>1 DEF Rounds, Alive, Dispatched, Retr
      <3>3. ds2c' # <<>> /\ Head(ds2c') = Head(ds2c)
        <4>1. ds2c \in Seq(Messages) /\ ds2c # <<>> /\ Head(s.buf) \in Messages
          BY <3>1, <1>11, Fields DEF HalfWaits, ServerRetrWrite
        <4> QED
          BY <2>1, <4>1
      <3> QED
        BY <2>1, <3>1, <3>2, <3>3 DEF HalfWaits
    <2>4. s.id = c.id \/ c.pc \notin Busy
      BY <2>1 DEF Paired, Busy, InDH, InGet, InPut, Retr, Stor, Serving
    <2> QED
      BY <2>1, <2>2, <2>3, <2>4 DEF InTurn, Alive, Busy, InDH
  <1>12. CASE ServerRetrDone
    BY <1>12, Locals, Lens DEF ServerRetrDone, ctl, data, Leave, ServerStates, InTurn,
       ClientTurn, ServerTurn, HalfWaits, Alive, Exchanging, Busy, InDH, InGet, InPut,
       Retr, Stor, Serving
  <1>13. CASE ServerStorOpen
    BY <1>13, Locals, Lens DEF ServerStorOpen, ctl, data, Leave, ServerStates, InTurn,
       ClientTurn, ServerTurn, HalfWaits, Alive, Exchanging, Busy, InDH, InGet, InPut,
       Retr, Stor, Serving
  <1>14. CASE ServerStorRecv
    BY <1>14, Locals, Lens DEF ServerStorRecv, ctl, data, ServerStates, InTurn,
       ClientTurn, ServerTurn, HalfWaits, Alive, Exchanging, Busy, InDH, InGet, InPut,
       Retr, Stor, Serving
  <1>15. CASE ServerStorEof
    BY <1>15, Locals, Lens DEF ServerStorEof, ctl, data, ServerStates, InTurn,
       ClientTurn, ServerTurn, HalfWaits, Alive, Exchanging, Busy, InDH, InGet, InPut,
       Retr, Stor, Serving
  <1>16. CASE ServerStorDecrypt \/ ServerStorUncomp
    BY <1>16, StorProcessControl, Lens DEF KeepsRequest, InTurn, ClientTurn, ServerTurn,
       HalfWaits, Alive, Exchanging, Busy, InDH, InGet, InPut, Retr, Stor, Serving
  <1>17. CASE ServerSigpipe
    BY <1>17, InTurnCrash DEF ServerSigpipe, Alive, data
  <1>18. CASE ServerKilled
    BY <1>18, InTurnCrash DEF ServerKilled, ServerUp, Alive, data
  <1> QED
    BY <1>1, <1>2, <1>3, <1>4, <1>5, <1>6, <1>7, <1>8, <1>9, <1>10, <1>11, <1>12, <1>13,
       <1>14, <1>15, <1>16, <1>17, <1>18 DEF ServerStep

(* What the replies in flight and read say stays true when a read takes    *)
(* some of them, and when a handler adds its own.                          *)
LEMMA NotBeforeTaken ==
    ASSUME TypeOK, NotBefore, TakeReplies, UNCHANGED s, c'.id = c.id, c'.op = c.op,
           c'.reply = c.reply \/ c'.reply = ReplyRead,
           c'.pc \in InDH \cup InGet => c.pc \in InDH \cup InGet
    PROVE  NotBefore'
  <1>1. PICK n \in 0..Len(s2c) : Taken(n)
    BY TakenReplies
  <1>2. \A i \in 1..Len(s2c') : i + n \in 1..Len(s2c) /\ s2c'[i] = s2c[i + n]
    BY <1>1, ReplyLen DEF Taken
  <1>3. c'.reply = c.reply \/ c'.reply = NoReply \/ \E i \in 1..Len(s2c) : c'.reply = s2c[i]
    BY <1>1, ReplyLen DEF Taken
  <1>4. /\ \A i \in 1..Len(s2c') : /\ s2c'[i].code # 0
                                   /\ s2c'[i].code = 200 => s2c'[i].id <= s.id
                                   /\ s2c'[i].code = 200 /\ s.pc \in Owing =>
                                         s2c'[i].id # s.id
    BY <1>2 DEF NotBefore
  <1>5. /\ c'.reply.code = 200 => c'.reply.id <= s.id
        /\ c'.reply.code = 200 /\ s.pc \in Owing => c'.reply.id # s.id
    BY <1>3, NoReplyType DEF NotBefore
  <1>6. Answered' => Answered
    <2>1. Reply(200, c.id) # NoReply
      BY NoReplyType, Locals, TransferAssumption DEF Reply
    <2> QED
      BY <1>2, <1>3, <2>1 DEF Answered
  <1> QED
    BY <1>4, <1>5, <1>6 DEF NotBefore

LEMMA NotBeforeReplied ==
    ASSUME TypeOK, NotBefore, NEW r, Replied(r), r.code # 0, UNCHANGED c,
           s'.id = s.id, s'.key = s.key, s'.pc \notin Owing,
           r.code = 200 => r.id = s.id,
           r.code = 200 /\ s.id = c.id /\ c.op = "get" /\ c.pc \in InDH \cup InGet =>
                Len(s.key) = DHRounds
    PROVE  NotBefore'
  <1>1. \A i \in 1..Len(s2c') : s2c'[i] = r \/ (i \in 1..Len(s2c) /\ s2c'[i] = s2c[i])
    BY ReplyLen DEF Replied
  <1>2. r.code = 200 => r.id <= s.id
    BY Locals
  <1>3. \A i \in 1..Len(s2c') : s2c'[i].code # 0 /\ (s2c'[i].code = 200 => s2c'[i].id <= s.id)
    BY <1>1, <1>2 DEF NotBefore
  <1>4. Answered' => Answered \/ r.code = 200
    BY <1>1 DEF Answered, Reply
  <1> QED
    BY <1>3, <1>4 DEF NotBefore

(* The numbers replies carry.                                              *)
LEMMA ReplyIds ==
    ASSUME TypeOK
    PROVE  /\ c.reply.id \in Nat
           /\ \A i \in 1..Len(s2c) : s2c[i].id \in Nat
  <1>1. \A r \in Replies : r.id \in Nat
    BY TransferAssumption DEF Replies, Ids
  <1>2. \A i \in 1..Len(s2c) : s2c[i] \in Replies
    BY Fields
  <1> QED
    BY <1>1, <1>2, Fields

LEMMA ReplyCode == \A code, id : Reply(code, id).code = code /\ Reply(code, id).id = id
  BY DEF Reply

-----------------------------------------------------------------------------
(* Ends: a stream that was read to its end is empty, and its writer has    *)
(* closed the connection.                                                  *)
LEMMA EndsClientStep ==
    ASSUME TypeOK, Dispatched, PortInTurn, Numbered, Sockets, Paired, Agreed, Rounds,
           InTurn, Ends, UserStep \/ ClientStep \/ ClientSigpipe \/ ClientKilled
    PROVE  Ends'
  <1>1. ASSUME NEW op \in Ops, NEW f \in Files, UserCommand(op, f) PROVE Ends'
    BY <1>1, UserCommandEffect, Lens DEF KeepsRequest, Sent, Ends, ClientDataClosed,
       ServerDataClosed
  <1>2. CASE UserQuit
    BY <1>2, UserQuitEffect, Lens DEF KeepsRequest, Sent, Ends, ClientDataClosed,
       ServerDataClosed
  <1>3. CASE ClientAccept
    BY <1>3, AcceptEffect, Lens DEF KeepsCommand, Sent, Ends, ClientDataClosed,
       ServerDataClosed
  <1>4. CASE ClientSkipReply
    BY <1>4, Locals, Lens DEF ClientSkipReply, ctl, data, Return, ClientStates, Ends,
       ClientDataClosed, ServerDataClosed
  <1>5. CASE ClientQuitReply
    BY <1>5, Locals, Lens DEF ClientQuitReply, ctl, data, ClientStates, Ends,
       ClientDataClosed, ServerDataClosed
  <1>6. CASE ClientLsControl
    <2>1. /\ UNCHANGED <<s, dc2s, pending>> /\ c.pc = "ls"
          /\ c'.pc \in {"ls", "dead", "prompt"}
          /\ (c.open = FALSE => c'.open = FALSE)
      BY <1>6, LsControlEffect
    <2> QED
      BY <2>1 DEF Ends, ClientDataClosed
  <1>7. CASE ClientLsData
    <2>1. /\ UNCHANGED <<s, dc2s, pending>> /\ c'.pc \in {"ls", "prompt"}
          /\ (c.open = FALSE => c'.open = FALSE)
      BY <1>7, LsDataEffect
    <2> QED
      BY <2>1 DEF Ends, ClientDataClosed
  <1>8. CASE ClientDHSend
    <2>1. /\ UNCHANGED s /\ c.pc = "dh_send" /\ c'.pc = "dh_recv"
      BY <1>8, Locals DEF ClientDHSend, ClientStates
    <2>2. s.pc \notin {"stor_process", "stor_uncomp"}
      BY <2>1 DEF Ends, Sockets, ClientDataClosed, Busy, InDH
    <2> QED
      BY <2>1, <2>2 DEF Ends
  <1>9. CASE ClientDHRecv
    BY <1>9, DHRecvEffect, Lens DEF KeepsCommand, Ends, ClientDataClosed, ServerDataClosed
  <1>10. CASE ClientGetOpen
    <2>1. /\ UNCHANGED <<s, dc2s, pending>> /\ c'.pc \in {"get_recv", "prompt"}
          /\ (c.open = FALSE => c'.open = FALSE)
      BY <1>10, GetOpenEffect
    <2> QED
      BY <2>1 DEF Ends, ClientDataClosed
  <1>11. CASE ClientGetRecv
    BY <1>11, GetRecvEffect, Lens DEF KeepsCommand, Ends, ClientDataClosed,
       ServerDataClosed
  <1>12. CASE ClientGetReply
    <2>1. /\ UNCHANGED <<s, dc2s, ds2c, pending>> /\ (c.open = FALSE => c'.open = FALSE)
          /\ (c'.pc = "get_process" => c.pc = "get_reply")
          /\ c'.pc \in {"get_process", "prompt"} /\ c'.buf = c.buf
      BY <1>12, GetReplyEffect
    <2> QED
      BY <2>1 DEF Ends, ClientDataClosed
  <1>13. CASE ClientGetDecrypt \/ ClientGetUncomp
    <2>1. /\ UNCHANGED <<s, dc2s, ds2c, pending>> /\ c'.buf = c.buf
          /\ c.pc \in {"get_process", "get_uncomp"}
          /\ \/ c'.pc = "get_uncomp" /\ c'.open = c.open /\ c.buf # <<>>
             \/ c'.pc = "prompt" /\ c'.open = FALSE
      BY <1>13, GetProcessControl, Zenon
    <2> QED
      BY <2>1 DEF Ends, ClientDataClosed
  <1>14. CASE ClientPutPrepare
    <2>1. /\ UNCHANGED <<s, dc2s, pending>>
          /\ c'.pc \in {"put_skip", "put_send", "prompt"}
          /\ (c.open = FALSE => c'.open = FALSE)
      BY <1>14, PutPrepareEffect
    <2> QED
      BY <2>1 DEF Ends, ClientDataClosed
  <1>15. CASE ClientPutWrite
    <2>1. /\ UNCHANGED s /\ c.pc = "put_send" /\ c'.pc = "put_send" /\ ~c.dataDone
      BY <1>15, Locals DEF ClientPutWrite, ClientStates
    <2>2. s.pc \notin {"stor_process", "stor_uncomp"}
      BY <2>1 DEF Ends, Sockets, ClientDataClosed
    <2> QED
      BY <2>1, <2>2 DEF Ends
  <1>16. CASE ClientPutClose
    <2>1. /\ UNCHANGED <<s, dc2s, pending>> /\ c'.pc \in {"put_send", "prompt"}
          /\ c'.open = FALSE
      BY <1>16, PutCloseEffect
    <2> QED
      BY <2>1 DEF Ends, ClientDataClosed
  <1>17. CASE ClientPutReply
    <2>1. /\ UNCHANGED <<s, dc2s, pending>> /\ c'.pc \in {"put_send", "dead", "prompt"}
          /\ (c.open = FALSE => c'.open = FALSE)
      BY <1>17, PutReplyEffect
    <2> QED
      BY <2>1 DEF Ends, ClientDataClosed
  <1>18. CASE ClientSigpipe
    BY <1>18, Locals, Lens DEF ClientSigpipe, ctl, data, Crash, ClientStates, Ends,
       ClientDataClosed, ServerDataClosed
  <1>19. CASE ClientKilled
    BY <1>19, Locals, Lens DEF ClientKilled, ctl, data, Crash, ClientStates, Ends,
       ClientDataClosed, ServerDataClosed
  <1> QED
    BY <1>1, <1>2, <1>3, <1>4, <1>5, <1>6, <1>7, <1>8, <1>9, <1>10, <1>11, <1>12, <1>13,
       <1>14, <1>15, <1>16, <1>17, <1>18, <1>19 DEF UserStep, ClientStep

LEMMA EndsServerStep ==
    ASSUME TypeOK, Dispatched, PortInTurn, Numbered, Sockets, Paired, Agreed, Rounds,
           InTurn, Ends, ServerStep \/ ServerSigpipe \/ ServerKilled
    PROVE  Ends'
  <1>1. CASE ServerQuit
    BY <1>1, ServerQuitEffect, Lens DEF KeepsRequest, Received, Ends, ClientDataClosed
  <1>2. CASE ServerPort
    BY <1>2, ServerPortEffect, Lens DEF KeepsRequest, Received, Ends, ClientDataClosed
  <1>3. CASE ServerGarbled
    BY <1>3, Locals, Lens DEF ServerGarbled, ctl, data, Crash, ServerStates, Ends,
       ClientDataClosed
  <1>4. CASE ServerConnect
    <2>1. UNCHANGED c /\ s.pc = "setup" /\ s'.pc \in {"cmd", "exit"}
      BY <1>4, ConnectEffect
    <2>2. c.pc \in {"accept", "dead"}
      BY <2>1 DEF PortInTurn
    <2> QED
      BY <2>1, <2>2 DEF Ends
  <1>5. CASE ServerCommand
    BY <1>5, CommandEffect, Lens DEF KeepsRequest, Received, Ends, ClientDataClosed
  <1>6. CASE ServerMerged
    BY <1>6, ServerMergedEffect, Lens DEF KeepsRequest, Received, Ends, ClientDataClosed
  <1>7. CASE ServerClose
    BY <1>7, Locals, Lens DEF ServerClose, ctl, data, ServerStates, Ends, ClientDataClosed
  <1>8. CASE ServerList
    <2>1. UNCHANGED c /\ s.pc = "list" /\ s'.pc = "close"
      BY <1>8, ListEffect
    <2>2. c.pc \notin {"get_reply", "get_process", "get_uncomp"}
      BY <2>1 DEF Ends, Sockets
    <2> QED
      BY <2>1, <2>2 DEF Ends
  <1>9. CASE ServerDH
    <2>1. UNCHANGED c /\ s.pc = "dh" /\ s'.pc \in {"dh", "retr_open", "stor_open"}
      BY <1>9, ServerDHEffect
    <2>2. c.pc \notin {"get_reply", "get_process", "get_uncomp"}
      BY <2>1 DEF Ends, Sockets, Serving
    <2> QED
      BY <2>1, <2>2 DEF Ends
  <1>10. CASE ServerRetrOpen
    BY <1>10, RetrOpenEffect, Lens, ZenonT(60) DEF KeepsRequest, Ends, ClientDataClosed
  <1>11. CASE ServerRetrWrite
    <2>1. UNCHANGED c /\ s.pc = "retr_send" /\ s'.pc = "retr_send"
      BY <1>11, Locals DEF ServerRetrWrite, ServerStates
    <2>2. c.pc \notin {"get_reply", "get_process", "get_uncomp"}
      BY <2>1 DEF Ends, Sockets, Serving, Retr
    <2> QED
      BY <2>1, <2>2 DEF Ends
  <1>12. CASE ServerRetrDone
    BY <1>12, Locals, Lens DEF ServerRetrDone, ctl, data, Leave, ServerStates, Ends,
       ClientDataClosed
  <1>13. CASE ServerStorOpen
    BY <1>13, Locals, Lens DEF ServerStorOpen, ctl, data, Leave, ServerStates, Ends,
       ClientDataClosed
  <1>14. CASE ServerStorRecv
    BY <1>14, Locals, Lens DEF ServerStorRecv, ctl, data, ServerStates, Ends,
       ClientDataClosed
  <1>15. CASE ServerStorEof
    BY <1>15, Locals, Lens DEF ServerStorEof, ctl, data, ServerStates, Ends,
       ClientDataClosed
  <1>16. CASE ServerStorDecrypt \/ ServerStorUncomp
    BY <1>16, StorProcessControl, Lens DEF KeepsRequest, Ends, ClientDataClosed
  <1>17. CASE ServerSigpipe
    BY <1>17, Locals, Lens DEF ServerSigpipe, ctl, data, Crash, ServerStates, Ends,
       ClientDataClosed
  <1>18. CASE ServerKilled
    BY <1>18, Locals, Lens DEF ServerKilled, ctl, data, Crash, ServerStates, Ends,
       ClientDataClosed
  <1> QED
    BY <1>1, <1>2, <1>3, <1>4, <1>5, <1>6, <1>7, <1>8, <1>9, <1>10, <1>11, <1>12, <1>13,
       <1>14, <1>15, <1>16, <1>17, <1>18 DEF ServerStep

-----------------------------------------------------------------------------
(* NotBefore: no reply comes before its command, and none that says 200 to *)
(* a get before the key is whole.                                          *)
LEMMA NotBeforeClientStep ==
    ASSUME TypeOK, Dispatched, PortInTurn, Numbered, Sockets, Paired, Agreed, Rounds,
           InTurn, NotBefore, UserStep \/ ClientStep \/ ClientSigpipe \/ ClientKilled
    PROVE  NotBefore'
  <1>1. ASSUME NEW op \in Ops, NEW f \in Files, UserCommand(op, f) PROVE NotBefore'
    <2>1. UNCHANGED <<s, s2c>> /\ c'.reply = NoReply /\ c'.pc = "accept"
      BY <1>1, UserCommandEffect
    <2> QED
      BY <2>1, NoReplyType DEF NotBefore, InDH, InGet
  <1>2. CASE UserQuit
    BY <1>2, UserQuitEffect, Lens DEF KeepsRequest, Sent, NotBefore, Answered, Owing,
       InDH, InGet
  <1>3. CASE ClientAccept
    <2>1. /\ UNCHANGED <<s, s2c>> /\ KeepsCommand /\ c'.reply = c.reply /\ c.pc = "accept"
      BY <1>3, AcceptEffect
    <2>2. s.id # c.id
      BY <2>1, Locals DEF Numbered
    <2> QED
      BY <2>1, <2>2 DEF NotBefore, KeepsCommand
  <1>4. CASE ClientSkipReply
    <2>1. /\ UNCHANGED s /\ KeepsCommand /\ TakeReplies /\ c'.pc = "prompt"
          /\ (c'.reply = c.reply \/ c'.reply = ReplyRead)
      BY <1>4, Locals DEF ClientSkipReply, Return, ClientStates, KeepsCommand
    <2> QED
      BY <2>1, NotBeforeTaken DEF KeepsCommand, InDH, InGet
  <1>5. CASE ClientQuitReply
    <2>1. /\ UNCHANGED s /\ KeepsCommand /\ TakeReplies /\ c'.pc = "done"
          /\ (c'.reply = c.reply \/ c'.reply = ReplyRead)
      BY <1>5, Locals DEF ClientQuitReply, ClientStates, KeepsCommand
    <2> QED
      BY <2>1, NotBeforeTaken DEF KeepsCommand, InDH, InGet
  <1>6. CASE ClientLsControl
    <2>1. /\ UNCHANGED s /\ KeepsCommand /\ TakeReplies
          /\ c'.pc \in {"dead", "ls", "prompt"}
          /\ (c'.reply = c.reply \/ c'.reply = ReplyRead)
      BY <1>6, LsControlEffect
    <2> QED
      BY <2>1, NotBeforeTaken DEF KeepsCommand, InDH, InGet
  <1>7. CASE ClientLsData
    <2>1. /\ UNCHANGED <<s, s2c>> /\ KeepsCommand /\ c'.reply = c.reply
          /\ c'.pc \in {"ls", "prompt"}
      BY <1>7, LsDataEffect
    <2> QED
      BY <2>1 DEF NotBefore, Answered, InDH, InGet, KeepsCommand
  <1>8. CASE ClientDHSend
    BY <1>8, Locals, Lens DEF ClientDHSend, ctl, data, ClientStates, NotBefore, Answered,
       Owing, InDH, InGet
  <1>9. CASE ClientDHRecv
    BY <1>9, DHRecvEffect, Lens DEF KeepsCommand, NotBefore, Answered, Owing, InDH, InGet
  <1>10. CASE ClientGetOpen
    BY <1>10, GetOpenEffect, Lens DEF KeepsCommand, NotBefore, Answered, Owing, InDH,
       InGet
  <1>11. CASE ClientGetRecv
    BY <1>11, GetRecvEffect, Lens DEF KeepsCommand, NotBefore, Answered, Owing, InDH,
       InGet
  <1>12. CASE ClientGetReply
    <2>1. /\ UNCHANGED s /\ KeepsCommand /\ TakeReplies
          /\ (c'.reply = c.reply \/ c'.reply = ReplyRead)
          /\ (c.pc = "get_reply" \/ c'.pc = "prompt")
      BY <1>12, GetReplyEffect
    <2> QED
      BY <2>1, NotBeforeTaken DEF KeepsCommand, InDH, InGet
  <1>13. CASE ClientGetDecrypt \/ ClientGetUncomp
    <2>1. /\ UNCHANGED <<s, s2c>> /\ KeepsCommand /\ c'.reply = c.reply
          /\ c.pc \in {"get_process", "get_uncomp"}
      BY <1>13, GetProcessControl, Zenon
    <2> QED
      BY <2>1 DEF KeepsCommand, NotBefore, Answered, InDH, InGet
  <1>14. CASE ClientPutPrepare
    <2>1. /\ UNCHANGED <<s, s2c>> /\ KeepsCommand /\ c'.reply = c.reply
          /\ c'.pc \in {"put_skip", "put_send", "prompt"}
      BY <1>14, PutPrepareEffect
    <2> QED
      BY <2>1 DEF NotBefore, Answered, InDH, InGet, KeepsCommand
  <1>15. CASE ClientPutWrite
    BY <1>15, Locals, Lens DEF ClientPutWrite, ctl, data, ClientStates, NotBefore,
       Answered, Owing, InDH, InGet
  <1>16. CASE ClientPutClose
    <2>1. /\ UNCHANGED <<s, s2c>> /\ KeepsCommand /\ c'.reply = c.reply
          /\ c'.pc \in {"put_send", "prompt"}
      BY <1>16, PutCloseEffect
    <2> QED
      BY <2>1 DEF NotBefore, Answered, InDH, InGet, KeepsCommand
  <1>17. CASE ClientPutReply
    <2>1. /\ UNCHANGED s /\ KeepsCommand /\ TakeReplies
          /\ c'.pc \in {"dead", "put_send", "prompt"}
          /\ (c'.reply = c.reply \/ c'.reply = ReplyRead)
      BY <1>17, PutReplyEffect
    <2> QED
      BY <2>1, NotBeforeTaken DEF KeepsCommand, InDH, InGet
  <1>18. CASE ClientSigpipe
    BY <1>18, Locals, Lens DEF ClientSigpipe, ctl, data, Crash, ClientStates, NotBefore,
       Answered, Owing, InDH, InGet
  <1>19. CASE ClientKilled
    BY <1>19, Locals, Lens DEF ClientKilled, ctl, data, Crash, ClientStates, NotBefore,
       Answered, Owing, InDH, InGet
  <1> QED
    BY <1>1, <1>2, <1>3, <1>4, <1>5, <1>6, <1>7, <1>8, <1>9, <1>10, <1>11, <1>12, <1>13,
       <1>14, <1>15, <1>16, <1>17, <1>18, <1>19 DEF UserStep, ClientStep

LEMMA NotBeforeServerStep ==
    ASSUME TypeOK, Dispatched, PortInTurn, Numbered, Sockets, Paired, Agreed, Rounds,
           InTurn, NotBefore, ServerStep \/ ServerSigpipe \/ ServerKilled
    PROVE  NotBefore'
  <1>1. CASE ServerQuit
    <2>1. /\ UNCHANGED c /\ s'.id = s.id /\ s'.key = s.key /\ s'.pc = "exit"
          /\ c2s # <<>> /\ s2c' = Append(s2c, Reply(221, Head(c2s).id))
      BY <1>1, ServerQuitEffect DEF KeepsRequest
    <2>2. Head(c2s).id \in Ids
      BY <2>1, CommandHead, CommandIds DEF Commands
    <2> DEFINE r == Reply(221, Head(c2s).id)
    <2>3. Replied(r) /\ r.code = 221
      BY <2>1, <2>2, RepliedSend DEF Codes
    <2> HIDE DEF r
    <2> QED
      BY <2>1, <2>3, NotBeforeReplied DEF Owing
  <1>2. CASE ServerPort
    <2>1. /\ UNCHANGED <<c, s2c>> /\ s'.id = s.id /\ s'.key = s.key /\ s'.pc \in {"setup"}
      BY <1>2, ServerPortEffect DEF KeepsRequest
    <2> QED
      BY <2>1 DEF NotBefore, Answered, Owing
  <1>3. CASE ServerGarbled
    BY <1>3, Locals, Lens DEF ServerGarbled, ctl, data, Crash, ServerStates, NotBefore,
       Answered, Owing, InDH, InGet
  <1>4. CASE ServerConnect
    <2>1. /\ UNCHANGED <<c, s2c>> /\ s'.id = s.id /\ s'.key = s.key
          /\ s'.pc \in {"cmd", "exit"}
      BY <1>4, ConnectEffect DEF KeepsRequest
    <2> QED
      BY <2>1 DEF NotBefore, Answered, Owing
  <1>5. CASE ServerCommand
    <2>1. /\ UNCHANGED c /\ s.pc = "cmd" /\ c2s # <<>> /\ s'.id = Head(c2s).id
          /\ \/ s'.pc = "list" /\ s2c' = s2c
             \/ s'.pc = "dh" /\ s2c' = s2c
             \/ s'.pc = "close" /\ s2c' = Append(s2c, Reply(550, Head(c2s).id))
      BY <1>5, CommandEffect
    <2>2. s.id < s'.id /\ s.id \in Nat /\ s'.id \in Ids /\ s'.id \in Nat
      BY <2>1, CommandHead, CommandIds, Locals DEF Numbered, Commands
    <2>3. \A n \in Nat : n <= s.id => n <= s'.id /\ n # s'.id
      BY <2>2
    <2>4. /\ c.reply.id \in Nat
          /\ \A i \in 1..Len(s2c) : s2c[i].id \in Nat
      BY Fields, ReplyIds
    <2>5. /\ c.reply.code = 200 => c.reply.id <= s'.id /\ c.reply.id # s'.id
          /\ \A i \in 1..Len(s2c) :
                /\ s2c[i].code # 0
                /\ s2c[i].code = 200 => s2c[i].id <= s'.id /\ s2c[i].id # s'.id
      BY <2>3, <2>4 DEF NotBefore
    <2>6. s'.id = c.id => ~Answered
      BY <2>5, ReplyCode, Locals DEF Answered
    <2>7. CASE s2c' = s2c
      BY <2>1, <2>5, <2>6, <2>7 DEF NotBefore, Answered
    <2>8. CASE s'.pc = "close" /\ s2c' = Append(s2c, Reply(550, Head(c2s).id))
      <3> DEFINE r == Reply(550, Head(c2s).id)
      <3>1. Replied(r) /\ r.code = 550
        BY <2>1, <2>2, <2>8, RepliedSend DEF Codes
      <3> HIDE DEF r
      <3>2. \A i \in 1..Len(s2c') : s2c'[i] = r \/ (i \in 1..Len(s2c) /\ s2c'[i] = s2c[i])
        BY <3>1, ReplyLen DEF Replied
      <3>3. \A i \in 1..Len(s2c') : /\ s2c'[i].code # 0
                                    /\ s2c'[i].code = 200 => s2c'[i].id <= s'.id
        BY <2>5, <3>1, <3>2
      <3>4. Answered' => Answered
        BY <2>1, <3>1, <3>2, ReplyCode, Locals DEF Answered
      <3> QED
        BY <2>1, <2>5, <2>6, <2>8, <3>3, <3>4 DEF NotBefore, Owing
    <2> QED
      BY <2>1, <2>7, <2>8
  <1>6. CASE ServerMerged
    <2>1. /\ UNCHANGED <<c, s2c>> /\ s'.id = s.id /\ s'.key = s.key /\ s'.pc \in {"close"}
      BY <1>6, ServerMergedEffect DEF KeepsRequest
    <2> QED
      BY <2>1 DEF NotBefore, Answered, Owing
  <1>7. CASE ServerClose
    BY <1>7, Locals, Lens DEF ServerClose, ctl, data, ServerStates, NotBefore, Answered,
       Owing, InDH, InGet
  <1>8. CASE ServerList
    <2>1. /\ UNCHANGED c /\ KeepsRequest /\ s.pc = "list" /\ s'.pc = "close"
          /\ s'.key = s.key
          /\ SendReply(200) \/ \E code \in {451, 550} : SendReply(code)
      BY <1>8, ListEffect
    <2>2. c.pc \notin InDH \cup InGet
      BY <2>1 DEF Paired, Busy, InDH, InGet, InPut, Retr, Stor, Serving
    <2>3. ASSUME NEW code \in {200, 451, 550}, SendReply(code)
          PROVE  NotBefore'
      <3> DEFINE r == Reply(code, s.id)
      <3>1. Replied(r) /\ r.code = code /\ r.id = s.id
        BY <2>3, RepliedSend, Fields DEF SendReply, Codes
      <3> HIDE DEF r
      <3> QED
        BY <2>1, <2>2, <3>1, NotBeforeReplied DEF Owing, KeepsRequest
    <2>4. CASE SendReply(200)
      BY <2>3, <2>4
    <2>5. CASE \E code \in {451, 550} : SendReply(code)
      <3>1. PICK code \in {451, 550} : SendReply(code)
        BY <2>5
      <3>2. code \in {200, 451, 550}
        OBVIOUS
      <3> QED
        BY <2>3, <3>1, <3>2
    <2> QED
      BY <2>1, <2>4, <2>5
  <1>9. CASE ServerDH
    <2>1. /\ UNCHANGED <<c, s2c>> /\ s'.id = s.id /\ s.pc = "dh"
      BY <1>9, ServerDHEffect DEF KeepsRequest
    <2>2. Len(s.key) # DHRounds
      BY <2>1, Lens, TransferAssumption DEF Rounds
    <2> QED
      BY <2>1, <2>2 DEF NotBefore, Answered, Owing
  <1>10. CASE ServerRetrOpen
    <2>1. /\ UNCHANGED c /\ KeepsRequest /\ s.pc = "retr_open" /\ s'.key = s.key
          /\ \/ s'.pc = "close" /\ \E code \in {451, 550} : SendReply(code)
             \/ s'.pc = "retr_send" /\ s2c' = s2c
      BY <1>10, RetrOpenEffect
    <2>2. CASE s2c' = s2c
      BY <2>1, <2>2 DEF NotBefore, Answered, Owing, KeepsRequest
    <2>3. CASE s'.pc = "close" /\ \E code \in {451, 550} : SendReply(code)
      <3>1. PICK code \in {451, 550} : SendReply(code)
        BY <2>3
      <3> DEFINE r == Reply(code, s.id)
      <3>2. Replied(r) /\ r.code = code /\ r.id = s.id
        BY <3>1, RepliedSend, Fields DEF SendReply, Codes
      <3> HIDE DEF r
      <3> QED
        BY <2>1, <2>3, <3>2, NotBeforeReplied DEF Owing, KeepsRequest
    <2> QED
      BY <2>1, <2>2, <2>3
  <1>11. CASE ServerRetrWrite
    BY <1>11, Locals, Lens DEF ServerRetrWrite, ctl, data, ServerStates, NotBefore,
       Answered, Owing, InDH, InGet
  <1>12. CASE ServerRetrDone
    <2>1. /\ UNCHANGED c /\ s'.id = s.id /\ s'.key = s.key /\ s.pc = "retr_send"
          /\ s'.pc = "close"
          /\ SendReply(200)
      BY <1>12, Locals DEF ServerRetrDone, Leave, ServerStates
    <2> DEFINE r == Reply(200, s.id)
    <2>2. Replied(r) /\ r.code = 200 /\ r.id = s.id
      BY <2>1, RepliedSend, Fields DEF SendReply, Codes
    <2> HIDE DEF r
    <2>3. Len(s.key) = DHRounds
      BY <2>1 DEF Rounds, Dispatched, Retr, Alive
    <2> QED
      BY <2>1, <2>2, <2>3, NotBeforeReplied DEF Owing
  <1>13. CASE ServerStorOpen
    <2>1. /\ UNCHANGED <<c, s2c>> /\ s'.id = s.id /\ s'.key = s.key /\ s.pc = "stor_open"
      BY <1>13, Locals DEF ServerStorOpen, Leave, ServerStates, ctl
    <2> QED
      BY <2>1 DEF NotBefore, Answered, Owing
  <1>14. CASE ServerStorRecv
    BY <1>14, Locals, Lens DEF ServerStorRecv, ctl, data, ServerStates, NotBefore,
       Answered, Owing, InDH, InGet
  <1>15. CASE ServerStorEof
    <2>1. /\ UNCHANGED c /\ s'.id = s.id /\ s'.key = s.key /\ s.pc = "stor_recv"
          /\ s'.pc = "stor_process" /\ SendReply(200)
      BY <1>15, Locals DEF ServerStorEof, ServerStates
    <2> DEFINE r == Reply(200, s.id)
    <2>2. Replied(r) /\ r.code = 200 /\ r.id = s.id
      BY <2>1, RepliedSend, Fields DEF SendReply, Codes
    <2> HIDE DEF r
    <2>3. Len(s.key) = DHRounds
      BY <2>1 DEF Rounds, Dispatched, Stor, Alive
    <2> QED
      BY <2>1, <2>2, <2>3, NotBeforeReplied DEF Owing
  <1>16. CASE ServerStorDecrypt \/ ServerStorUncomp
    BY <1>16, StorProcessControl, Lens DEF KeepsRequest, NotBefore, Answered, Owing, InDH,
       InGet
  <1>17. CASE ServerSigpipe
    BY <1>17, Locals, Lens DEF ServerSigpipe, ctl, data, Crash, ServerStates, NotBefore,
       Answered, Owing, InDH, InGet
  <1>18. CASE ServerKilled
    BY <1>18, Locals, Lens DEF ServerKilled, ctl, data, Crash, ServerStates, NotBefore,
       Answered, Owing, InDH, InGet
  <1> QED
    BY <1>1, <1>2, <1>3, <1>4, <1>5, <1>6, <1>7, <1>8, <1>9, <1>10, <1>11, <1>12, <1>13,
       <1>14, <1>15, <1>16, <1>17, <1>18 DEF ServerStep

(* A read while the client waits takes the one reply there is.             *)
LEMMA AnswerTaken ==
    ASSUME TypeOK, Answering, ControlReadable, TakeReplies, c.pc \notin {"dead", "done"}
    PROVE  /\ s2c' = <<>> /\ Len(s2c') = 0
           /\ ReplyRead.code # 0 => ReplyRead.id = c.id
           /\ s.pc \notin Owing \cup {"setup", "cmd"}
           /\ s2c = <<>> => ~ServerUp
  <1>1. PICK n \in 0..Len(s2c) : Taken(n)
    BY TakenReplies
  <1>2. Len(s2c) <= 1 /\ \A i \in 1..Len(s2c) : s2c[i].id = c.id
    BY DEF Answering
  <1>3. Len(s2c') = 0
    BY <1>1, <1>2, ReplyLen DEF Taken
  <1>4. s2c' \in Seq(Replies)
    BY TakeRepliesType, Fields
  <1>5. s2c' = <<>>
    BY <1>3, <1>4, EmptyFacts
  <1>6. ReplyRead.code # 0 => ReplyRead.id = c.id
    BY <1>1, <1>2, NoReplyType, ReplyLen DEF Taken
  <1>7. s.pc \notin Owing \cup {"setup", "cmd"}
    BY DEF Answering, ControlReadable, ServerUp, Owing
  <1> QED
    BY <1>3, <1>5, <1>6, <1>7 DEF ControlReadable

(* A handler's reply, sent while the client waits for it, is the only one. *)
LEMMA AnswerSent ==
    ASSUME TypeOK, Answering, UNCHANGED <<c, c2s>>, NEW r, Replied(r), r.id = s.id,
           s.pc \in Owing, s'.pc \in {"close", "stor_process"},
           c.pc \notin {"dead", "done"} =>
              /\ c.pc \notin {"get_process", "get_uncomp", "put_prepare", "put_skip"}
              /\ ~(c.pc \in InDH /\ c.op = "put")
    PROVE  Answering'
  <1>1. ServerUp' /\ ServerUp
    BY DEF ServerUp, Owing
  <1>2. CASE c.pc \in {"dead", "done"}
    BY <1>1, <1>2 DEF Answering
  <1>3. CASE c.pc \notin {"dead", "done"}
    <2>1. s2c = <<>> /\ c.reply.code = 0 /\ c.pc \in Busy \cup {"ls"} /\ s.id = c.id
      BY <1>3 DEF Answering
    <2>2. Len(s2c) = 0
      BY <2>1
    <2>3. Len(s2c') = 1 /\ \A i \in 1..Len(s2c') : s2c'[i].id = c.id
      BY <2>1, <2>2 DEF Replied
    <2>4. c.pc \in {"skip", "ls"} /\ c2s # <<>> => s.pc = "cmd"
      BY <1>1, <1>3 DEF Answering
    <2>5. ServerUp => Len(c2s) <= 1
      BY DEF Answering
    <2>6. c.pc \in {"ls", "put_send"} => ~c.ctlDone
      BY <1>3, <2>1 DEF Answering
    <2> QED
      BY <1>1, <1>3, <2>1, <2>3, <2>4, <2>5, <2>6 DEF Answering, Owing, Busy, InDH,
         InGet, InPut
  <1> QED
    BY <1>2, <1>3

(* No reply in flight.                                                     *)
LEMMA NoneLen == TypeOK /\ s2c = <<>> => Len(s2c) = 0
  BY Fields, EmptyFacts

(* The client of a child in do_retr is in do_get's key exchange, or reads  *)
(* its data.                                                               *)
LEMMA RetrAnswered ==
    ASSUME TypeOK, Dispatched, Numbered, Sockets, Ends, Answering, s.pc \in Retr
    PROVE  c.pc \notin {"dead", "done"} =>
              /\ c.pc \notin {"get_process", "get_uncomp", "put_prepare", "put_skip"}
              /\ ~(c.pc \in InDH /\ c.op = "put")
  <1> SUFFICES ASSUME c.pc \notin {"dead", "done"}
               PROVE  /\ c.pc \notin {"get_process", "get_uncomp", "put_prepare", "put_skip"}
                      /\ ~(c.pc \in InDH /\ c.op = "put")
    OBVIOUS
  <1>1. s.id = c.id
    BY DEF Answering, Retr, Owing
  <1>2. Verb[c.op] = "RETR"
    BY <1>1 DEF Numbered, Dispatched
  <1>3. c.op # "put"
    BY <1>2, VerbFacts
  <1>4. c.pc \notin {"get_process", "get_uncomp"}
    BY DEF Ends, Sockets, Retr, Serving
  <1> QED
    BY <1>3, <1>4 DEF Dispatched, InPut

-----------------------------------------------------------------------------
(* Answering: one reply for one command.                                   *)
LEMMA AnsweringClientStep ==
    ASSUME TypeOK, Dispatched, PortInTurn, Numbered, Sockets, Paired, Agreed, Rounds,
           InTurn, Ends, NotBefore, Answering, "copen" \notin faults,
           UserStep \/ ClientStep \/ ClientSigpipe \/ ClientKilled
    PROVE  Answering'
  <1>1. ASSUME NEW op \in Ops, NEW f \in Files, UserCommand(op, f) PROVE Answering'
    <2>1. UNCHANGED <<s, s2c>> /\ c.pc = "prompt" /\ c'.pc = "accept" /\ c'.reply.code = 0
      BY <1>1, UserCommandEffect, NoReplyType
    <2> DEFINE m == Command("PORT", f, c.id + 1)
    <2>2. Sent(m)
      BY <1>1, UserCommandEffect
    <2> HIDE DEF m
    <2>3. s2c = <<>> /\ (ServerUp => c2s = <<>>) /\ s.pc \notin Owing \cup {"cmd"}
      BY <2>1 DEF Answering, Busy, InDH, InGet, InPut, Owing
    <2>4. Len(s2c) = 0
      BY <2>3, NoneLen
    <2>5. ServerUp => Len(c2s') <= 1
      BY <2>2, <2>3 DEF Sent
    <2> QED
      BY <2>1, <2>3, <2>4, <2>5 DEF Answering, ServerUp, Busy, InDH, InGet, InPut, Owing
  <1>2. CASE UserQuit
    <2>1. UNCHANGED <<s, s2c>> /\ KeepsCommand /\ c.pc = "prompt" /\ c'.pc = "quit"
          /\ c'.reply = c.reply
      BY <1>2, UserQuitEffect
    <2> DEFINE m == Command("QUIT", None, c.id)
    <2>2. Sent(m)
      BY <1>2, UserQuitEffect
    <2> HIDE DEF m
    <2>3. s2c = <<>> /\ (ServerUp => c2s = <<>>) /\ s.pc \notin Owing \cup {"cmd"}
      BY <2>1 DEF Answering, Busy, InDH, InGet, InPut, Owing
    <2>4. s.pc # "setup"
      BY <2>1 DEF PortInTurn
    <2>5. Len(s2c) = 0
      BY <2>3, NoneLen
    <2>6. ServerUp => Len(c2s') <= 1
      BY <2>2, <2>3 DEF Sent
    <2>7. c.reply.code # 0 => c.reply.id = c.id
      BY DEF Answering
    <2> QED
      BY <2>1, <2>3, <2>4, <2>5, <2>6, <2>7 DEF Answering, ServerUp, KeepsCommand, Busy,
         InDH, InGet, InPut, Owing
  <1>3. CASE ClientAccept
    <2>1. /\ UNCHANGED <<s, s2c>> /\ KeepsCommand /\ c.pc = "accept"
          /\ c'.pc \in {"ls", "skip", "dh_send"} /\ c'.reply = c.reply /\ pending
          /\ c'.ctlDone = c.ctlDone
      BY <1>3, AcceptEffect
    <2> DEFINE m == Command(Verb[c.op], c.file, c.id)
    <2>2. Sent(m) /\ m.id = c.id
      BY <1>3, AcceptEffect
    <2> HIDE DEF m
    <2>3. c2s = <<>> /\ s.pc \in {"cmd", "dead"} /\ ~c.ctlDone
      BY <2>1 DEF PortInTurn, Sockets
    <2>4. s2c = <<>> /\ c.reply.code = 0
      BY <2>1 DEF Answering
    <2>5. Len(s2c) = 0
      BY <2>4, NoneLen
    <2>6. Len(c2s') <= 1 /\ Head(c2s') = m
      BY <2>2, <2>3 DEF Sent
    <2> QED
      BY <2>1, <2>2, <2>3, <2>4, <2>5, <2>6 DEF Answering, ServerUp, KeepsCommand, Busy,
         InDH, InGet, InPut, Owing
  <1>4. CASE ClientSkipReply
    <2>1. /\ UNCHANGED <<s, c2s>> /\ KeepsCommand /\ c.pc \in {"skip", "put_skip"}
          /\ c'.pc = "prompt" /\ c'.reply = ReplyRead /\ ControlReadable /\ TakeReplies
      BY <1>4, Locals DEF ClientSkipReply, Return, ClientStates, KeepsCommand
    <2>2. /\ s2c' = <<>> /\ Len(s2c') = 0 /\ (ReplyRead.code # 0 => ReplyRead.id = c.id)
          /\ s.pc \notin Owing \cup {"setup", "cmd"} /\ (s2c = <<>> => ~ServerUp)
      BY <2>1, AnswerTaken
    <2>3. ServerUp => c2s = <<>> /\ Len(c2s) <= 1
      BY <2>1, <2>2 DEF Answering
    <2> QED
      BY <2>1, <2>2, <2>3 DEF Answering, ServerUp, KeepsCommand, Busy, InDH, InGet,
         InPut, Owing
  <1>5. CASE ClientQuitReply
    <2>1. /\ UNCHANGED <<s, c2s>> /\ KeepsCommand /\ c.pc = "quit"
          /\ c'.pc = "done" /\ c'.reply = ReplyRead /\ ControlReadable /\ TakeReplies
      BY <1>5, Locals DEF ClientQuitReply, ClientStates, KeepsCommand
    <2>2. ReplyRead.code # 0 => ReplyRead.id = c.id
      BY <2>1, AnswerTaken
    <2>3. ServerUp => Len(c2s) <= 1
      BY DEF Answering
    <2> QED
      BY <2>1, <2>2, <2>3 DEF Answering, ServerUp, KeepsCommand
  <1>6. CASE ClientLsControl
    <2>1. /\ UNCHANGED <<s, c2s>> /\ KeepsCommand /\ c.pc = "ls"
          /\ ControlReadable /\ TakeReplies
      BY <1>6, LsControlEffect
    <2>2. \/ c'.pc = "dead" /\ c'.reply = c.reply
          \/ c'.pc \in {"ls", "prompt"} /\ c'.reply = ReplyRead /\ ReplyRead.code # 0
      <3>1. 200 # 0
        OBVIOUS
      <3> QED
        BY <3>1, <1>6, LsControlEffect, Zenon
    <2>3. /\ s2c' = <<>> /\ Len(s2c') = 0 /\ (ReplyRead.code # 0 => ReplyRead.id = c.id)
          /\ s.pc \notin Owing \cup {"setup", "cmd"}
      BY <2>1, AnswerTaken
    <2>4. ServerUp => c2s = <<>> /\ Len(c2s) <= 1
      BY <2>1, <2>3 DEF Answering
    <2>5. c.reply.code # 0 => c.reply.id = c.id
      BY DEF Answering
    <2> QED
      BY <2>1, <2>2, <2>3, <2>4, <2>5 DEF Answering, ServerUp, KeepsCommand, Busy, InDH,
         InGet, InPut, Owing
  <1>7. CASE ClientLsData
    BY <1>7, LsDataEffect, Lens DEF KeepsCommand, Answering, ServerUp, Busy, InDH, InGet,
       InPut, Owing
  <1>8. CASE ClientDHSend
    BY <1>8, Locals, Lens DEF ClientDHSend, ctl, data, ClientStates, Answering, ServerUp,
       Busy, InDH, InGet, InPut, Owing
  <1>9. CASE ClientDHRecv
    <2>1. /\ UNCHANGED <<s, c2s, s2c>> /\ KeepsCommand /\ c.pc = "dh_recv"
          /\ c'.reply = c.reply
          /\ \/ c'.pc \in {"dh_send", "get_open"}
             \/ c.op = "put" /\ c'.pc = "put_prepare"
          /\ (ds2c # <<>> \/ ServerDataClosed)
      BY <1>9, DHRecvEffect
    <2>2. s.pc # "cmd"
      BY <2>1 DEF InTurn, InDH, Sockets, ServerDataClosed
    <2>3. /\ c.pc \in InDH /\ c.pc \in Busy /\ c'.pc \in Busy
          /\ (c'.pc \in InDH => c'.pc = "dh_send")
      BY <2>1 DEF Busy, InDH, InGet, InPut, Owing
    <2> QED
      BY <2>1, <2>2, <2>3 DEF Answering, KeepsCommand, ServerUp
  <1>10. CASE ClientGetOpen
    BY <1>10, GetOpenEffect, Lens DEF KeepsCommand, Answering, ServerUp, Busy, InDH,
       InGet, InPut, Owing
  <1>11. CASE ClientGetRecv
    BY <1>11, GetRecvEffect, Lens DEF KeepsCommand, Answering, ServerUp, Busy, InDH,
       InGet, InPut, Owing
  <1>12. CASE ClientGetReply
    <2>1. /\ UNCHANGED <<s, c2s>> /\ KeepsCommand /\ c.pc \in {"get_reply", "get_abort"}
          /\ c'.pc \in {"get_process", "prompt"} /\ c'.reply = ReplyRead
          /\ ControlReadable /\ TakeReplies
      BY <1>12, GetReplyEffect
    <2>2. /\ s2c' = <<>> /\ Len(s2c') = 0 /\ (ReplyRead.code # 0 => ReplyRead.id = c.id)
          /\ s.pc \notin Owing \cup {"setup", "cmd"}
      BY <2>1, AnswerTaken
    <2>3. ServerUp => c2s = <<>>
      BY <2>1 DEF Paired, ServerUp, Busy, InDH, InGet, InPut, Owing
    <2>4. ServerUp => Len(c2s) <= 1
      BY DEF Answering
    <2> QED
      BY <2>1, <2>2, <2>3, <2>4 DEF Answering, ServerUp, KeepsCommand, Busy, InDH, InGet,
         InPut, Owing
  <1>13. CASE ClientGetDecrypt \/ ClientGetUncomp
    <2>1. /\ UNCHANGED <<s, c2s, s2c>> /\ KeepsCommand
          /\ c.pc \in {"get_process", "get_uncomp"}
          /\ c'.pc \in {"get_uncomp", "prompt"} /\ c'.reply = c.reply
      BY <1>13, GetProcessControl, Zenon
    <2>2. s.pc \notin Owing \cup {"cmd"}
      BY <2>1 DEF Ends, Sockets, Owing, Serving, Retr, Stor
    <2>3. s.pc # "setup"
      BY <2>1 DEF PortInTurn
    <2>4. ServerUp => c2s = <<>>
      BY <2>1 DEF Paired, ServerUp, Busy, InDH, InGet, InPut, Owing
    <2> QED
      BY <2>1, <2>2, <2>3, <2>4 DEF Answering, ServerUp, KeepsCommand, Busy, InDH, InGet,
         InPut, Owing
  <1>14. CASE ClientPutPrepare
    <2>1. /\ UNCHANGED <<s, s2c>> /\ KeepsCommand /\ c.pc = "put_prepare"
          /\ c'.pc \in {"put_skip", "put_send"} /\ c'.reply = c.reply
          /\ c'.ctlDone = c.ctlDone
      BY <1>14, PutPrepareEffect
    <2> DEFINE m == Command("SKIP", None, c.id)
    <2>2. Sent(m) \/ c2s' = c2s
      BY <1>14, PutPrepareEffect
    <2> HIDE DEF m
    <2>3. (s.pc = "dead" \/ c2s = <<>>) /\ s.pc # "cmd"
      BY <2>1 DEF Paired, Serving, Retr, Stor, Busy, InDH, InGet, InPut, Owing
    <2>4. ServerUp => Len(c2s') <= 1
      BY <2>2, <2>3 DEF Sent, Answering, ServerUp
    <2>5. s2c = <<>> /\ ~c.ctlDone
      BY <2>1 DEF Answering, Sockets, Busy, InDH, InGet, InPut, Owing
    <2> QED
      BY <2>1, <2>3, <2>4, <2>5 DEF Answering, ServerUp, KeepsCommand, Busy, InDH, InGet,
         InPut, Owing
  <1>15. CASE ClientPutWrite
    BY <1>15, Locals, Lens DEF ClientPutWrite, ctl, data, ClientStates, Answering,
       ServerUp, Busy, InDH, InGet, InPut, Owing
  <1>16. CASE ClientPutClose
    <2>1. /\ UNCHANGED <<s, c2s, s2c>> /\ KeepsCommand /\ c.pc = "put_send"
          /\ c'.reply = c.reply
          /\ c'.ctlDone = c.ctlDone
          /\ c'.pc = "put_send" \/ (c.ctlDone /\ c'.pc = "prompt")
      BY <1>16, PutCloseEffect
    <2>2. ServerUp => c2s = <<>>
      BY <2>1 DEF Paired, ServerUp, Busy, InDH, InGet, InPut, Owing
    <2> QED
      BY <2>1, <2>2 DEF Answering, ServerUp, KeepsCommand, Busy, InDH, InGet, InPut, Owing
  <1>17. CASE ClientPutReply
    <2>1. /\ UNCHANGED <<s, c2s>> /\ KeepsCommand /\ c.pc = "put_send"
          /\ ControlReadable /\ TakeReplies
      BY <1>17, PutReplyEffect
    <2>2. \/ c'.pc = "dead" /\ c'.reply = c.reply
          \/ c'.pc \in {"put_send", "prompt"} /\ c'.reply = ReplyRead /\ ReplyRead.code # 0
      <3>1. 200 # 0
        OBVIOUS
      <3> QED
        BY <3>1, <1>17, PutReplyEffect, Zenon
    <2>3. /\ s2c' = <<>> /\ Len(s2c') = 0 /\ (ReplyRead.code # 0 => ReplyRead.id = c.id)
          /\ s.pc \notin Owing \cup {"setup", "cmd"}
      BY <2>1, AnswerTaken
    <2>4. ServerUp => c2s = <<>>
      BY <2>1 DEF Paired, ServerUp, Busy, InDH, InGet, InPut, Owing
    <2>5. /\ c.reply.code # 0 => c.reply.id = c.id
          /\ ServerUp => Len(c2s) <= 1
      BY DEF Answering
    <2> QED
      BY <2>1, <2>2, <2>3, <2>4, <2>5 DEF Answering, ServerUp, KeepsCommand, Busy, InDH,
         InGet, InPut, Owing
  <1>18. CASE ClientSigpipe
    BY <1>18, Locals, Lens DEF ClientSigpipe, ctl, data, Crash, ClientStates, Answering,
       ServerUp, Busy, InDH, InGet, InPut, Owing
  <1>19. CASE ClientKilled
    BY <1>19, Locals, Lens DEF ClientKilled, ctl, data, Crash, ClientStates, Answering,
       ServerUp, Busy, InDH, InGet, InPut, Owing
  <1> QED
    BY <1>1, <1>2, <1>3, <1>4, <1>5, <1>6, <1>7, <1>8, <1>9, <1>10, <1>11, <1>12, <1>13,
       <1>14, <1>15, <1>16, <1>17, <1>18, <1>19 DEF UserStep, ClientStep

LEMMA AnsweringServerStep ==
    ASSUME TypeOK, Dispatched, PortInTurn, Numbered, Sockets, Paired, Agreed, Rounds,
           InTurn, Ends, NotBefore, Answering, "copen" \notin faults,
           ServerStep \/ ServerSigpipe \/ ServerKilled
    PROVE  Answering'
  <1>1. CASE ServerQuit
    <2>1. /\ UNCHANGED c /\ s.pc = "idle" /\ s'.pc = "exit" /\ c2s # <<>>
          /\ Head(c2s).verb = "QUIT" /\ s2c' = Append(s2c, Reply(221, Head(c2s).id))
      BY <1>1, ServerQuitEffect
    <2>2. Head(c2s) = c2s[1] /\ 1 \in 1..Len(c2s)
      BY <2>1, CommandHead
    <2>3. c.pc \in {"quit", "done", "dead"} /\ Head(c2s).id = c.id
      BY <2>1, <2>2 DEF Numbered
    <2> DEFINE r == Reply(221, c.id)
    <2>4. Replied(r) /\ r.id = c.id
      BY <2>1, <2>3, RepliedSend, Fields DEF Codes
    <2> HIDE DEF r
    <2>5. CASE c.pc = "quit"
      <3>1. s2c = <<>>
        BY <2>1, <2>5 DEF Answering, ServerUp
      <3>2. Len(s2c') = 1 /\ \A i \in 1..Len(s2c') : s2c'[i].id = c.id
        BY <2>4, <3>1, NoneLen DEF Replied
      <3> QED
        BY <2>1, <2>5, <3>2 DEF Answering, ServerUp, Busy, InDH, InGet, InPut, Owing
    <2>6. CASE c.pc # "quit"
      BY <2>1, <2>3, <2>6 DEF Answering, ServerUp
    <2> QED
      BY <2>5, <2>6
  <1>2. CASE ServerPort
    <2>1. UNCHANGED <<c, s2c>> /\ KeepsRequest /\ s.pc = "idle" /\ s'.pc = "setup"
      BY <1>2, ServerPortEffect
    <2>2. PICK n \in 1..Len(c2s) : HasPort(n) /\ Received(n)
      BY <1>2, ServerPortEffect
    <2>3. c.pc \in {"accept", "dead"}
      BY <2>2, CommandLen DEF HasPort, PortInTurn
    <2>4. Len(c2s') <= 1
      BY <2>1, <2>2, CommandLen DEF Received, Answering, ServerUp
    <2> QED
      BY <2>1, <2>3, <2>4 DEF Answering, ServerUp, Busy, InDH, InGet, InPut, Owing
  <1>3. CASE ServerGarbled
    BY <1>3, Locals, Lens DEF ServerGarbled, ctl, data, Crash, ServerStates, Answering,
       ServerUp, Busy, InDH, InGet, InPut, Owing
  <1>4. CASE ServerConnect
    <2>1. /\ UNCHANGED <<c, c2s, s2c>> /\ KeepsRequest /\ s.pc = "setup"
          /\ s'.pc \in {"cmd", "exit"}
      BY <1>4, ConnectEffect
    <2>2. c.pc \in {"accept", "dead"} /\ c2s = <<>>
      BY <2>1 DEF PortInTurn
    <2> QED
      BY <2>1, <2>2 DEF Answering, ServerUp, Busy, InDH, InGet, InPut, Owing
  <1>5. CASE ServerCommand
    <2>1. /\ UNCHANGED c /\ s.pc = "cmd" /\ c2s # <<>> /\ s'.id = Head(c2s).id
          /\ Head(c2s).verb \in Verbs
      BY <1>5, CommandEffect
    <2>2. \/ Head(c2s).verb = "LIST" /\ s'.pc = "list" /\ s2c' = s2c
          \/ Head(c2s).verb \in {"RETR", "STOR"} /\ s'.pc = "dh" /\ s2c' = s2c
          \/ /\ Head(c2s).verb = "SKIP" /\ s'.pc = "close"
             /\ s2c' = Append(s2c, Reply(550, Head(c2s).id))
      BY <1>5, CommandEffect
    <2>3. PICK n \in 1..Len(c2s) : Received(n)
      BY <1>5, CommandEffect DEF Received
    <2>4. Len(c2s) <= 1
      BY <2>1 DEF Answering, ServerUp
    <2>5. c2s' = <<>> /\ Len(c2s') <= 1
      BY <2>3, <2>4, CommandLen DEF Received
    <2>6. CASE c.pc \in {"dead", "done"}
      BY <2>1, <2>5, <2>6 DEF Answering
    <2>7. CASE c.pc \notin {"dead", "done"}
      <3>1. /\ s2c = <<>> /\ c.reply.code = 0 /\ Head(c2s).id = c.id
            /\ c.pc \in InDH \cup {"accept", "skip", "ls"}
        BY <2>1, <2>7 DEF Answering
      <3>2. c.pc # "accept"
        <4>1. Head(c2s) = c2s[1] /\ 1 \in 1..Len(c2s)
          BY <2>1, CommandHead
        <4>2. Head(c2s).verb # "PORT"
          BY <2>1, VerbFacts
        <4> QED
          BY <3>1, <4>1, <4>2, Locals DEF Numbered
      <3>3. Head(c2s).verb = Verb[c.op]
        BY <2>1, <3>1 DEF Numbered, Command
      <3>4. /\ c.pc \in InDH => c.op \in {"get", "put"}
            /\ c.pc \in {"ls", "skip"} => c.op = c.pc
        BY DEF Dispatched
      <3>5. c.pc \in {"ls", "put_send"} => ~c.ctlDone
        BY <2>7, <3>1 DEF Answering
      <3>6. Len(s2c) = 0
        BY <3>1, NoneLen
      <3>7. CASE s'.pc = "list" /\ s2c' = s2c
        <4>1. c.pc = "ls"
          BY <2>2, <3>1, <3>2, <3>3, <3>4, <3>7, VerbFacts
        <4> QED
          BY <2>1, <2>5, <3>1, <3>5, <3>6, <3>7, <4>1 DEF Answering, ServerUp, Busy,
             InDH, InGet, InPut, Owing
      <3>8. CASE s'.pc = "dh" /\ s2c' = s2c
        <4>1. c.pc \in InDH
          BY <2>2, <3>1, <3>2, <3>3, <3>4, <3>8, VerbFacts
        <4> QED
          BY <2>1, <2>5, <3>1, <3>5, <3>6, <3>8, <4>1 DEF Answering, ServerUp, Busy,
             InDH, InGet, InPut, Owing
      <3>9. CASE s'.pc = "close" /\ s2c' = Append(s2c, Reply(550, c.id))
        <4>1. c.pc = "skip"
          BY <2>2, <3>1, <3>2, <3>3, <3>4, <3>9, VerbFacts
        <4> DEFINE r == Reply(550, c.id)
        <4>2. Replied(r) /\ r.id = c.id
          BY <3>9, RepliedSend, Fields DEF Codes
        <4> HIDE DEF r
        <4>3. Len(s2c') = 1 /\ \A i \in 1..Len(s2c') : s2c'[i].id = c.id
          BY <3>6, <4>2 DEF Replied
        <4> QED
          BY <2>1, <2>5, <3>1, <3>5, <3>9, <4>1, <4>3 DEF Answering, ServerUp, Busy,
             InDH, InGet, InPut, Owing
      <3> QED
        BY <2>2, <3>1, <3>7, <3>8, <3>9
    <2> QED
      BY <2>6, <2>7
  <1>6. CASE ServerMerged
    BY <1>6, ServerMergedEffect, Lens DEF KeepsRequest, Received, Answering, ServerUp,
       Busy, InDH, InGet, InPut, Owing
  <1>7. CASE ServerClose
    BY <1>7, Locals, Lens DEF ServerClose, ctl, data, ServerStates, Answering, ServerUp,
       Busy, InDH, InGet, InPut, Owing
  <1>8. CASE ServerList
    <2>1. /\ UNCHANGED <<c, c2s>> /\ s.pc = "list" /\ s'.pc = "close"
          /\ (SendReply(200) \/ \E code \in {451, 550} : SendReply(code))
      BY <1>8, ListEffect
    <2>2. c.pc \notin Busy
      BY <2>1 DEF Paired, Serving, Retr, Stor
    <2>3. \E code \in Codes : SendReply(code)
      BY <2>1 DEF Codes
    <2>4. PICK code \in Codes : SendReply(code)
      BY <2>3
    <2>5. Answering'
      <3> DEFINE r == Reply(code, s.id)
      <3>1. Replied(r) /\ r.id = s.id
        BY <2>4, RepliedSend, Fields DEF SendReply
      <3> HIDE DEF r
      <3> QED
        BY <2>1, <2>2, <3>1, AnswerSent DEF Busy, InDH, InGet, InPut, Owing
    <2> QED
      BY <2>5
  <1>9. CASE ServerDH
    BY <1>9, ServerDHEffect, Lens DEF KeepsRequest, Answering, ServerUp, Busy, InDH,
       InGet, InPut, Owing
  <1>10. CASE ServerRetrOpen
    <2>1. /\ UNCHANGED <<c, c2s>> /\ s.pc = "retr_open" /\ s'.id = s.id
          /\ \/ s'.pc = "close" /\ \E code \in {451, 550} : SendReply(code)
             \/ s'.pc = "retr_send" /\ s2c' = s2c
      BY <1>10, RetrOpenEffect DEF KeepsRequest
    <2>2. CASE s'.pc = "retr_send" /\ s2c' = s2c
      BY <2>1, <2>2 DEF Answering, ServerUp, Busy, InDH, InGet, InPut, Owing
    <2>3. CASE s'.pc = "close" /\ \E code \in {451, 550} : SendReply(code)
      <3>1. PICK code \in {451, 550} : SendReply(code)
        BY <2>3
      <3> DEFINE r == Reply(code, s.id)
      <3>2. Replied(r) /\ r.id = s.id
        BY <3>1, RepliedSend, Fields DEF SendReply, Codes
      <3> HIDE DEF r
      <3> QED
        BY <2>1, <2>3, <3>2, AnswerSent, RetrAnswered DEF Owing, Retr
    <2> QED
      BY <2>1, <2>2, <2>3
  <1>11. CASE ServerRetrWrite
    BY <1>11, Locals, Lens DEF ServerRetrWrite, ctl, data, ServerStates, Answering,
       ServerUp, Busy, InDH, InGet, InPut, Owing
  <1>12. CASE ServerRetrDone
    <2>1. /\ UNCHANGED <<c, c2s>> /\ s.pc = "retr_send" /\ s'.pc = "close"
          /\ SendReply(200)
      BY <1>12, Locals DEF ServerRetrDone, Leave, ServerStates
    <2> DEFINE r == Reply(200, s.id)
    <2>2. Replied(r) /\ r.id = s.id
      BY <2>1, RepliedSend, Fields DEF SendReply, Codes
    <2> HIDE DEF r
    <2> QED
      BY <2>1, <2>2, AnswerSent, RetrAnswered DEF Owing, Retr
  <1>13. CASE ServerStorOpen
    BY <1>13, Locals, Lens DEF ServerStorOpen, ctl, data, Leave, ServerStates, Answering,
       ServerUp, Busy, InDH, InGet, InPut, Owing
  <1>14. CASE ServerStorRecv
    BY <1>14, Locals, Lens DEF ServerStorRecv, ctl, data, ServerStates, Answering,
       ServerUp, Busy, InDH, InGet, InPut, Owing
  <1>15. CASE ServerStorEof
    <2>1. /\ UNCHANGED <<c, c2s>> /\ s.pc = "stor_recv" /\ s'.pc = "stor_process"
          /\ SendReply(200) /\ ClientDataClosed
      BY <1>15, Locals DEF ServerStorEof, ServerStates
    <2> DEFINE r == Reply(200, s.id)
    <2>2. Replied(r) /\ r.id = s.id
      BY <2>1, RepliedSend, Fields DEF SendReply, Codes
    <2> HIDE DEF r
    <2>3. c.pc \notin Busy \ {"put_send"}
      BY <2>1 DEF Sockets, ClientDataClosed
    <2> QED
      BY <2>1, <2>2, <2>3, AnswerSent DEF Busy, InDH, InGet, InPut, Owing
  <1>16. CASE ServerStorDecrypt \/ ServerStorUncomp
    BY <1>16, StorProcessControl, Lens DEF KeepsRequest, Answering, ServerUp, Busy, InDH,
       InGet, InPut, Owing
  <1>17. CASE ServerSigpipe
    BY <1>17, Locals, Lens DEF ServerSigpipe, ctl, data, Crash, ServerStates, Answering,
       ServerUp, Busy, InDH, InGet, InPut, Owing
  <1>18. CASE ServerKilled
    BY <1>18, Locals, Lens DEF ServerKilled, ctl, data, Crash, ServerStates, Answering,
       ServerUp, Busy, InDH, InGet, InPut, Owing
  <1> QED
    BY <1>1, <1>2, <1>3, <1>4, <1>5, <1>6, <1>7, <1>8, <1>9, <1>10, <1>11, <1>12, <1>13,
       <1>14, <1>15, <1>16, <1>17, <1>18 DEF ServerStep

(* A temporary file is named for the command that made it.                 *)
LEMMA TempId ==
    /\ \A kinds, id : \A t \in Temp(kinds, id) : t[2] = id
    /\ \A id : Temp({}, id) = {}
  BY DEF Temp

(* The numbers of the commands that made the temporary files.              *)
LEMMA TempIds ==
    ASSUME TypeOK
    PROVE  (\A t \in c.temp : t[2] \in Nat) /\ (\A t \in s.temp : t[2] \in Nat)
  BY Fields, TransferAssumption DEF Temps, Ids

-----------------------------------------------------------------------------
(* TempsOf: the temporary files of the command at hand.                    *)
LEMMA TempsOfClientStep ==
    ASSUME TypeOK, Dispatched, PortInTurn, Numbered, TempsOf,
           UserStep \/ ClientStep \/ ClientSigpipe \/ ClientKilled
    PROVE  TempsOf'
  <1>1. ASSUME NEW op \in Ops, NEW f \in Files, UserCommand(op, f) PROVE TempsOf'
    <2>1. UNCHANGED s /\ c'.id = c.id + 1 /\ c'.temp = c.temp /\ c'.pc = "accept"
      BY <1>1, UserCommandEffect
    <2>2. \A t \in c.temp : t[2] <= c.id + 1 /\ t[2] # c.id + 1
      BY TempIds, Locals DEF TempsOf
    <2>3. Mine(c)' = {}
      BY <2>1, <2>2 DEF Mine
    <2> QED
      BY <2>1, <2>2, <2>3 DEF TempsOf, Mine
  <1>2. CASE UserQuit
    <2>1. UNCHANGED s /\ c'.id = c.id /\ c'.temp = c.temp /\ c'.pc = "quit"
      BY <1>2, UserQuitEffect DEF KeepsCommand
    <2> QED
      BY <2>1, TempId, Locals DEF TempsOf, Mine, InDH
  <1>3. CASE ClientAccept
    BY <1>3, AcceptEffect, Lens DEF KeepsCommand, Sent, TempsOf, Mine, InDH
  <1>4. CASE ClientSkipReply
    BY <1>4, Locals, Lens DEF ClientSkipReply, ctl, data, Return, ClientStates, TempsOf,
       Mine, InDH
  <1>5. CASE ClientQuitReply
    BY <1>5, Locals, Lens DEF ClientQuitReply, ctl, data, ClientStates, TempsOf, Mine,
       InDH
  <1>6. CASE ClientLsControl
    BY <1>6, LsControlEffect, Lens DEF KeepsCommand, TempsOf, Mine, InDH
  <1>7. CASE ClientLsData
    BY <1>7, LsDataEffect, Lens DEF KeepsCommand, TempsOf, Mine, InDH
  <1>8. CASE ClientDHSend
    BY <1>8, Locals, Lens DEF ClientDHSend, ctl, data, ClientStates, TempsOf, Mine, InDH
  <1>9. CASE ClientDHRecv
    BY <1>9, DHRecvEffect, Lens DEF KeepsCommand, TempsOf, Mine, InDH
  <1>10. CASE ClientGetOpen
    <2>1. /\ UNCHANGED s /\ c'.id = c.id /\ c.pc = "get_open"
          /\ \/ c'.pc = "get_recv" /\ c'.temp = c.temp \cup Temp({"enc"}, c.id)
             \/ c'.pc = "prompt" /\ c'.ok = FALSE /\ c'.temp = c.temp
      BY <1>10, GetOpenEffect DEF KeepsCommand
    <2> QED
      BY <2>1, TempId, Locals DEF TempsOf, Mine, InDH
  <1>11. CASE ClientGetRecv
    BY <1>11, GetRecvEffect, Lens DEF KeepsCommand, TempsOf, Mine, InDH
  <1>12. CASE ClientGetReply
    BY <1>12, GetReplyEffect, Lens DEF KeepsCommand, TempsOf, Mine, InDH
  <1>13. CASE ClientGetDecrypt \/ ClientGetUncomp
    <2>1. /\ UNCHANGED s /\ c'.id = c.id
          /\ \/ /\ c.pc = "get_process" /\ c'.pc = "get_uncomp"
                /\ c'.temp = (c.temp \ Temp({"enc"}, c.id)) \cup Temp({"comp"}, c.id)
             \/ /\ c.pc = "get_process" /\ c'.pc = "prompt" /\ c'.ok = FALSE
                /\ c'.temp = c.temp \cup Temp({"enc", "comp"}, c.id)
             \/ /\ c.pc = "get_uncomp" /\ c'.pc = "prompt"
                /\ c'.temp \subseteq c.temp
                /\ c'.ok => c'.temp = c.temp \ Temp({"comp"}, c.id)
      BY <1>13, GetProcessEffect DEF KeepsCommand
    <2>2. CASE c'.pc = "get_uncomp"
      <3>1. Mine(c) \subseteq Temp({"enc"}, c.id)
        BY <2>1, <2>2 DEF TempsOf
      <3>2. Mine(c)' \subseteq Temp({"comp"}, c.id)
        BY <2>1, <2>2, <3>1 DEF Mine
      <3> QED
        BY <2>1, <2>2, <3>2, TempId, Locals DEF TempsOf, InDH
    <2>3. CASE c.pc = "get_process" /\ c'.pc = "prompt"
      BY <2>1, <2>3, TempId, Locals DEF TempsOf, Mine, InDH
    <2>4. CASE c.pc = "get_uncomp"
      <3>1. Mine(c) \subseteq Temp({"comp"}, c.id)
        BY <2>1, <2>4 DEF TempsOf
      <3>2. c'.ok => Mine(c)' = {}
        BY <2>1, <2>4, <3>1 DEF Mine
      <3> QED
        BY <2>1, <2>4, <3>2, Locals DEF TempsOf, InDH
    <2> QED
      BY <2>1, <2>2, <2>3, <2>4
  <1>14. CASE ClientPutPrepare
    <2>1. /\ UNCHANGED s /\ c'.id = c.id /\ c.pc = "put_prepare"
          /\ \/ /\ c'.pc = "put_skip"
                /\ \E left \in SUBSET {"enc", "comp"} : c'.temp = c.temp \cup Temp(left, c.id)
             \/ c'.pc = "put_send" /\ c'.temp = c.temp \cup Temp({"enc"}, c.id)
             \/ /\ c'.pc = "prompt" /\ c'.ok = FALSE
                /\ c'.temp = c.temp \cup Temp({"enc"}, c.id)
      BY <1>14, PutPrepareEffect DEF KeepsCommand
    <2> QED
      BY <2>1, TempId, Locals DEF TempsOf, Mine, InDH
  <1>15. CASE ClientPutWrite
    BY <1>15, Locals, Lens DEF ClientPutWrite, ctl, data, ClientStates, TempsOf, Mine,
       InDH
  <1>16. CASE ClientPutClose
    BY <1>16, PutCloseEffect, Lens DEF KeepsCommand, TempsOf, Mine, InDH
  <1>17. CASE ClientPutReply
    BY <1>17, PutReplyEffect, Lens DEF KeepsCommand, TempsOf, Mine, InDH
  <1>18. CASE ClientSigpipe
    BY <1>18, Locals, Lens DEF ClientSigpipe, ctl, data, Crash, ClientStates, TempsOf,
       Mine, InDH
  <1>19. CASE ClientKilled
    BY <1>19, Locals, Lens DEF ClientKilled, ctl, data, Crash, ClientStates, TempsOf,
       Mine, InDH
  <1> QED
    BY <1>1, <1>2, <1>3, <1>4, <1>5, <1>6, <1>7, <1>8, <1>9, <1>10, <1>11, <1>12, <1>13,
       <1>14, <1>15, <1>16, <1>17, <1>18, <1>19 DEF UserStep, ClientStep

LEMMA TempsOfServerStep ==
    ASSUME TypeOK, Dispatched, PortInTurn, Numbered, TempsOf,
           ServerStep \/ ServerSigpipe \/ ServerKilled
    PROVE  TempsOf'
  <1>1. CASE ServerQuit
    BY <1>1, ServerQuitEffect, Lens DEF KeepsRequest, Received, TempsOf, Mine
  <1>2. CASE ServerPort
    BY <1>2, ServerPortEffect, Lens DEF KeepsRequest, Received, TempsOf, Mine
  <1>3. CASE ServerGarbled
    BY <1>3, Locals, Lens DEF ServerGarbled, ctl, data, Crash, ServerStates, TempsOf, Mine
  <1>4. CASE ServerConnect
    BY <1>4, ConnectEffect, Lens DEF KeepsRequest, TempsOf, Mine
  <1>5. CASE ServerCommand
    <2>1. /\ UNCHANGED c /\ s.pc = "cmd" /\ c2s # <<>> /\ s'.id = Head(c2s).id
          /\ s'.temp = s.temp
      BY <1>5, CommandEffect
    <2>2. s.id < s'.id /\ s'.id \in Nat
      BY <2>1, CommandHead, CommandIds DEF Numbered
    <2>3. \A t \in s.temp : t[2] <= s'.id /\ t[2] # s'.id
      BY <2>2, TempIds, Locals DEF TempsOf
    <2>4. Mine(s)' = {}
      BY <2>1, <2>3 DEF Mine
    <2> QED
      BY <2>1, <2>3, <2>4 DEF TempsOf, Mine
  <1>6. CASE ServerMerged
    BY <1>6, ServerMergedEffect, Lens, SMTT(60) DEF KeepsRequest, Received, TempsOf, Mine
  <1>7. CASE ServerClose
    BY <1>7, Locals, Lens DEF ServerClose, ctl, data, ServerStates, TempsOf, Mine
  <1>8. CASE ServerList
    BY <1>8, ListEffect, Lens DEF KeepsRequest, TempsOf, Mine
  <1>9. CASE ServerDH
    BY <1>9, ServerDHEffect, Lens DEF KeepsRequest, TempsOf, Mine
  <1>10. CASE ServerRetrOpen
    <2>1. /\ UNCHANGED c /\ s'.id = s.id /\ s.pc = "retr_open"
          /\ \/ /\ s'.pc = "close" /\ s'.ok = FALSE
                /\ \E left \in SUBSET {"enc", "comp"} : s'.temp = s.temp \cup Temp(left, s.id)
             \/ s'.pc = "retr_send" /\ s'.temp = s.temp \cup Temp({"enc"}, s.id)
      BY <1>10, RetrOpenEffect DEF KeepsRequest
    <2> QED
      BY <2>1, TempId, Locals DEF TempsOf, Mine
  <1>11. CASE ServerRetrWrite
    BY <1>11, Locals, Lens DEF ServerRetrWrite, ctl, data, ServerStates, TempsOf, Mine
  <1>12. CASE ServerRetrDone
    BY <1>12, Locals, Lens DEF ServerRetrDone, ctl, data, Leave, ServerStates, TempsOf,
       Mine
  <1>13. CASE ServerStorOpen
    <2>1. /\ UNCHANGED c /\ s'.id = s.id /\ s.pc = "stor_open"
          /\ \/ s'.pc = "close" /\ s'.ok = FALSE /\ s'.temp = s.temp
             \/ s'.pc = "stor_recv" /\ s'.temp = s.temp \cup Temp({"enc"}, s.id)
      BY <1>13, Locals DEF ServerStorOpen, Leave, ServerStates
    <2> QED
      BY <2>1, TempId, Locals DEF TempsOf, Mine
  <1>14. CASE ServerStorRecv
    BY <1>14, Locals, Lens DEF ServerStorRecv, ctl, data, ServerStates, TempsOf, Mine
  <1>15. CASE ServerStorEof
    BY <1>15, Locals, Lens DEF ServerStorEof, ctl, data, ServerStates, TempsOf, Mine
  <1>16. CASE ServerStorDecrypt \/ ServerStorUncomp
    <2>1. /\ UNCHANGED c /\ s'.id = s.id
          /\ \/ /\ s.pc = "stor_process" /\ s'.pc = "stor_uncomp"
                /\ s'.temp = (s.temp \ Temp({"enc"}, s.id)) \cup Temp({"comp"}, s.id)
             \/ /\ s.pc = "stor_process" /\ s'.pc = "close" /\ s'.ok = FALSE
                /\ s'.temp = s.temp \cup Temp({"enc", "comp"}, s.id)
             \/ /\ s.pc = "stor_uncomp" /\ s'.pc = "close"
                /\ s'.temp \subseteq s.temp
                /\ s'.ok => s'.temp = s.temp \ Temp({"comp"}, s.id)
      BY <1>16, StorProcessEffect DEF KeepsRequest
    <2>2. CASE s'.pc = "stor_uncomp"
      <3>1. Mine(s) \subseteq Temp({"enc"}, s.id)
        BY <2>1, <2>2 DEF TempsOf
      <3>2. Mine(s)' \subseteq Temp({"comp"}, s.id)
        BY <2>1, <2>2, <3>1 DEF Mine
      <3> QED
        BY <2>1, <2>2, <3>2, TempId, Locals DEF TempsOf
    <2>3. CASE s.pc = "stor_process" /\ s'.pc = "close"
      BY <2>1, <2>3, TempId, Locals DEF TempsOf, Mine
    <2>4. CASE s.pc = "stor_uncomp"
      <3>1. Mine(s) \subseteq Temp({"comp"}, s.id)
        BY <2>1, <2>4 DEF TempsOf
      <3>2. s'.ok => Mine(s)' = {}
        BY <2>1, <2>4, <3>1 DEF Mine
      <3> QED
        BY <2>1, <2>4, <3>2, Locals DEF TempsOf
    <2> QED
      BY <2>1, <2>2, <2>3, <2>4
  <1>17. CASE ServerSigpipe
    BY <1>17, Locals, Lens DEF ServerSigpipe, ctl, data, Crash, ServerStates, TempsOf,
       Mine
  <1>18. CASE ServerKilled
    BY <1>18, Locals, Lens DEF ServerKilled, ctl, data, Crash, ServerStates, TempsOf, Mine
  <1> QED
    BY <1>1, <1>2, <1>3, <1>4, <1>5, <1>6, <1>7, <1>8, <1>9, <1>10, <1>11, <1>12, <1>13,
       <1>14, <1>15, <1>16, <1>17, <1>18 DEF ServerStep

-----------------------------------------------------------------------------
(* The parts together.                                                     *)
LEMMA FaultsKept == [Next]_vars => faults' = faults
  <1> SUFFICES ASSUME Next PROVE faults' = faults
    BY DEF vars
  <1>1. CASE UserStep
    BY <1>1 DEF UserStep, UserQuit, UserCommand
  <1>2. CASE ClientStep
    BY <1>2 DEF ClientStep, ClientAccept, ClientSkipReply, ClientQuitReply,
       ClientLsControl, ClientLsData, ClientDHSend, ClientDHRecv, ClientGetOpen,
       ClientGetRecv, ClientGetReply, ClientGetDecrypt, ClientGetUncomp, ClientPutPrepare,
       ClientPutWrite, ClientPutClose, ClientPutReply
  <1>3. CASE ServerStep
    BY <1>3 DEF ServerStep, ServerQuit, ServerPort, ServerGarbled, ServerConnect,
       ServerCommand, ServerMerged, ServerClose, ServerList, ServerDH, ServerRetrOpen,
       ServerRetrWrite, ServerRetrDone, ServerStorOpen, ServerStorRecv, ServerStorEof,
       ServerStorDecrypt, ServerStorUncomp
  <1>4. CASE SignalStep
    BY <1>4 DEF SignalStep, ClientSigpipe, ClientKilled, ServerSigpipe, ServerKilled
  <1> QED
    BY <1>1, <1>2, <1>3, <1>4 DEF Next

LEMMA LinkInvInit == Init => LinkInv
  <1> SUFFICES ASSUME Init PROVE LinkInv
    OBVIOUS
  <1>1. /\ c.pc = "prompt" /\ c.op = "skip" /\ c.file = None /\ c.id = 0 /\ c.key = <<>>
        /\ c.buf = <<>> /\ c.open = FALSE /\ c.dataDone = FALSE /\ c.ctlDone = FALSE
        /\ c.reply = NoReply
        /\ s.pc = "idle" /\ s.verb = "SKIP" /\ s.file = None /\ s.id = 0 /\ s.key = <<>>
        /\ s.buf = <<>> /\ s.open = FALSE
        /\ c2s = <<>> /\ s2c = <<>> /\ dc2s = <<>> /\ ds2c = <<>> /\ ~pending
    BY DEF Init
  <1>2. Numbered
    BY <1>1, VerbFacts DEF Numbered
  <1>3. Sockets
    BY <1>1 DEF Sockets, Serving, Retr, Stor, Busy, InDH, InGet, InPut
  <1>4. Paired
    BY <1>1 DEF Paired, Serving, Retr, Stor, Busy, InDH, InGet, InPut
  <1>5. Agreed
    BY <1>1 DEF Agreed, Proper
  <1>6. Rounds
    BY <1>1, TransferAssumption DEF Rounds, InDH, InGet, InPut
  <1>7. InTurn
    BY <1>1 DEF InTurn, Busy, InDH, InGet, InPut
  <1>8. Ends
    BY <1>1 DEF Ends
  <1>9. NotBefore
    BY <1>1, NoReplyType DEF NotBefore, Owing, InDH, InGet
  <1> QED
    BY <1>2, <1>3, <1>4, <1>5, <1>6, <1>7, <1>8, <1>9 DEF LinkInv

LEMMA LinkInvStep == TypeInv /\ LinkInv /\ [Next]_vars => LinkInv'
  <1> SUFFICES ASSUME TypeInv, LinkInv, [Next]_vars PROVE LinkInv'
    OBVIOUS
  <1>1. TypeOK /\ Dispatched /\ PortInTurn
    BY DEF TypeInv
  <1>2. /\ Numbered /\ Sockets /\ Paired /\ Agreed /\ Rounds /\ InTurn
        /\ Ends /\ NotBefore
    BY DEF LinkInv
  <1>3. CASE UserStep \/ ClientStep \/ ClientSigpipe \/ ClientKilled
    <2>1. Numbered' /\ Sockets' /\ Paired' /\ Agreed'
      BY <1>1, <1>2, <1>3, NumberedClientStep, SocketsClientStep, PairedClientStep,
         AgreedClientStep, Zenon
    <2>2. Rounds' /\ InTurn' /\ Ends' /\ NotBefore'
      BY <1>1, <1>2, <1>3, RoundsClientStep, InTurnClientStep, EndsClientStep,
         NotBeforeClientStep, Zenon
    <2> QED
      BY <2>1, <2>2 DEF LinkInv
  <1>4. CASE ServerStep \/ ServerSigpipe \/ ServerKilled
    <2>1. Numbered' /\ Sockets' /\ Paired' /\ Agreed'
      BY <1>1, <1>2, <1>4, NumberedServerStep, SocketsServerStep, PairedServerStep,
         AgreedServerStep, Zenon
    <2>2. Rounds' /\ InTurn' /\ Ends' /\ NotBefore'
      BY <1>1, <1>2, <1>4, RoundsServerStep, InTurnServerStep, EndsServerStep,
         NotBeforeServerStep, Zenon
    <2> QED
      BY <2>1, <2>2 DEF LinkInv
  <1>5. CASE UNCHANGED vars
    <2>1. Numbered' /\ Sockets' /\ Paired' /\ Agreed'
      BY <1>2, <1>5 DEF vars, Numbered, Sockets, Paired, Agreed, Alive, Exchanging, Proper
    <2>2. Rounds' /\ Ends' /\ NotBefore'
      BY <1>2, <1>5 DEF vars, Rounds, Alive, Ends, ClientDataClosed, NotBefore, Answered
    <2>3. InTurn'
      BY <1>2, <1>5 DEF vars, InTurn, Alive, Exchanging, ClientTurn, ServerTurn, HalfWaits
    <2> QED
      BY <2>1, <2>2, <2>3 DEF LinkInv
  <1> QED
    BY <1>3, <1>4, <1>5 DEF Next, SignalStep

(* Where the two programs are, how far the key exchange is and which       *)
(* replies there can be stays consistent whatever either does, whatever    *)
(* fails, and wherever one of them is killed.                              *)
THEOREM LinkInvHolds == Spec => [](TypeInv /\ LinkInv)
  <1>1. Init => LinkInv
    BY LinkInvInit
  <1>2. TypeInv /\ LinkInv /\ [Next]_vars => LinkInv'
    BY LinkInvStep
  <1> QED
    BY <1>1, <1>2, TypeInvHolds, PTL DEF Spec

(* Two whole keys of one exchange are the same key.                        *)
LEMMA ProperSame ==
    ASSUME NEW k1 \in Keys, NEW k2 \in Keys, NEW id, Proper(k1, id), Proper(k2, id),
           Len(k1) = Len(k2)
    PROVE  k1 = k2
  <1>1. \A r \in 1..Len(k1) : k1[r] = k2[r]
    BY DEF Proper
  <1>2. k1 = [r \in 1..Len(k1) |-> k1[r]] /\ k2 = [r \in 1..Len(k1) |-> k2[r]]
    BY DEF Keys
  <1> QED
    BY <1>1, <1>2

(* Past the key exchange both ends hold the same key, made of each round's *)
(* own two halves (do_dh_client and do_dh_server), although nothing frames *)
(* the data connection and no read of it is checked.                       *)
THEOREM KeysAgreed == Spec => []KeysAgree
  <1>1. TypeInv /\ LinkInv => KeysAgree
    <2> SUFFICES ASSUME TypeInv, LinkInv, PastDH(c.key), PastDH(s.key), c.id = s.id,
                        c.pc \notin {"dead", "prompt"}, s.pc # "dead"
                 PROVE  /\ c.key = s.key
                        /\ \A r \in 1..DHRounds : c.key[r] = <<Half("client", c.id, r),
                                                               Half("server", c.id, r)>>
      BY DEF KeysAgree
    <2>1. TypeOK /\ Agreed /\ Len(c.key) = DHRounds /\ Len(s.key) = DHRounds
      BY DEF TypeInv, LinkInv, PastDH
    <2>2. Proper(c.key, c.id) /\ Proper(s.key, c.id)
      BY <2>1 DEF Agreed, Alive, Exchanging
    <2>3. c.key = s.key
      BY <2>1, <2>2, Fields, ProperSame
    <2> QED
      BY <2>1, <2>2, <2>3 DEF Proper
  <1> QED
    BY <1>1, LinkInvHolds, PTL

LEMMA OneReplyStep == TypeInv /\ LinkInv /\ OneReply /\ [Next]_vars => OneReply'
  <1> SUFFICES ASSUME TypeInv, LinkInv, OneReply, [Next]_vars, "copen" \notin faults'
               PROVE  Answering'
    BY DEF OneReply
  <1>1. TypeOK /\ Dispatched /\ PortInTurn
    BY DEF TypeInv
  <1>2. /\ Numbered /\ Sockets /\ Paired /\ Agreed /\ Rounds /\ InTurn
        /\ Ends /\ NotBefore
    BY DEF LinkInv
  <1>3. "copen" \notin faults /\ Answering
    BY FaultsKept DEF OneReply
  <1>4. CASE UserStep \/ ClientStep \/ ClientSigpipe \/ ClientKilled
    BY <1>1, <1>2, <1>3, <1>4, AnsweringClientStep, Zenon
  <1>5. CASE ServerStep \/ ServerSigpipe \/ ServerKilled
    BY <1>1, <1>2, <1>3, <1>5, AnsweringServerStep, Zenon
  <1>6. CASE UNCHANGED vars
    BY <1>3, <1>6 DEF vars, Answering, ServerUp
  <1> QED
    BY <1>4, <1>5, <1>6 DEF Next, SignalStep

(* One reply for one command, as long as the client can open its temporary *)
(* files.                                                                  *)
THEOREM OneReplyHolds == Spec => []OneReply
  <1>1. Init => OneReply
    <2> SUFFICES ASSUME Init PROVE Answering
      BY DEF OneReply
    <2>1. /\ c.pc = "prompt" /\ c.reply = NoReply /\ s.pc = "idle" /\ c2s = <<>> /\ s2c = <<>>
      BY DEF Init
    <2> QED
      BY <2>1, NoReplyType DEF Answering, Owing, InDH
  <1>2. TypeInv /\ LinkInv /\ OneReply /\ [Next]_vars => OneReply'
    BY OneReplyStep
  <1> QED
    BY <1>1, <1>2, LinkInvHolds, PTL DEF Spec

(* A running child is never sent a second command before it has read the   *)
(* first, so no two are ever merged by one read of get_command.            *)
THEOREM LockStep == Spec => []ControlLockStep
  <1>1. OneReply => ControlLockStep
    BY DEF OneReply, Answering, ControlLockStep
  <1> QED
    BY <1>1, OneReplyHolds, PTL

(* The reply the client takes for the answer to its command is that.       *)
THEOREM RepliesMatched == Spec => []RepliesMatch
  <1>1. OneReply => RepliesMatch
    BY DEF OneReply, Answering, RepliesMatch
  <1> QED
    BY <1>1, OneReplyHolds, PTL

LEMMA TempsOfStep == TypeInv /\ LinkInv /\ TempsOf /\ [Next]_vars => TempsOf'
  <1> SUFFICES ASSUME TypeInv, LinkInv, TempsOf, [Next]_vars PROVE TempsOf'
    OBVIOUS
  <1>1. TypeOK /\ Dispatched /\ PortInTurn /\ Numbered
    BY DEF TypeInv, LinkInv
  <1>2. CASE UserStep \/ ClientStep \/ ClientSigpipe \/ ClientKilled
    BY <1>1, <1>2, TempsOfClientStep, Zenon
  <1>3. CASE ServerStep \/ ServerSigpipe \/ ServerKilled
    BY <1>1, <1>3, TempsOfServerStep, Zenon
  <1>4. CASE UNCHANGED vars
    BY <1>4 DEF vars, TempsOf, Mine
  <1> QED
    BY <1>2, <1>3, <1>4 DEF Next, SignalStep

(* The temporary files of the command at hand are those that the handlers  *)
(* have made so far and not yet removed.                                   *)
THEOREM TempsOfHolds == Spec => []TempsOf
  <1>1. Init => TempsOf
    BY DEF Init, TempsOf, Mine, InDH
  <1>2. TypeInv /\ LinkInv /\ TempsOf /\ [Next]_vars => TempsOf'
    BY TempsOfStep
  <1> QED
    BY <1>1, <1>2, LinkInvHolds, PTL DEF Spec

(* A handler that returns success has removed every temporary file that it *)
(* or any function it called has made for this command.                    *)
THEOREM TempsClear == Spec => []TempsCleared
  <1>1. TempsOf => TempsCleared
    BY DEF TempsOf, TempsCleared, Mine
  <1> QED
    BY <1>1, TempsOfHolds, PTL
=============================================================================
