---------------------------- MODULE TransferData ----------------------------
(***************************************************************************)
(* What a session transfers: FileInv of TransferInv is inductive, and so a *)
(* get that was answered with 200 and a put that was sent to its end have  *)
(* brought whole files, and the session implements FileService.            *)
(***************************************************************************)
EXTENDS TransferSession

(* Parts of a stream. The head of the second of two parts moves to the end *)
(* of the first.                                                           *)
LEMMA PartMove ==
    ASSUME NEW q1 \in Seq(Messages), NEW q2 \in Seq(Messages), q2 # <<>>,
           NEW v, NEW key, NEW n \in Nat,
           Part(q1, v, key, n), Part(q2, v, key, n + Len(q1))
    PROVE  /\ Part(Append(q1, Head(q2)), v, key, n)
           /\ Part(Tail(q2), v, key, n + Len(q1) + 1)
           /\ Part(Tail(q2), v, key, n + Len(Append(q1, Head(q2))))
  <1>1. /\ Head(q2) = q2[1] /\ 1 \in 1..Len(q2) /\ Head(q2) \in Messages
        /\ Len(q1) \in Nat /\ Len(q2) \in Nat /\ Len(Tail(q2)) = Len(q2) - 1
        /\ \A i \in 1..Len(Tail(q2)) : Tail(q2)[i] = q2[i + 1]
    BY TailFacts, EmptyFacts
  <1> DEFINE q == Append(q1, Head(q2))
  <1>2. /\ Len(q) = Len(q1) + 1
        /\ \A i \in 1..Len(q) : q[i] = IF i <= Len(q1) THEN q1[i] ELSE Head(q2)
    BY <1>1, AppendFacts
  <1>3. Head(q2) = [of |-> v, key |-> key, n |-> n + Len(q1) + 1]
    BY <1>1 DEF Part
  <1> HIDE DEF q
  <1>4. Part(q, v, key, n)
    <2> SUFFICES ASSUME NEW i \in 1..Len(q)
                 PROVE  q[i] = [of |-> v, key |-> key, n |-> n + i]
      BY DEF Part
    <2>1. CASE i <= Len(q1)
      <3>1. i \in 1..Len(q1) /\ q[i] = q1[i]
        BY <1>1, <1>2, <2>1
      <3> QED
        BY <3>1 DEF Part
    <2>2. CASE ~(i <= Len(q1))
      <3>1. i = Len(q1) + 1 /\ q[i] = Head(q2)
        BY <1>1, <1>2, <2>2
      <3>2. n + i = n + Len(q1) + 1
        BY <1>1, <3>1
      <3> QED
        BY <1>3, <3>1, <3>2
    <2> QED
      BY <2>1, <2>2
  <1>5. Part(Tail(q2), v, key, n + Len(q1) + 1)
    <2> SUFFICES ASSUME NEW i \in 1..Len(Tail(q2))
                 PROVE  Tail(q2)[i] = [of |-> v, key |-> key, n |-> n + Len(q1) + 1 + i]
      BY DEF Part
    <2>1. i + 1 \in 1..Len(q2) /\ Tail(q2)[i] = q2[i + 1]
      BY <1>1
    <2>2. q2[i + 1] = [of |-> v, key |-> key, n |-> n + Len(q1) + (i + 1)]
      BY <2>1 DEF Part
    <2>3. n + Len(q1) + (i + 1) = n + Len(q1) + 1 + i
      BY <1>1
    <2> QED
      BY <2>1, <2>2, <2>3
  <1>6. n + Len(q1) + 1 = n + Len(q)
    BY <1>1, <1>2
  <1> QED
    BY <1>4, <1>5, <1>6 DEF q

(* ... and so does what both are blocks of,                                *)
LEMMA OfMove ==
    ASSUME NEW q1 \in Seq(Messages), NEW q2 \in Seq(Messages), q2 # <<>>, NEW v,
           \A i \in 1..Len(q1) : q1[i].of = v,
           \A i \in 1..Len(q2) : q2[i].of = v
    PROVE  /\ \A i \in 1..Len(Append(q1, Head(q2))) : Append(q1, Head(q2))[i].of = v
           /\ \A i \in 1..Len(Tail(q2)) : Tail(q2)[i].of = v
  <1>1. /\ Head(q2) = q2[1] /\ 1 \in 1..Len(q2) /\ Head(q2) \in Messages
        /\ Len(q1) \in Nat /\ Len(q2) \in Nat /\ Len(Tail(q2)) = Len(q2) - 1
        /\ \A i \in 1..Len(Tail(q2)) : Tail(q2)[i] = q2[i + 1]
    BY TailFacts, EmptyFacts
  <1> DEFINE q == Append(q1, Head(q2))
  <1>2. /\ Len(q) = Len(q1) + 1
        /\ \A i \in 1..Len(q) : q[i] = IF i <= Len(q1) THEN q1[i] ELSE Head(q2)
    BY <1>1, AppendFacts
  <1> HIDE DEF q
  <1>3. \A i \in 1..Len(q) : q[i].of = v
    BY <1>1, <1>2
  <1>4. \A i \in 1..Len(Tail(q2)) : Tail(q2)[i].of = v
    BY <1>1
  <1> QED
    BY <1>3, <1>4 DEF q

(* ... and their lengths add up to the same.                               *)
LEMMA MoveLens ==
    ASSUME NEW q1 \in Seq(Messages), NEW q2 \in Seq(Messages), q2 # <<>>
    PROVE  /\ Len(q1) \in Nat /\ Len(q2) \in Nat \ {0}
           /\ Len(Append(q1, Head(q2))) = Len(q1) + 1 /\ Len(Tail(q2)) = Len(q2) - 1
  <1>1. /\ Head(q2) \in Messages
        /\ Len(q1) \in Nat /\ Len(q2) \in Nat \ {0} /\ Len(Tail(q2)) = Len(q2) - 1
    BY TailFacts, EmptyFacts
  <1> QED
    BY <1>1, AppendFacts

LEMMA MoveSum ==
    ASSUME NEW a \in Nat, NEW b \in Nat, NEW d \in Nat \ {0}
    PROVE  a + (b + 1) + (d - 1) = a + b + d
  OBVIOUS

(* A prepared file is the first part of its own stream; a part as long as  *)
(* the stream is the whole of it.                                          *)
LEMMA PartStream ==
    ASSUME NEW v, NEW key
    PROVE  Part(Stream(v, key), v, key, 0) /\ Len(Stream(v, key)) = Blocks
  <1>1. Len(Stream(v, key)) = Blocks
    BY TransferAssumption DEF Stream
  <1>2. \A i \in 1..Blocks : Stream(v, key)[i] = [of |-> v, key |-> key, n |-> 0 + i]
    BY TransferAssumption DEF Stream
  <1> QED
    BY <1>1, <1>2 DEF Part

LEMMA PartWhole ==
    ASSUME NEW q \in Seq(Messages), NEW v, NEW key, Part(q, v, key, 0), Len(q) = Blocks
    PROVE  q = Stream(v, key)
  <1>1. q = [i \in 1..Blocks |-> q[i]]
    OBVIOUS
  <1>2. \A i \in 1..Blocks : q[i] = [of |-> v, key |-> key, n |-> i]
    BY TransferAssumption DEF Part
  <1> QED
    BY <1>1, <1>2 DEF Stream

LEMMA PartEmpty == \A v, key, n : Part(<<>>, v, key, n)
  BY DEF Part

(* A client in the middle of a get, whose child has the whole key.         *)
Got ==
    /\ c.pc \in InGet \cup {"dh_recv"} /\ c.op = "get" /\ s.id = c.id
    /\ Len(s.key) = DHRounds

Gets(cb, ar, sb, v, key, pc, answered) ==
    /\ Part(cb, v, key, 0) /\ Part(ar, v, key, Len(cb))
    /\ Len(cb) + Len(ar) > 0 => v # None
    /\ pc = "retr_open" => Len(cb) + Len(ar) = 0
    /\ pc = "retr_send" => /\ v # None /\ Len(cb) + Len(ar) + Len(sb) = Blocks
                           /\ Part(sb, v, key, Len(cb) + Len(ar))
    /\ pc \in {"close", "idle"} => Len(cb) + Len(ar) \in {0, Blocks}
    /\ answered /\ pc # "retr_send" => Len(cb) + Len(ar) = Blocks

GetsNow == Gets(c.buf, Arriving, s.buf, sfile[c.file], s.key, s.pc, Answered)

(* Sending, as a relation between the parts of the stream.                 *)
LEMMA SendingNow == Sending <=> (Got => GetsNow)
  BY DEF Sending, Got, GetsNow, Gets

(* What holds in the middle of a get: the child has read the command, and  *)
(* the two keys are the same.                                              *)
LEMMA GotFacts ==
    ASSUME TypeOK, Dispatched, Numbered, Sockets, Paired, Rounds, InTurn, Got
    PROVE  /\ s.verb = "RETR" /\ s.file = c.file /\ c.file \in Files
           /\ s.pc \in Retr \cup {"close", "idle", "dead"}
           /\ c.open /\ c.pc \in Busy /\ ~c.dataDone
           /\ c.pc = "dh_recv" => HalfWaits /\ c.buf = <<>>
  <1>1. c.pc \in Busy /\ c.pc # "put_send" /\ c.pc # "put_skip"
    BY DEF Got, Busy, InDH, InGet, InPut, Retr, Stor, Serving
  <1>2. s.verb = "RETR" /\ s.file = c.file /\ c.file \in Files
    BY <1>1, VerbFacts DEF Got, Numbered, Dispatched
  <1>3. s.pc # "dh"
    BY Lens, TransferAssumption DEF Got, Rounds
  <1>4. s.pc \in Retr \cup {"close", "idle", "dead"}
    BY <1>1, <1>2, <1>3 DEF Got, Paired, Dispatched, Serving, Stor
  <1>5. c.open /\ ~c.dataDone
    BY <1>1 DEF Sockets
  <1>6. c.pc = "dh_recv" => HalfWaits /\ c.buf = <<>>
    BY <1>3 DEF Got, InTurn, ServerTurn, Exchanging, Rounds, InDH
  <1> QED
    BY <1>1, <1>2, <1>4, <1>5, <1>6

(* A child that still owes a reply has sent none.                          *)
LEMMA GotOwing ==
    ASSUME TypeOK, NotBefore, Got, s.pc = "retr_send"
    PROVE  ~Answered
  BY ReplyCode DEF NotBefore, Got, Answered, Owing

(* Steps that move no block.                                               *)
LEMMA SendingKept ==
    ASSUME TypeOK, Sending, NotBefore,
           Got' => /\ Got /\ UNCHANGED Arriving /\ c'.buf = c.buf /\ s'.buf = s.buf
                   /\ s'.key = s.key /\ sfile'[c'.file] = sfile[c.file]
                   /\ Answered' => Answered
                   /\ \/ s'.pc = s.pc
                      \/ s'.pc \in {"dead", "exit", "setup"}
                      \/ s.pc = "close" /\ s'.pc = "idle"
    PROVE  Sending'
  <1> SUFFICES ASSUME Got' PROVE GetsNow'
    BY DEF Sending, Got, GetsNow, Gets
  <1>1. Got
    OBVIOUS
  <1>2. GetsNow
    BY <1>1, SendingNow
  <1>3. s.pc = "retr_send" => ~Answered
    BY <1>1, GotOwing
  <1> QED
    BY <1>2, <1>3 DEF GetsNow, Gets

(* A read of a reply makes none, and a reply sent is the only new one.     *)
LEMMA AnsweredTaken ==
    ASSUME TypeOK, TakeReplies, c'.id = c.id, c'.reply = c.reply \/ c'.reply = ReplyRead
    PROVE  Answered' => Answered
  <1>1. PICK n \in 0..Len(s2c) : Taken(n)
    BY TakenReplies
  <1>2. \A i \in 1..Len(s2c') : i + n \in 1..Len(s2c) /\ s2c'[i] = s2c[i + n]
    BY <1>1, ReplyLen DEF Taken
  <1>3. c'.reply = c.reply \/ c'.reply = NoReply \/ \E i \in 1..Len(s2c) : c'.reply = s2c[i]
    BY <1>1, ReplyLen DEF Taken
  <1>4. Reply(200, c.id) # NoReply
    BY NoReplyType, ReplyCode
  <1> QED
    BY <1>2, <1>3, <1>4 DEF Answered

LEMMA AnsweredReplied ==
    ASSUME TypeOK, NEW r, Replied(r), r.code # 200, UNCHANGED c
    PROVE  Answered' => Answered
  <1>1. \A i \in 1..Len(s2c') : s2c'[i] = r \/ (i \in 1..Len(s2c) /\ s2c'[i] = s2c[i])
    BY ReplyLen DEF Replied
  <1> QED
    BY <1>1, ReplyCode DEF Answered

(* Reading the first message and adding another are in no order.           *)
LEMMA TailAppend ==
    ASSUME NEW S, NEW q \in Seq(S), q # <<>>, NEW x \in S
    PROVE  Tail(Append(q, x)) = Append(Tail(q), x)
  OBVIOUS

(* What arrives after the last half-key is a sequence of messages.         *)
LEMMA ArrivingType ==
    ASSUME TypeOK
    PROVE  Len(Arriving) \in Nat
  <1>1. ds2c \in Seq(Messages)
    BY Fields
  <1>2. CASE c.pc = "dh_recv"
    <2>1. CASE ds2c = <<>>
      BY <1>2, <2>1 DEF Arriving
    <2>2. CASE ds2c # <<>>
      BY <1>1, <1>2, <2>2, TailFacts DEF Arriving
    <2> QED
      BY <2>1, <2>2
  <1>3. CASE c.pc # "dh_recv"
    BY <1>1, <1>3 DEF Arriving
  <1> QED
    BY <1>2, <1>3

(* The child's answer to the half it waited for.                           *)
LEMMA ServerDHHalf ==
    ASSUME TypeOK, Dispatched, Paired, Sockets, InTurn, ServerDH, c.pc = "dh_recv"
    PROVE  HalfWaits' /\ Len(ds2c') = 1 /\ ds2c' \in Seq(Messages)
  <1>1. /\ UNCHANGED <<c, pending>> /\ KeepsRequest /\ s.pc = "dh"
        /\ dc2s # <<>> \/ ClientDataClosed
        /\ dc2s' = IF dc2s = <<>> THEN <<>> ELSE Tail(dc2s)
        /\ ds2c' = IF ClientDataClosed THEN ds2c ELSE Append(ds2c, ServerHalf)
        /\ Len(s'.key) = Len(s.key) + 1
    BY ServerDHEffect
  <1>2. Len(dc2s) <= 1 => dc2s' = <<>>
    BY <1>1, Fields
  <1>3. s.id = c.id /\ c.open
    BY <1>1 DEF Paired, Sockets, Busy, InDH, InGet, InPut, Retr, Stor, Serving
  <1>4. ServerTurn
    BY <1>1, <1>3 DEF InTurn, HalfWaits, Exchanging, Alive, ClientDataClosed, Busy, InDH
  <1> DEFINE h == Half("server", c.id, Len(c.key) + 1)
  <1>5. ds2c' = Append(ds2c, h)
    BY <1>1, <1>3, <1>4 DEF ServerTurn, ServerHalf, ClientDataClosed
  <1>6. dc2s' = <<>>
    BY <1>1, <1>2 DEF InTurn
  <1> HIDE DEF h
  <1>7. ds2c' = <<h>>
    BY <1>4, <1>5 DEF ServerTurn
  <1>8. ds2c' # <<>> /\ Head(ds2c') = h /\ ~(Len(ds2c') > 1)
    BY <1>7
  <1>9. Len(s'.key) = Len(c.key) + 1
    BY <1>1, <1>4 DEF ServerTurn
  <1>10. h = Half("server", c'.id, Len(c'.key) + 1) /\ c'.key = c.key
    BY <1>1 DEF h
  <1>11. ds2c' \in Seq(Messages) /\ Len(ds2c') = 1
    <2>1. Half("server", c.id, Len(c.key) + 1) \in Messages
      <3>1. c.id \in Ids /\ Len(c.key) + 1 \in Nat
        BY Fields, Lens
      <3> QED
        BY <3>1, HalfType
    <2>2. h \in Messages
      BY <2>1 DEF h
    <2> QED
      BY <1>7, <2>2
  <1> QED
    BY <1>6, <1>8, <1>9, <1>10, <1>11 DEF HalfWaits

-----------------------------------------------------------------------------
(* Sending: what the client of a get has, what is in flight and what the   *)
(* child has still to write make up the server's file, and a reply 200     *)
(* comes after all of it.                                                  *)
LEMMA SendingClientStep ==
    ASSUME TypeOK, Dispatched, PortInTurn, Numbered, Sockets, Paired, Agreed, Rounds,
           InTurn, Ends, NotBefore, Sending,
           UserStep \/ ClientStep \/ ClientSigpipe \/ ClientKilled
    PROVE  Sending'
  <1>1. ASSUME NEW op \in Ops, NEW f \in Files, UserCommand(op, f) PROVE Sending'
    <2>1. c'.pc \in {"accept"}
      BY <1>1, UserCommandEffect
    <2> QED
      BY <2>1 DEF Sending, InGet
  <1>2. CASE UserQuit
    <2>1. c'.pc \in {"quit"}
      BY <1>2, UserQuitEffect
    <2> QED
      BY <2>1 DEF Sending, InGet
  <1>3. CASE ClientAccept
    <2>1. c'.pc \in {"ls", "skip", "dh_send"}
      BY <1>3, AcceptEffect
    <2> QED
      BY <2>1 DEF Sending, InGet
  <1>4. CASE ClientSkipReply
    <2>1. c'.pc \in {"prompt"}
      BY <1>4, Locals DEF ClientSkipReply, ClientStates, Return
    <2> QED
      BY <2>1 DEF Sending, InGet
  <1>5. CASE ClientQuitReply
    <2>1. c'.pc \in {"done"}
      BY <1>5, Locals DEF ClientQuitReply, ClientStates
    <2> QED
      BY <2>1 DEF Sending, InGet
  <1>6. CASE ClientLsControl
    <2>1. c'.pc \in {"ls", "dead", "prompt"}
      BY <1>6, LsControlEffect
    <2> QED
      BY <2>1 DEF Sending, InGet
  <1>7. CASE ClientLsData
    <2>1. c'.pc \in {"ls", "prompt"}
      BY <1>7, LsDataEffect
    <2> QED
      BY <2>1 DEF Sending, InGet
  <1>8. CASE ClientDHSend
    <2>1. UNCHANGED s /\ c.pc = "dh_send" /\ c'.id = c.id
      BY <1>8, Locals DEF ClientDHSend, ClientStates
    <2>2. ~Got'
      <3>1. s.id = c.id /\ Len(s.key) = DHRounds => s.pc = "dh"
        BY <2>1 DEF InTurn, ClientTurn, Exchanging
      <3>2. s.pc = "dh" => Len(s.key) # DHRounds
        BY Lens, TransferAssumption DEF Rounds
      <3> QED
        BY <2>1, <3>1, <3>2 DEF Got
    <2> QED
      BY <2>2 DEF Sending, Got
  <1>9. CASE ClientDHRecv
    <2>1. /\ UNCHANGED <<s, sfile, s2c>> /\ KeepsCommand /\ c.pc = "dh_recv"
          /\ c'.buf = c.buf
          /\ c'.reply = c.reply /\ c'.pc \in {"dh_send", "get_open", "put_prepare"}
          /\ ds2c' = IF ds2c = <<>> THEN <<>> ELSE Tail(ds2c)
      BY <1>9, DHRecvEffect
    <2>2. Got' => Got
      BY <2>1 DEF Got, KeepsCommand
    <2>3. Got => UNCHANGED Arriving
      BY <2>1, GotFacts DEF HalfWaits, Arriving
    <2> QED
      BY <2>1, <2>2, <2>3, SendingKept DEF KeepsCommand, Answered
  <1>10. CASE ClientGetOpen
    <2>1. /\ UNCHANGED <<s, sfile, s2c, ds2c>> /\ KeepsCommand /\ c.pc = "get_open"
          /\ c'.buf = c.buf
          /\ c'.reply = c.reply /\ c'.pc \in {"get_recv", "prompt"}
      BY <1>10, GetOpenEffect
    <2>2. Got' => Got
      BY <2>1 DEF Got, KeepsCommand, InGet
    <2>3. UNCHANGED Arriving
      BY <2>1 DEF Arriving
    <2> QED
      BY <2>1, <2>2, <2>3, SendingKept DEF KeepsCommand, Answered
  <1>11. CASE ClientGetRecv
    <2>1. /\ UNCHANGED <<s, sfile, s2c>> /\ KeepsCommand /\ c.pc = "get_recv"
          /\ c'.reply = c.reply
          /\ c'.pc \in {"get_recv", "get_reply", "get_abort"}
      BY <1>11, GetRecvEffect
    <2>2. Got' <=> Got
      BY <2>1 DEF Got, KeepsCommand, InGet
    <2>3. Arriving = ds2c /\ Arriving' = ds2c' /\ (Answered' <=> Answered)
      BY <2>1 DEF Arriving, Answered, KeepsCommand
    <2>4. CASE c'.buf = c.buf /\ ds2c' = ds2c
      BY <2>1, <2>2, <2>3, <2>4, SendingKept DEF KeepsCommand
    <2>5. CASE ds2c # <<>> /\ c'.buf = Append(c.buf, Head(ds2c)) /\ ds2c' = Tail(ds2c)
      <3> SUFFICES ASSUME Got' PROVE GetsNow'
        BY DEF Sending, Got, GetsNow, Gets
      <3>1. GetsNow
        BY <2>2, SendingNow
      <3>2. c.buf \in Seq(Messages) /\ ds2c \in Seq(Messages)
        BY Fields
      <3>3. /\ Len(c.buf) \in Nat /\ Len(ds2c) \in Nat \ {0}
            /\ Len(c'.buf) = Len(c.buf) + 1 /\ Len(ds2c') = Len(ds2c) - 1
        BY <2>5, <3>2, MoveLens
      <3>4. Len(c'.buf) + Len(ds2c') = Len(c.buf) + Len(ds2c)
        BY <3>3
      <3> DEFINE v == sfile[c.file]
      <3>5. Part(c.buf, v, s.key, 0) /\ Part(ds2c, v, s.key, 0 + Len(c.buf))
        BY <2>3, <3>1, <3>3 DEF GetsNow, Gets
      <3> HIDE DEF v
      <3>6. Part(c'.buf, v, s.key, 0) /\ Part(ds2c', v, s.key, 0 + Len(c'.buf))
        BY <2>5, <3>2, <3>5, PartMove
      <3>7. 0 + Len(c'.buf) = Len(c'.buf)
        BY <3>3
      <3>8. v' = v
        BY <2>1 DEF KeepsCommand, v
      <3> QED
        BY <2>1, <2>3, <3>1, <3>4, <3>6, <3>7, <3>8 DEF GetsNow, Gets, v
    <2> QED
      BY <1>11, GetRecvEffect, <2>4, <2>5
  <1>12. CASE ClientGetReply
    <2>1. /\ UNCHANGED <<s, sfile, ds2c>> /\ KeepsCommand /\ c'.buf = c.buf /\ TakeReplies
          /\ c'.reply = ReplyRead /\ c.pc \in {"get_reply", "get_abort"}
          /\ c'.pc \in {"get_process", "prompt"}
      BY <1>12, GetReplyEffect
    <2>2. Got' => Got
      BY <2>1 DEF Got, KeepsCommand, InGet
    <2>3. UNCHANGED Arriving
      BY <2>1 DEF Arriving
    <2>4. Answered' => Answered
      BY <2>1, AnsweredTaken DEF KeepsCommand
    <2> QED
      BY <2>1, <2>2, <2>3, <2>4, SendingKept DEF KeepsCommand
  <1>13. CASE ClientGetDecrypt \/ ClientGetUncomp
    <2>1. /\ UNCHANGED <<s, s2c, ds2c>> /\ KeepsCommand
          /\ c.pc \in {"get_process", "get_uncomp"} /\ c'.buf = c.buf
          /\ c'.reply = c.reply /\ c'.pc \in {"get_uncomp", "prompt"}
      BY <1>13, GetProcessControl
    <2>2. UNCHANGED sfile
      BY <1>13, GetProcessEffect
    <2>3. Got' => Got
      BY <2>1 DEF Got, KeepsCommand, InGet
    <2>4. UNCHANGED Arriving
      BY <2>1 DEF Arriving
    <2> QED
      BY <2>1, <2>2, <2>3, <2>4, SendingKept DEF KeepsCommand, Answered
  <1>14. CASE ClientPutPrepare
    <2>1. c'.pc \in {"put_skip", "put_send", "prompt"}
      BY <1>14, PutPrepareEffect
    <2> QED
      BY <2>1 DEF Sending, InGet
  <1>15. CASE ClientPutWrite
    <2>1. c'.pc \in {"put_send"}
      BY <1>15, Locals DEF ClientPutWrite, ClientStates
    <2> QED
      BY <2>1 DEF Sending, InGet
  <1>16. CASE ClientPutClose
    <2>1. c'.pc \in {"put_send", "prompt"}
      BY <1>16, PutCloseEffect
    <2> QED
      BY <2>1 DEF Sending, InGet
  <1>17. CASE ClientPutReply
    <2>1. c'.pc \in {"put_send", "dead", "prompt"}
      BY <1>17, PutReplyEffect
    <2> QED
      BY <2>1 DEF Sending, InGet
  <1>18. CASE ClientSigpipe
    <2>1. c'.pc \in {"dead"}
      BY <1>18, Locals DEF ClientSigpipe, ClientStates, Crash
    <2> QED
      BY <2>1 DEF Sending, InGet
  <1>19. CASE ClientKilled
    <2>1. c'.pc \in {"dead"}
      BY <1>19, Locals DEF ClientKilled, ClientStates, Crash
    <2> QED
      BY <2>1 DEF Sending, InGet
  <1> QED
    BY <1>1, <1>2, <1>3, <1>4, <1>5, <1>6, <1>7, <1>8, <1>9, <1>10, <1>11, <1>12, <1>13,
       <1>14, <1>15, <1>16, <1>17, <1>18, <1>19 DEF UserStep, ClientStep

LEMMA SendingServerStep ==
    ASSUME TypeOK, Dispatched, PortInTurn, Numbered, Sockets, Paired, Agreed, Rounds,
           InTurn, Ends, NotBefore, Sending, ServerStep \/ ServerSigpipe \/ ServerKilled
    PROVE  Sending'
  <1>1. CASE ServerQuit
    <2>1. /\ UNCHANGED <<c, sfile, ds2c>> /\ s'.id = s.id /\ s'.key = s.key
          /\ s'.buf = s.buf
          /\ s'.pc = "exit" /\ c2s # <<>> /\ s2c' = Append(s2c, Reply(221, Head(c2s).id))
      BY <1>1, ServerQuitEffect DEF KeepsRequest
    <2>2. (Got' => Got) /\ UNCHANGED Arriving
      BY <2>1 DEF Got, Arriving
    <2>3. Head(c2s).id \in Ids
      BY <2>1, CommandHead, CommandIds DEF Commands
    <2> DEFINE r == Reply(221, Head(c2s).id)
    <2>4. Replied(r) /\ r.code = 221
      BY <2>1, <2>3, RepliedSend DEF Codes
    <2> HIDE DEF r
    <2>5. Answered' => Answered
      BY <2>1, <2>4, AnsweredReplied
    <2> QED
      BY <2>1, <2>2, <2>5, SendingKept
  <1>2. CASE ServerPort
    <2>1. /\ UNCHANGED <<c, sfile, ds2c, s2c>> /\ s'.id = s.id /\ s'.key = s.key
          /\ s'.buf = s.buf
          /\ s'.pc \in {"setup"}
      BY <1>2, ServerPortEffect DEF KeepsRequest
    <2>2. (Got' => Got) /\ UNCHANGED Arriving /\ UNCHANGED Answered
      BY <2>1 DEF Got, Arriving, Answered
    <2> QED
      BY <2>1, <2>2, SendingKept
  <1>3. CASE ServerGarbled
    <2>1. /\ UNCHANGED <<c, sfile, ds2c, s2c>> /\ s'.id = s.id /\ s'.key = s.key
          /\ s'.buf = s.buf
          /\ s'.pc \in {"dead"}
      BY <1>3, Locals DEF ServerGarbled, ServerStates, Crash, ctl, data
    <2>2. (Got' => Got) /\ UNCHANGED Arriving /\ UNCHANGED Answered
      BY <2>1 DEF Got, Arriving, Answered
    <2> QED
      BY <2>1, <2>2, SendingKept
  <1>4. CASE ServerConnect
    <2>1. /\ UNCHANGED c /\ s'.id = s.id /\ s'.key = s.key /\ s.pc = "setup"
      BY <1>4, ConnectEffect DEF KeepsRequest
    <2>2. ~Got
      BY <2>1, GotFacts, VerbFacts DEF Retr
    <2> QED
      BY <2>1, <2>2 DEF Sending, Got
  <1>5. CASE ServerCommand
    <2>1. s'.key = <<>>
      BY <1>5, CommandEffect
    <2>2. Len(s'.key) # DHRounds
      BY <2>1, EmptySeq, TransferAssumption
    <2> QED
      BY <2>2 DEF Sending
  <1>6. CASE ServerMerged
    <2>1. /\ UNCHANGED c /\ s'.id = s.id /\ s'.key = s.key /\ s.pc = "cmd"
      BY <1>6, ServerMergedEffect DEF KeepsRequest
    <2>2. ~Got
      BY <2>1, GotFacts, VerbFacts DEF Retr
    <2> QED
      BY <2>1, <2>2 DEF Sending, Got
  <1>7. CASE ServerClose
    <2>1. /\ UNCHANGED <<c, sfile, ds2c, s2c>> /\ s'.id = s.id /\ s'.key = s.key
          /\ s'.buf = s.buf
          /\ s.pc = "close" /\ s'.pc = "idle"
      BY <1>7, Locals DEF ServerClose, ServerStates, ctl, data
    <2>2. (Got' => Got) /\ UNCHANGED Arriving /\ UNCHANGED Answered
      BY <2>1 DEF Got, Arriving, Answered
    <2> QED
      BY <2>1, <2>2, SendingKept
  <1>8. CASE ServerList
    <2>1. /\ UNCHANGED c /\ s'.id = s.id /\ s'.key = s.key /\ s.pc = "list"
      BY <1>8, ListEffect DEF KeepsRequest
    <2>2. ~Got
      BY <2>1, GotFacts, VerbFacts DEF Retr
    <2> QED
      BY <2>1, <2>2 DEF Sending, Got
  <1>9. CASE ServerDH
    <2> SUFFICES ASSUME Got' PROVE GetsNow'
      BY DEF Sending, Got, GetsNow, Gets
    <2>1. /\ UNCHANGED <<c, s2c, sfile>> /\ KeepsRequest /\ s.pc = "dh"
          /\ s'.pc \in {"dh", "retr_open", "stor_open"} /\ Len(s.key) # DHRounds
      BY <1>9, ServerDHEffect, Lens, TransferAssumption DEF Rounds
    <2>2. c.pc = "dh_recv" /\ c.buf = <<>> /\ s.id = c.id /\ c.op = "get"
      BY <2>1 DEF Got, Paired, Rounds, KeepsRequest, Busy, InDH, InGet, InPut, Retr,
         Stor, Serving
    <2>3. ~Answered
      BY <2>1, <2>2 DEF NotBefore, InDH
    <2>4. HalfWaits'
      BY <1>9, ServerDHHalf, <2>2
    <2>5. s'.pc # "dh"
      BY <2>1, <1>9, ServerDHEffect, TransferAssumption DEF Got
    <2>6. s'.pc = "retr_open"
      BY <1>9, ServerDHEffect, <2>2, <2>5, VerbFacts DEF Numbered
    <2>7. Len(ds2c') = 1 /\ ds2c' \in Seq(Messages)
      BY <1>9, ServerDHHalf, <2>2
    <2>8. Arriving' = <<>>
      BY <2>1, <2>2, <2>7, TailOne DEF Arriving
    <2>9. ~Answered'
      BY <2>1, <2>3 DEF Answered
    <2>10. c'.buf = <<>> /\ Len(<<>>) + Len(<<>>) = 0
      BY <2>1, <2>2, EmptySeq
    <2> QED
      BY <2>6, <2>8, <2>9, <2>10, PartEmpty DEF GetsNow, Gets
  <1>10. CASE ServerRetrOpen
    <2>1. /\ UNCHANGED <<c, sfile, ds2c>> /\ s'.id = s.id /\ s'.key = s.key
          /\ s.pc = "retr_open"
          /\ \/ s'.pc = "close" /\ \E code \in {451, 550} : SendReply(code)
             \/ /\ s'.pc = "retr_send" /\ s2c' = s2c
                /\ sfile[s.file] # None /\ s'.buf = Stream(sfile[s.file], s.key)
      BY <1>10, RetrOpenEffect DEF KeepsRequest
    <2> SUFFICES ASSUME Got' PROVE GetsNow'
      BY DEF Sending, Got, GetsNow, Gets
    <2>2. Got
      BY <2>1 DEF Got
    <2>3. UNCHANGED Arriving
      BY <2>1 DEF Arriving
    <2>4. GetsNow
      BY <2>2, SendingNow
    <2>5. Len(c.buf) + Len(Arriving) = 0
      BY <2>1, <2>4 DEF GetsNow, Gets
    <2>6. CASE s'.pc = "close" /\ \E code \in {451, 550} : SendReply(code)
      <3>1. PICK code \in {451, 550} : SendReply(code)
        BY <2>6
      <3> DEFINE r == Reply(code, s.id)
      <3>2. Replied(r) /\ r.code = code
        BY <3>1, RepliedSend, Fields DEF SendReply, Codes
      <3> HIDE DEF r
      <3>3. Answered' => Answered
        BY <2>1, <3>2, AnsweredReplied
      <3> QED
        BY <2>1, <2>3, <2>4, <2>5, <2>6, <3>3 DEF GetsNow, Gets
    <2>7. CASE /\ s'.pc = "retr_send" /\ s2c' = s2c
               /\ sfile[s.file] # None /\ s'.buf = Stream(sfile[s.file], s.key)
      <3>1. s.file = c.file
        BY <2>2, GotFacts
      <3> DEFINE v == sfile[c.file]
      <3>2. Part(s'.buf, v, s.key, 0) /\ Len(s'.buf) = Blocks
        BY <2>7, <3>1, PartStream
      <3>3. 0 + Len(s'.buf) = Blocks
        BY <3>2, TransferAssumption
      <3> QED
        BY <2>1, <2>3, <2>4, <2>5, <2>7, <3>1, <3>2, <3>3 DEF GetsNow, Gets
    <2> QED
      BY <2>1, <2>6, <2>7
  <1>11. CASE ServerRetrWrite
    <2>1. /\ UNCHANGED <<c, sfile, s2c, pending>> /\ s'.id = s.id /\ s'.key = s.key
          /\ s.pc = "retr_send" /\ s'.pc = "retr_send" /\ s.buf # <<>>
          /\ s'.buf = Tail(s.buf)
          /\ ds2c' = IF ClientDataClosed THEN ds2c ELSE Append(ds2c, Head(s.buf))
      BY <1>11, Locals DEF ServerRetrWrite, ServerStates, ctl
    <2> SUFFICES ASSUME Got' PROVE GetsNow'
      BY DEF Sending, Got, GetsNow, Gets
    <2>2. Got
      BY <2>1 DEF Got
    <2>3. GetsNow
      BY <2>2, SendingNow
    <2>4. ds2c' = Append(ds2c, Head(s.buf))
      BY <2>1, <2>2, GotFacts DEF ClientDataClosed
    <2>5. /\ c.buf \in Seq(Messages) /\ s.buf \in Seq(Messages) /\ ds2c \in Seq(Messages)
          /\ Len(c.buf) \in Nat
      BY Fields
    <2>6. Arriving \in Seq(Messages) /\ Arriving' = Append(Arriving, Head(s.buf))
      <3>1. CASE c.pc = "dh_recv"
        <4>1. ds2c # <<>> /\ Head(s.buf) \in Messages
          BY <2>1, <2>2, <2>5, <3>1, GotFacts, TailFacts DEF HalfWaits
        <4>2. Tail(Append(ds2c, Head(s.buf))) = Append(Tail(ds2c), Head(s.buf))
          BY <2>5, <4>1, TailAppend
        <4>3. Tail(ds2c) \in Seq(Messages)
          BY <2>5, <4>1
        <4> QED
          BY <2>1, <2>4, <3>1, <4>2, <4>3 DEF Arriving
      <3>2. CASE c.pc # "dh_recv"
        BY <2>1, <2>4, <2>5, <3>2 DEF Arriving
      <3> QED
        BY <3>1, <3>2
    <2> DEFINE ar == Arriving
    <2> DEFINE v == sfile[c.file]
    <2>7. /\ Part(c.buf, v, s.key, 0) /\ Part(ar, v, s.key, Len(c.buf))
          /\ v # None /\ Len(c.buf) + Len(ar) + Len(s.buf) = Blocks
          /\ Part(s.buf, v, s.key, Len(c.buf) + Len(ar))
      BY <2>1, <2>3 DEF GetsNow, Gets
    <2>8. ar \in Seq(Messages) /\ ar' = Append(ar, Head(s.buf)) /\ v' = v
      BY <2>1, <2>6
    <2> HIDE DEF ar, v
    <2>9. /\ Len(ar) \in Nat /\ Len(s.buf) \in Nat \ {0}
          /\ Len(Append(ar, Head(s.buf))) = Len(ar) + 1 /\ Len(s'.buf) = Len(s.buf) - 1
      BY <2>1, <2>5, <2>8, MoveLens
    <2>10. /\ Part(Append(ar, Head(s.buf)), v, s.key, Len(c.buf))
           /\ Part(s'.buf, v, s.key, Len(c.buf) + Len(Append(ar, Head(s.buf))))
      BY <2>1, <2>5, <2>7, <2>8, PartMove
    <2>11. Len(c.buf) + Len(ar') + Len(s'.buf) = Blocks
      <3>1. Len(c.buf) \in Nat /\ Len(c.buf) + Len(ar) + Len(s.buf) = Blocks
        BY <2>5, <2>7
      <3>2. Len(ar') = Len(ar) + 1
        BY <2>8, <2>9
      <3>3. Len(c.buf) + (Len(ar) + 1) + (Len(s.buf) - 1) = Len(c.buf) + Len(ar) + Len(s.buf)
        BY <2>9, <3>1, MoveSum
      <3> QED
        BY <2>9, <3>1, <3>2, <3>3
    <2>12. Gets(c.buf, ar', s'.buf, v, s.key, "retr_send", Answered')
      BY <2>7, <2>8, <2>10, <2>11 DEF Gets
    <2> QED
      BY <2>1, <2>8, <2>12 DEF GetsNow, ar, v
  <1>12. CASE ServerRetrDone
    <2>1. /\ UNCHANGED <<c, sfile, ds2c>> /\ s'.id = s.id /\ s'.key = s.key
          /\ s.pc = "retr_send" /\ s'.pc = "close" /\ s.buf = <<>> /\ s'.buf = <<>>
      BY <1>12, Locals DEF ServerRetrDone, Leave, ServerStates, data
    <2> SUFFICES ASSUME Got' PROVE GetsNow'
      BY DEF Sending, Got, GetsNow, Gets
    <2>2. GetsNow
      BY <2>1, SendingNow DEF Got
    <2>3. UNCHANGED Arriving
      BY <2>1 DEF Arriving
    <2>4. Len(c.buf) \in Nat /\ Len(Arriving) \in Nat
      BY ArrivingType, Lens
    <2>5. Len(c.buf) + Len(Arriving) = Blocks
      BY <2>1, <2>2, <2>4, EmptySeq, TransferAssumption DEF GetsNow, Gets
    <2> QED
      BY <2>1, <2>2, <2>3, <2>5 DEF GetsNow, Gets
  <1>13. CASE ServerStorOpen
    <2>1. /\ UNCHANGED c /\ s'.id = s.id /\ s'.key = s.key /\ s.pc = "stor_open"
      BY <1>13, Locals DEF ServerStorOpen, ServerStates, Leave
    <2>2. ~Got
      BY <2>1, GotFacts, VerbFacts DEF Retr
    <2> QED
      BY <2>1, <2>2 DEF Sending, Got
  <1>14. CASE ServerStorRecv
    <2>1. /\ UNCHANGED c /\ s'.id = s.id /\ s'.key = s.key /\ s.pc = "stor_recv"
      BY <1>14, Locals DEF ServerStorRecv, ServerStates
    <2>2. ~Got
      BY <2>1, GotFacts, VerbFacts DEF Retr
    <2> QED
      BY <2>1, <2>2 DEF Sending, Got
  <1>15. CASE ServerStorEof
    <2>1. /\ UNCHANGED c /\ s'.id = s.id /\ s'.key = s.key /\ s.pc = "stor_recv"
      BY <1>15, Locals DEF ServerStorEof, ServerStates
    <2>2. ~Got
      BY <2>1, GotFacts, VerbFacts DEF Retr
    <2> QED
      BY <2>1, <2>2 DEF Sending, Got
  <1>16. CASE ServerStorDecrypt \/ ServerStorUncomp
    <2>1. /\ UNCHANGED c /\ s'.id = s.id /\ s'.key = s.key
          /\ s.pc \in {"stor_process", "stor_uncomp"}
      BY <1>16, StorProcessControl DEF KeepsRequest
    <2>2. ~Got
      BY <2>1, GotFacts, VerbFacts DEF Retr
    <2> QED
      BY <2>1, <2>2 DEF Sending, Got
  <1>17. CASE ServerSigpipe
    <2>1. /\ UNCHANGED <<c, sfile, ds2c, s2c>> /\ s'.id = s.id /\ s'.key = s.key
          /\ s'.buf = s.buf
          /\ s'.pc \in {"dead"}
      BY <1>17, Locals DEF ServerSigpipe, ServerStates, Crash, ctl, data
    <2>2. (Got' => Got) /\ UNCHANGED Arriving /\ UNCHANGED Answered
      BY <2>1 DEF Got, Arriving, Answered
    <2> QED
      BY <2>1, <2>2, SendingKept
  <1>18. CASE ServerKilled
    <2>1. /\ UNCHANGED <<c, sfile, ds2c, s2c>> /\ s'.id = s.id /\ s'.key = s.key
          /\ s'.buf = s.buf
          /\ s'.pc \in {"dead"}
      BY <1>18, Locals DEF ServerKilled, ServerStates, Crash, ctl, data
    <2>2. (Got' => Got) /\ UNCHANGED Arriving /\ UNCHANGED Answered
      BY <2>1 DEF Got, Arriving, Answered
    <2> QED
      BY <2>1, <2>2, SendingKept
  <1> QED
    BY <1>1, <1>2, <1>3, <1>4, <1>5, <1>6, <1>7, <1>8, <1>9, <1>10, <1>11, <1>12, <1>13,
       <1>14, <1>15, <1>16, <1>17, <1>18 DEF ServerStep

(* The blocks of a part are of the part's content.                         *)
LEMMA PartOf ==
    ASSUME NEW q, NEW v, NEW key, NEW n, Part(q, v, key, n)
    PROVE  \A i \in 1..Len(q) : q[i].of = v
  <1> SUFFICES ASSUME NEW i \in 1..Len(q) PROVE q[i].of = v
    OBVIOUS
  <1>1. q[i] = [of |-> v, key |-> key, n |-> n + i]
    BY DEF Part
  <1> DEFINE m == n + i
  <1>2. q[i] = [of |-> v, key |-> key, n |-> m]
    BY <1>1
  <1> HIDE DEF m
  <1> QED
    BY <1>2

(* A child in the middle of a put.                                         *)
Puts(sb, dq, cb, v, key, pc, alive, done, same) ==
    LET n == Len(sb) + Len(dq)
    IN  /\ alive => Part(sb, v, key, 0) /\ Part(dq, v, key, Len(sb))
        /\ \A i \in 1..Len(sb) : sb[i].of = v
        /\ \A i \in 1..Len(dq) : dq[i].of = v
        /\ n > 0 => v # None
        /\ pc \in {"dh_recv", "put_prepare", "put_skip"} => n = 0
        /\ pc = "put_send" /\ ~done =>
              n + Len(cb) = Blocks /\ v # None /\ Part(cb, v, key, n)
        /\ pc \in Away \cup {"put_send"} /\ same /\ done => n = Blocks
        /\ pc \in Away => n \in {0, Blocks}

PutsNow ==
    Puts(s.buf, dc2s, c.buf, cfile[s.file], s.key, c.pc, Alive(c), c.dataDone, s.id = c.id)

(* Storing, as a relation between the parts of the stream.                 *)
LEMMA StoringNow == Storing <=> (s.pc \in Stor => PutsNow)
  BY DEF Storing, PutsNow, Puts

(* What holds in the middle of a put.                                      *)
LEMMA StorFacts ==
    ASSUME TypeOK, Dispatched, PortInTurn, Numbered, Sockets, Paired, Rounds, InTurn,
           s.pc \in Stor
    PROVE  /\ s.open /\ Alive(s) /\ Len(s.key) = DHRounds /\ ~pending /\ s.file \in Files
           /\ c.pc \in {"dh_recv", "put_prepare", "put_skip", "put_send", "dead"} \cup Away
           /\ c.pc \in Busy => s.id = c.id /\ s.file = c.file /\ c.op = "put"
           /\ c.pc \in Busy \ {"put_send"} => ~c.dataDone
  <1>1. s.open /\ Alive(s) /\ s.verb = "STOR" /\ ~pending /\ s.file \in Files
    BY DEF Sockets, Dispatched, PortInTurn, Alive, Serving, Stor
  <1>2. Len(s.key) = DHRounds
    BY <1>1 DEF Rounds, Stor
  <1>3. c.pc \in Busy => s.id = c.id /\ s.file = c.file /\ c.op = "put"
    BY <1>1, Fields, VerbFacts DEF Paired, Numbered, Stor, Alive
  <1>4. c.pc \in Busy \cup Away \cup {"dead"}
    BY DEF Paired, Serving
  <1>5. c.pc # "dh_send"
    BY <1>1, <1>3 DEF InTurn, ClientTurn, Exchanging, Busy, InDH, Stor
  <1>6. c.pc \notin InGet
    BY <1>3 DEF Dispatched, Busy
  <1>7. c.pc \in Busy \ {"put_send"} => ~c.dataDone
    BY DEF Sockets
  <1>8. c.pc \in {"dh_recv", "put_prepare", "put_skip", "put_send", "dead"} \cup Away
    BY <1>4, <1>5, <1>6 DEF Busy, InDH, InPut
  <1> QED
    BY <1>1, <1>2, <1>3, <1>7, <1>8

(* The client of a put prepares it under the child's key.                  *)
LEMMA SameKey ==
    ASSUME TypeOK, Agreed, s.id = c.id, Alive(c), Len(c.key) = DHRounds,
           Len(s.key) = DHRounds
    PROVE  c.key = s.key
  <1>1. Proper(c.key, c.id) /\ Proper(s.key, c.id)
    BY DEF Agreed, Exchanging
  <1> QED
    BY <1>1, Fields, ProperSame

-----------------------------------------------------------------------------
(* Storing: what the child of a put has, what is in flight and what the    *)
(* client has still to write make up the client's file.                    *)
LEMMA StoringClientStep ==
    ASSUME TypeOK, Dispatched, PortInTurn, Numbered, Sockets, Paired, Agreed, Rounds,
           InTurn, Ends, NotBefore, Storing,
           UserStep \/ ClientStep \/ ClientSigpipe \/ ClientKilled
    PROVE  Storing'
  <1>1. ASSUME NEW op \in Ops, NEW f \in Files, UserCommand(op, f) PROVE Storing'
    <2>1. /\ UNCHANGED <<s, dc2s, cfile>> /\ c.pc = "prompt" /\ c'.pc = "accept"
          /\ c'.id = c.id + 1
      BY <1>1, UserCommandEffect
    <2> SUFFICES ASSUME s.pc \in Stor PROVE PutsNow'
      BY <2>1 DEF Storing, PutsNow, Puts
    <2>2. PutsNow
      BY StoringNow
    <2>3. s.id # c'.id
      BY <2>1, Locals DEF Numbered
    <2> QED
      BY <2>1, <2>2, <2>3 DEF PutsNow, Puts, Alive, Away
  <1>2. CASE UserQuit
    <2>1. /\ UNCHANGED <<s, dc2s, cfile>> /\ c.pc = "prompt" /\ c'.pc = "quit"
          /\ c'.id = c.id /\ c'.dataDone = c.dataDone
      BY <1>2, UserQuitEffect DEF KeepsCommand
    <2> SUFFICES ASSUME s.pc \in Stor PROVE PutsNow'
      BY <2>1 DEF Storing, PutsNow, Puts
    <2>2. PutsNow
      BY StoringNow
    <2> QED
      BY <2>1, <2>2 DEF PutsNow, Puts, Alive, Away
  <1>3. CASE ClientAccept
    <2>1. UNCHANGED s /\ pending
      BY <1>3, AcceptEffect
    <2>2. s.pc \notin Stor
      BY <2>1, StorFacts
    <2> QED
      BY <2>1, <2>2 DEF Storing
  <1>4. CASE ClientSkipReply
    <2>1. /\ UNCHANGED <<s, dc2s, cfile>> /\ c.pc \in {"skip", "put_skip"}
          /\ c'.pc = "prompt"
          /\ c'.id = c.id /\ c'.dataDone = c.dataDone
      BY <1>4, Locals DEF ClientSkipReply, Return, ClientStates, data
    <2> SUFFICES ASSUME s.pc \in Stor PROVE PutsNow'
      BY <2>1 DEF Storing, PutsNow, Puts
    <2>2. PutsNow
      BY StoringNow
    <2>3. c.pc = "put_skip" /\ ~c.dataDone
      BY <2>1, StorFacts DEF Away, Busy, InPut
    <2> QED
      BY <2>1, <2>2, <2>3 DEF PutsNow, Puts, Alive, Away
  <1>5. CASE ClientQuitReply
    <2>1. /\ UNCHANGED <<s, dc2s, cfile>> /\ c.pc = "quit" /\ c'.pc = "done"
          /\ c'.id = c.id /\ c'.dataDone = c.dataDone
      BY <1>5, Locals DEF ClientQuitReply, ClientStates, data
    <2> SUFFICES ASSUME s.pc \in Stor PROVE PutsNow'
      BY <2>1 DEF Storing, PutsNow, Puts
    <2>2. PutsNow
      BY StoringNow
    <2> QED
      BY <2>1, <2>2 DEF PutsNow, Puts, Alive, Away
  <1>6. CASE ClientLsControl
    <2>1. UNCHANGED s /\ c.pc \in {"ls"}
      BY <1>6, LsControlEffect
    <2>2. s.pc \notin Stor
      BY <2>1, StorFacts DEF Away
    <2> QED
      BY <2>1, <2>2 DEF Storing
  <1>7. CASE ClientLsData
    <2>1. UNCHANGED s /\ c.pc \in {"ls"}
      BY <1>7, LsDataEffect
    <2>2. s.pc \notin Stor
      BY <2>1, StorFacts DEF Away
    <2> QED
      BY <2>1, <2>2 DEF Storing
  <1>8. CASE ClientDHSend
    <2>1. UNCHANGED s /\ c.pc \in {"dh_send"}
      BY <1>8, Locals DEF ClientDHSend, ClientStates
    <2>2. s.pc \notin Stor
      BY <2>1, StorFacts DEF Away
    <2> QED
      BY <2>1, <2>2 DEF Storing
  <1>9. CASE ClientDHRecv
    <2>1. /\ UNCHANGED <<s, dc2s, cfile>> /\ c.pc = "dh_recv"
          /\ c'.pc \in {"dh_send", "get_open", "put_prepare"}
          /\ c'.id = c.id /\ c'.dataDone = c.dataDone
      BY <1>9, DHRecvEffect DEF KeepsCommand
    <2> SUFFICES ASSUME s.pc \in Stor PROVE PutsNow'
      BY <2>1 DEF Storing, PutsNow, Puts
    <2>2. PutsNow
      BY StoringNow
    <2> QED
      BY <2>1, <2>2 DEF PutsNow, Puts, Alive, Away
  <1>10. CASE ClientGetOpen
    <2>1. UNCHANGED s /\ c.pc \in {"get_open"}
      BY <1>10, GetOpenEffect
    <2>2. s.pc \notin Stor
      BY <2>1, StorFacts DEF Away
    <2> QED
      BY <2>1, <2>2 DEF Storing
  <1>11. CASE ClientGetRecv
    <2>1. UNCHANGED s /\ c.pc \in {"get_recv"}
      BY <1>11, GetRecvEffect
    <2>2. s.pc \notin Stor
      BY <2>1, StorFacts DEF Away
    <2> QED
      BY <2>1, <2>2 DEF Storing
  <1>12. CASE ClientGetReply
    <2>1. UNCHANGED s /\ c.pc \in {"get_reply", "get_abort"}
      BY <1>12, GetReplyEffect
    <2>2. s.pc \notin Stor
      BY <2>1, StorFacts DEF Away
    <2> QED
      BY <2>1, <2>2 DEF Storing
  <1>13. CASE ClientGetDecrypt \/ ClientGetUncomp
    <2>1. UNCHANGED s /\ c.pc \in {"get_process", "get_uncomp"}
      BY <1>13, GetProcessControl
    <2>2. s.pc \notin Stor
      BY <2>1, StorFacts DEF Away
    <2> QED
      BY <2>1, <2>2 DEF Storing
  <1>14. CASE ClientPutPrepare
    <2>1. /\ UNCHANGED <<s, dc2s, cfile>> /\ c.pc = "put_prepare"
          /\ c'.id = c.id /\ c'.dataDone = c.dataDone
          /\ \/ c'.pc = "put_skip"
             \/ /\ c'.pc = "put_send" /\ cfile[c.file] # None
                /\ c'.buf = Stream(cfile[c.file], c.key)
             \/ c'.pc = "prompt"
      BY <1>14, PutPrepareEffect DEF KeepsCommand
    <2> SUFFICES ASSUME s.pc \in Stor PROVE PutsNow'
      BY <2>1 DEF Storing, PutsNow, Puts
    <2>2. PutsNow
      BY StoringNow
    <2>3. /\ ~c.dataDone /\ s.id = c.id /\ s.file = c.file /\ Alive(c)
          /\ Len(s.key) = DHRounds
      BY <2>1, StorFacts DEF Busy, InPut, Alive
    <2>4. c.key = s.key
      BY <2>1, <2>3, SameKey DEF Rounds, InPut
    <2>5. Len(s.buf) + Len(dc2s) = 0
      BY <2>1, <2>2 DEF PutsNow, Puts
    <2>6. CASE c'.pc \in {"put_skip", "prompt"}
      BY <2>1, <2>2, <2>3, <2>5, <2>6 DEF PutsNow, Puts, Alive, Away
    <2>7. CASE /\ c'.pc = "put_send" /\ cfile[c.file] # None
               /\ c'.buf = Stream(cfile[c.file], c.key)
      <3> DEFINE v == cfile[s.file]
      <3>1. Part(c'.buf, v, s.key, 0) /\ Len(c'.buf) = Blocks /\ v # None
        BY <2>3, <2>4, <2>7, PartStream
      <3>2. 0 + Len(c'.buf) = Blocks
        BY <3>1, TransferAssumption
      <3> QED
        BY <2>1, <2>2, <2>3, <2>5, <2>7, <3>1, <3>2 DEF PutsNow, Puts, Alive, Away
    <2> QED
      BY <2>1, <2>6, <2>7
  <1>15. CASE ClientPutWrite
    <2>1. /\ UNCHANGED <<s, cfile>> /\ c.pc = "put_send" /\ c'.pc = "put_send"
          /\ ~c.dataDone
          /\ c'.id = c.id /\ c'.dataDone = c.dataDone /\ c.buf # <<>>
          /\ c'.buf = Tail(c.buf)
          /\ dc2s' = IF ServerDataClosed THEN dc2s ELSE Append(dc2s, Head(c.buf))
      BY <1>15, Locals DEF ClientPutWrite, ClientStates
    <2> SUFFICES ASSUME s.pc \in Stor PROVE PutsNow'
      BY <2>1 DEF Storing, PutsNow, Puts
    <2>2. PutsNow
      BY StoringNow
    <2>3. dc2s' = Append(dc2s, Head(c.buf))
      BY <2>1, StorFacts DEF ServerDataClosed
    <2> DEFINE v == cfile[s.file]
    <2>4. /\ Part(s.buf, v, s.key, 0) /\ Part(dc2s, v, s.key, Len(s.buf))
          /\ \A i \in 1..Len(s.buf) : s.buf[i].of = v
          /\ v # None /\ Len(s.buf) + Len(dc2s) + Len(c.buf) = Blocks
          /\ Part(c.buf, v, s.key, Len(s.buf) + Len(dc2s))
      BY <2>1, <2>2 DEF PutsNow, Puts, Alive
    <2>5. /\ c.buf \in Seq(Messages) /\ dc2s \in Seq(Messages) /\ Len(s.buf) \in Nat
          /\ v' = v
      BY <2>1, Fields
    <2>6. \A i \in 1..Len(dc2s) : dc2s[i].of = v
      BY <2>2 DEF PutsNow, Puts
    <2> HIDE DEF v
    <2>7. \A i \in 1..Len(c.buf) : c.buf[i].of = v
      BY <2>4, PartOf
    <2>8. /\ Len(dc2s) \in Nat /\ Len(c.buf) \in Nat \ {0}
          /\ Len(dc2s') = Len(dc2s) + 1 /\ Len(c'.buf) = Len(c.buf) - 1
      BY <2>1, <2>3, <2>5, MoveLens
    <2>9. /\ Part(dc2s', v, s.key, Len(s.buf))
          /\ Part(c'.buf, v, s.key, Len(s.buf) + Len(dc2s'))
      BY <2>1, <2>3, <2>4, <2>5, PartMove
    <2>10. \A i \in 1..Len(dc2s') : dc2s'[i].of = v
      BY <2>1, <2>3, <2>5, <2>6, <2>7, OfMove
    <2>11. Len(s.buf) + Len(dc2s') + Len(c'.buf) = Blocks
      <3>1. Len(s.buf) \in Nat /\ Len(s.buf) + Len(dc2s) + Len(c.buf) = Blocks
        BY <2>4, <2>5
      <3>2. Len(s.buf) + (Len(dc2s) + 1) + (Len(c.buf) - 1) = Len(s.buf) + Len(dc2s) + Len(c.buf)
        BY <2>8, <3>1, MoveSum
      <3> QED
        BY <2>8, <3>1, <3>2
    <2>12. Puts(s.buf, dc2s', c'.buf, v, s.key, "put_send", TRUE, FALSE, s.id = c.id)
      BY <2>4, <2>9, <2>10, <2>11 DEF Puts, Away
    <2> QED
      BY <2>1, <2>5, <2>12 DEF PutsNow, v, Alive, Puts
  <1>16. CASE ClientPutClose
    <2>1. /\ UNCHANGED <<s, dc2s, cfile>> /\ c.pc = "put_send" /\ ~c.dataDone
          /\ c.buf = <<>>
          /\ c'.pc \in {"put_send", "prompt"} /\ c'.dataDone = TRUE
      BY <1>16, PutCloseEffect
    <2> SUFFICES ASSUME s.pc \in Stor PROVE PutsNow'
      BY <2>1 DEF Storing, PutsNow, Puts
    <2>2. PutsNow
      BY StoringNow
    <2>3. Len(s.buf) + Len(dc2s) = Blocks
      <3>1. Len(s.buf) + Len(dc2s) + Len(c.buf) = Blocks
        BY <2>1, <2>2 DEF PutsNow, Puts
      <3>2. Len(s.buf) \in Nat /\ Len(dc2s) \in Nat /\ Len(c.buf) = 0
        BY <2>1, Lens, EmptySeq
      <3> QED
        BY <3>1, <3>2
    <2> QED
      BY <2>1, <2>2, <2>3 DEF PutsNow, Puts, Alive, Away
  <1>17. CASE ClientPutReply
    <2>1. /\ UNCHANGED <<s, dc2s, cfile>> /\ c.pc = "put_send" /\ c'.buf = c.buf
          /\ c'.pc \in {"put_send", "dead", "prompt"} /\ c'.dataDone = c.dataDone
          /\ c'.id = c.id
          /\ c.dataDone \/ Len(c.buf) = Blocks
      BY <1>17, PutReplyEffect DEF KeepsCommand
    <2> SUFFICES ASSUME s.pc \in Stor PROVE PutsNow'
      BY <2>1 DEF Storing, PutsNow, Puts
    <2>2. PutsNow
      BY StoringNow
    <2>3. Len(s.buf) + Len(dc2s) \in {0, Blocks}
      <3>1. s.id = c.id
        BY <2>1, StorFacts DEF Busy, InPut
      <3>2. CASE c.dataDone
        BY <2>1, <2>2, <3>1, <3>2 DEF PutsNow, Puts
      <3>3. CASE ~c.dataDone
        <4>1. Len(s.buf) + Len(dc2s) + Len(c.buf) = Blocks
          BY <2>1, <2>2, <3>3 DEF PutsNow, Puts
        <4>2. /\ Len(s.buf) \in Nat /\ Len(dc2s) \in Nat /\ Len(c.buf) = Blocks
              /\ Blocks \in Nat
          BY <2>1, <3>3, Lens, TransferAssumption
        <4> QED
          BY <4>1, <4>2
      <3> QED
        BY <3>2, <3>3
    <2> QED
      BY <2>1, <2>2, <2>3 DEF PutsNow, Puts, Alive, Away
  <1>18. CASE ClientSigpipe
    <2>1. UNCHANGED <<s, dc2s, cfile>> /\ c'.pc = "dead"
      BY <1>18, Locals DEF ClientSigpipe, Crash, ClientStates, data
    <2> SUFFICES ASSUME s.pc \in Stor PROVE PutsNow'
      BY <2>1 DEF Storing, PutsNow, Puts
    <2>2. PutsNow
      BY StoringNow
    <2> QED
      BY <2>1, <2>2 DEF PutsNow, Puts, Alive, Away
  <1>19. CASE ClientKilled
    <2>1. UNCHANGED <<s, dc2s, cfile>> /\ c'.pc = "dead"
      BY <1>19, Locals DEF ClientKilled, Crash, ClientStates
    <2> SUFFICES ASSUME s.pc \in Stor PROVE PutsNow'
      BY <2>1 DEF Storing, PutsNow, Puts
    <2>2. PutsNow
      BY StoringNow
    <2> QED
      BY <2>1, <2>2 DEF PutsNow, Puts, Alive, Away
  <1> QED
    BY <1>1, <1>2, <1>3, <1>4, <1>5, <1>6, <1>7, <1>8, <1>9, <1>10, <1>11, <1>12, <1>13,
       <1>14, <1>15, <1>16, <1>17, <1>18, <1>19 DEF UserStep, ClientStep

LEMMA StoringServerStep ==
    ASSUME TypeOK, Dispatched, PortInTurn, Numbered, Sockets, Paired, Agreed, Rounds,
           InTurn, Ends, NotBefore, Storing, ServerStep \/ ServerSigpipe \/ ServerKilled
    PROVE  Storing'
  <1>1. CASE ServerQuit
    <2>1. s'.pc \in {"exit"}
      BY <1>1, ServerQuitEffect
    <2> QED
      BY <2>1 DEF Storing, Stor
  <1>2. CASE ServerPort
    <2>1. s'.pc \in {"setup"}
      BY <1>2, ServerPortEffect
    <2> QED
      BY <2>1 DEF Storing, Stor
  <1>3. CASE ServerGarbled
    <2>1. s'.pc \in {"dead"}
      BY <1>3, Locals DEF ServerGarbled, ServerStates, Crash
    <2> QED
      BY <2>1 DEF Storing, Stor
  <1>4. CASE ServerConnect
    <2>1. s'.pc \in {"cmd", "exit"}
      BY <1>4, ConnectEffect
    <2> QED
      BY <2>1 DEF Storing, Stor
  <1>5. CASE ServerCommand
    <2>1. s'.pc \in {"list", "dh", "close"}
      BY <1>5, CommandEffect
    <2> QED
      BY <2>1 DEF Storing, Stor
  <1>6. CASE ServerMerged
    <2>1. s'.pc \in {"close"}
      BY <1>6, ServerMergedEffect
    <2> QED
      BY <2>1 DEF Storing, Stor
  <1>7. CASE ServerClose
    <2>1. s'.pc \in {"idle"}
      BY <1>7, Locals DEF ServerClose, ServerStates
    <2> QED
      BY <2>1 DEF Storing, Stor
  <1>8. CASE ServerList
    <2>1. s'.pc \in {"close"}
      BY <1>8, ListEffect
    <2> QED
      BY <2>1 DEF Storing, Stor
  <1>9. CASE ServerDH
    <2>1. /\ UNCHANGED <<c, cfile>> /\ s.pc = "dh" /\ s'.buf = s.buf
          /\ dc2s' = IF dc2s = <<>> THEN <<>> ELSE Tail(dc2s)
      BY <1>9, ServerDHEffect
    <2>2. c.pc \in {"dh_send", "dh_recv", "dead"} /\ s.buf = <<>> /\ Len(dc2s) <= 1
      BY <2>1 DEF Paired, Rounds, InTurn, InDH
    <2>3. dc2s' = <<>>
      BY <2>1, <2>2, Fields
    <2> DEFINE e == <<>>
    <2>4. s'.buf = e /\ dc2s' = e
      BY <2>1, <2>2, <2>3
    <2>5. /\ Len(e) + Len(e) = 0 /\ ~(Len(e) + Len(e) > 0)
          /\ \A i \in 1..Len(e) : FALSE
      BY EmptySeq
    <2>6. \A v, key, n : Part(e, v, key, n)
      BY PartEmpty
    <2>7. c'.pc \in {"dh_send", "dh_recv", "dead"}
      BY <2>1, <2>2
    <2> HIDE DEF e
    <2> SUFFICES PutsNow'
      BY DEF Storing, PutsNow, Puts
    <2> QED
      BY <2>4, <2>5, <2>6, <2>7 DEF PutsNow, Puts, Away
  <1>10. CASE ServerRetrOpen
    <2>1. s'.pc \in {"close", "retr_send"}
      BY <1>10, RetrOpenEffect
    <2> QED
      BY <2>1 DEF Storing, Stor
  <1>11. CASE ServerRetrWrite
    <2>1. s'.pc \in {"retr_send"}
      BY <1>11, Locals DEF ServerRetrWrite, ServerStates
    <2> QED
      BY <2>1 DEF Storing, Stor
  <1>12. CASE ServerRetrDone
    <2>1. s'.pc \in {"close"}
      BY <1>12, Locals DEF ServerRetrDone, ServerStates, Leave
    <2> QED
      BY <2>1 DEF Storing, Stor
  <1>13. CASE ServerStorOpen
    <2>1. /\ UNCHANGED <<c, dc2s, cfile>> /\ s.pc \in Stor /\ s'.key = s.key
          /\ s'.buf = s.buf
          /\ s'.id = s.id /\ s'.file = s.file
      BY <1>13, Locals DEF ServerStorOpen, Leave, ServerStates, data, Stor
    <2> SUFFICES PutsNow'
      BY DEF Storing, PutsNow, Puts
    <2>2. PutsNow
      BY <2>1, StoringNow
    <2> QED
      BY <2>1, <2>2 DEF PutsNow, Puts, Alive
  <1>14. CASE ServerStorRecv
    <2>1. /\ UNCHANGED <<c, cfile>> /\ s.pc = "stor_recv" /\ dc2s # <<>>
          /\ s'.key = s.key /\ s'.id = s.id /\ s'.file = s.file
          /\ s'.buf = Append(s.buf, Head(dc2s)) /\ dc2s' = Tail(dc2s)
      BY <1>14, Locals DEF ServerStorRecv, ServerStates
    <2> SUFFICES PutsNow'
      BY DEF Storing, PutsNow, Puts
    <2>2. PutsNow
      BY <2>1, StoringNow DEF Stor
    <2>3. s.buf \in Seq(Messages) /\ dc2s \in Seq(Messages)
      BY Fields
    <2> DEFINE v == cfile[s.file]
    <2>4. v' = v
      BY <2>1
    <2>5. /\ Alive(c) => Part(s.buf, v, s.key, 0) /\ Part(dc2s, v, s.key, Len(s.buf))
          /\ \A i \in 1..Len(s.buf) : s.buf[i].of = v
          /\ \A i \in 1..Len(dc2s) : dc2s[i].of = v
      BY <2>2 DEF PutsNow, Puts
    <2> HIDE DEF v
    <2>6. /\ Len(s.buf) \in Nat /\ Len(dc2s) \in Nat \ {0}
          /\ Len(s'.buf) = Len(s.buf) + 1 /\ Len(dc2s') = Len(dc2s) - 1
      BY <2>1, <2>3, MoveLens
    <2>7. Len(s'.buf) + Len(dc2s') = Len(s.buf) + Len(dc2s)
      BY <2>6
    <2>8. Alive(c) => Part(s'.buf, v, s.key, 0) /\ Part(dc2s', v, s.key, Len(s'.buf))
      <3> SUFFICES ASSUME Alive(c)
                   PROVE  Part(s'.buf, v, s.key, 0) /\ Part(dc2s', v, s.key, Len(s'.buf))
        OBVIOUS
      <3>1. 0 + Len(s.buf) = Len(s.buf) /\ 0 + Len(s'.buf) = Len(s'.buf)
        BY <2>6
      <3>2. Part(s.buf, v, s.key, 0) /\ Part(dc2s, v, s.key, 0 + Len(s.buf))
        BY <2>5, <3>1
      <3>3. Part(s'.buf, v, s.key, 0) /\ Part(dc2s', v, s.key, 0 + Len(s'.buf))
        BY <2>1, <2>3, <3>2, PartMove
      <3> QED
        BY <3>1, <3>3
    <2>9. /\ \A i \in 1..Len(s'.buf) : s'.buf[i].of = v
          /\ \A i \in 1..Len(dc2s') : dc2s'[i].of = v
      BY <2>1, <2>3, <2>5, OfMove
    <2> DEFINE n == Len(s.buf) + Len(dc2s)
    <2>10. /\ n > 0 => v # None
           /\ c.pc \in {"dh_recv", "put_prepare", "put_skip"} => n = 0
           /\ c.pc = "put_send" /\ ~c.dataDone =>
                 n + Len(c.buf) = Blocks /\ v # None /\ Part(c.buf, v, s.key, n)
           /\ c.pc \in Away \cup {"put_send"} /\ s.id = c.id /\ c.dataDone => n = Blocks
           /\ c.pc \in Away => n \in {0, Blocks}
      BY <2>2 DEF PutsNow, Puts, v
    <2>11. Len(s'.buf) + Len(dc2s') = n
      BY <2>7
    <2> HIDE DEF n
    <2>12. Puts(s'.buf, dc2s', c.buf, v, s.key, c.pc, Alive(c), c.dataDone, s.id = c.id)
      BY <2>8, <2>9, <2>10, <2>11 DEF Puts
    <2> QED
      BY <2>1, <2>4, <2>12 DEF PutsNow, v, Alive
  <1>15. CASE ServerStorEof
    <2>1. /\ UNCHANGED <<c, dc2s, cfile>> /\ s.pc \in Stor /\ s'.key = s.key
          /\ s'.buf = s.buf
          /\ s'.id = s.id /\ s'.file = s.file
      BY <1>15, Locals DEF ServerStorEof, ServerStates, data, Stor
    <2> SUFFICES PutsNow'
      BY DEF Storing, PutsNow, Puts
    <2>2. PutsNow
      BY <2>1, StoringNow
    <2> QED
      BY <2>1, <2>2 DEF PutsNow, Puts, Alive
  <1>16. CASE ServerStorDecrypt \/ ServerStorUncomp
    <2>1. /\ UNCHANGED <<c, dc2s>> /\ s.pc \in Stor /\ s'.key = s.key
          /\ s'.buf = s.buf
          /\ s'.id = s.id /\ s'.file = s.file
      BY <1>16, StorProcessControl DEF KeepsRequest, Stor
    <2>2. UNCHANGED cfile
      BY <1>16, StorProcessEffect
    <2> SUFFICES PutsNow'
      BY DEF Storing, PutsNow, Puts
    <2>3. PutsNow
      BY <2>1, StoringNow
    <2> QED
      BY <2>1, <2>2, <2>3 DEF PutsNow, Puts, Alive
  <1>17. CASE ServerSigpipe
    <2>1. s'.pc \in {"dead"}
      BY <1>17, Locals DEF ServerSigpipe, ServerStates, Crash
    <2> QED
      BY <2>1 DEF Storing, Stor
  <1>18. CASE ServerKilled
    <2>1. s'.pc \in {"dead"}
      BY <1>18, Locals DEF ServerKilled, ServerStates, Crash
    <2> QED
      BY <2>1 DEF Storing, Stor
  <1> QED
    BY <1>1, <1>2, <1>3, <1>4, <1>5, <1>6, <1>7, <1>8, <1>9, <1>10, <1>11, <1>12, <1>13,
       <1>14, <1>15, <1>16, <1>17, <1>18 DEF ServerStep

-----------------------------------------------------------------------------
LEMMA FileInvInit == Init => FileInv
  BY DEF Init, FileInv, Sending, Storing, InGet, Stor

LEMMA FileInvStep == TypeInv /\ LinkInv /\ FileInv /\ [Next]_vars => FileInv'
  <1> SUFFICES ASSUME TypeInv, LinkInv, FileInv, [Next]_vars PROVE FileInv'
    OBVIOUS
  <1>1. TypeOK /\ Dispatched /\ PortInTurn
    BY DEF TypeInv
  <1>2. /\ Numbered /\ Sockets /\ Paired /\ Agreed /\ Rounds /\ InTurn
        /\ Ends /\ NotBefore
    BY DEF LinkInv
  <1>3. Sending /\ Storing
    BY DEF FileInv
  <1>4. CASE UserStep \/ ClientStep \/ ClientSigpipe \/ ClientKilled
    <2>1. Sending' /\ Storing'
      BY <1>1, <1>2, <1>3, <1>4, SendingClientStep, StoringClientStep, Zenon
    <2> QED
      BY <2>1 DEF FileInv
  <1>5. CASE ServerStep \/ ServerSigpipe \/ ServerKilled
    <2>1. Sending' /\ Storing'
      BY <1>1, <1>2, <1>3, <1>5, SendingServerStep, StoringServerStep, Zenon
    <2> QED
      BY <2>1 DEF FileInv
  <1>6. CASE UNCHANGED vars
    <2>1. Got' = Got /\ GetsNow' = GetsNow
      BY <1>6 DEF vars, Got, GetsNow, Gets, Part, Arriving, Answered
    <2>2. PutsNow' = PutsNow
      BY <1>6 DEF vars, PutsNow, Puts, Part, Alive
    <2>3. Sending'
      BY <1>3, <2>1 DEF Sending, Got, GetsNow, Gets
    <2>4. Storing'
      BY <1>3, <1>6, <2>2 DEF vars, Storing, PutsNow, Puts
    <2> QED
      BY <2>3, <2>4 DEF FileInv
  <1> QED
    BY <1>4, <1>5, <1>6 DEF Next, SignalStep

(* What has been received, what is in flight and what is still to be sent  *)
(* make up the file that was asked for.                                    *)
THEOREM FileInvHolds == Spec => [](TypeInv /\ LinkInv /\ FileInv)
  <1>1. Init => FileInv
    BY FileInvInit
  <1>2. TypeInv /\ LinkInv /\ FileInv /\ [Next]_vars => FileInv'
    BY FileInvStep
  <1> QED
    BY <1>1, <1>2, LinkInvHolds, PTL DEF Spec

(* All of the inductive invariant: the two programs stay in step through   *)
(* every order of their handlers' steps, every failing call and every kill *)
(* (main, do_get, do_put, do_ls; do_retr, do_stor, do_list).               *)
THEOREM SessionHolds == Spec => []SessionInv
  <1>1. TypeInv /\ LinkInv /\ FileInv /\ OneReply /\ TempsOf => SessionInv
    BY DEF SessionInv
  <1> QED
    BY <1>1, FileInvHolds, OneReplyHolds, TempsOfHolds, PTL

-----------------------------------------------------------------------------
(* A client about to process what it got, and a whole file in its buffer.  *)
LEMMA Received200 ==
    ASSUME TypeInv, LinkInv, c.pc = "get_process", c.reply = Reply(200, c.id)
    PROVE  Got /\ Answered
  <1>1. TypeOK /\ Dispatched /\ Numbered /\ NotBefore
    BY DEF TypeInv, LinkInv
  <1>2. Answered /\ c.op = "get" /\ c.pc \in InGet
    BY <1>1 DEF Answered, Dispatched, InGet
  <1>3. c.reply.code = 200 /\ c.reply.id = c.id
    BY ReplyCode
  <1>4. s.id = c.id
    BY <1>1, <1>3, Locals DEF NotBefore, Numbered
  <1>5. Len(s.key) = DHRounds
    BY <1>1, <1>2, <1>4 DEF NotBefore
  <1> QED
    BY <1>2, <1>4, <1>5 DEF Got

LEMMA GotWhole ==
    ASSUME TypeInv, LinkInv, FileInv, c.pc \in {"get_process", "get_uncomp"}, Got,
           Len(c.buf) = Blocks
    PROVE  sfile[c.file] \in Values /\ c.buf = Stream(sfile[c.file], c.key)
  <1>1. TypeOK /\ Dispatched /\ Agreed /\ Rounds /\ Sending
    BY DEF TypeInv, LinkInv, FileInv
  <1>2. Part(c.buf, sfile[c.file], s.key, 0) /\ sfile[c.file] # None
    <2>1. GetsNow
      BY <1>1, SendingNow
    <2>2. Len(Arriving) \in Nat /\ Len(c.buf) > 0
      BY <1>1, ArrivingType, Lens, TransferAssumption
    <2>3. Len(c.buf) + Len(Arriving) > 0
      BY <1>1, <2>2, Lens
    <2> QED
      BY <2>1, <2>3 DEF GetsNow, Gets
  <1>3. sfile[c.file] \in Values
    BY <1>1, <1>2, Fields DEF Dispatched, Busy, InGet, Stores
  <1>4. c.key = s.key
    BY <1>1, SameKey DEF Rounds, InGet, Alive, Got
  <1> QED
    BY <1>1, <1>2, <1>3, <1>4, Fields, PartWhole

(* A client whose get was answered with 200 has the server's whole file,   *)
(* under its own key, when it starts to decrypt it (do_get), even if the   *)
(* child died right after the reply.                                       *)
THEOREM GotWholeFile == Spec => []GetWhole
  <1>1. TypeInv /\ LinkInv /\ FileInv => GetWhole
    <2> SUFFICES ASSUME TypeInv, LinkInv, FileInv, c.pc = "get_process",
                        c.reply = Reply(200, c.id)
                 PROVE  Whole(c.buf, c.key)
      BY DEF GetWhole
    <2>1. Got /\ Answered
      BY Received200
    <2>2. TypeOK /\ Ends /\ Sockets /\ Sending
      BY DEF TypeInv, LinkInv, FileInv
    <2>3. Arriving = <<>> /\ s.pc # "retr_send"
      BY <2>2 DEF Ends, Arriving, Sockets, Serving, Retr
    <2>4. Len(Arriving) = 0
      BY <2>3
    <2>5. Len(c.buf) + Len(Arriving) = Blocks
      BY <2>1, <2>2, <2>3, SendingNow DEF GetsNow, Gets
    <2>6. Len(c.buf) = Blocks
      BY <2>2, <2>4, <2>5, Lens
    <2> QED
      BY <2>1, <2>6, GotWhole DEF Whole
  <1> QED
    BY <1>1, FileInvHolds, PTL

LEMMA PutWholeBuf ==
    ASSUME TypeInv, LinkInv, FileInv, s.pc \in {"stor_process", "stor_uncomp"},
           Alive(c), Len(s.buf) = Blocks
    PROVE  cfile[s.file] \in Values /\ s.buf = Stream(cfile[s.file], s.key)
  <1>1. TypeOK /\ Dispatched /\ Ends /\ Storing
    BY DEF TypeInv, LinkInv, FileInv
  <1>2. PutsNow
    BY <1>1, StoringNow DEF Stor
  <1>3. dc2s = <<>> /\ Len(s.buf) > 0
    BY <1>1, TransferAssumption DEF Ends
  <1>4. Len(s.buf) + Len(dc2s) > 0
    BY <1>1, <1>3, Lens
  <1>5. Part(s.buf, cfile[s.file], s.key, 0) /\ cfile[s.file] # None
    BY <1>2, <1>4 DEF PutsNow, Puts
  <1>6. cfile[s.file] \in Values
    BY <1>1, <1>5, Fields DEF Dispatched, Serving, Stor, Stores
  <1> QED
    BY <1>1, <1>5, <1>6, Fields, PartWhole

(* A child at the end of a put, by what its client did.                    *)
LEMMA PutEnds ==
    ASSUME TypeInv, LinkInv, FileInv, s.pc \in {"stor_process", "stor_uncomp"}, Alive(c)
    PROVE  /\ Len(s.buf) \in {0, Blocks}
           /\ c.dataDone /\ s.id = c.id => Len(s.buf) = Blocks
  <1>1. /\ TypeOK /\ Dispatched /\ PortInTurn /\ Numbered /\ Sockets /\ Paired /\ Rounds
        /\ InTurn /\ Ends /\ Storing
    BY DEF TypeInv, LinkInv, FileInv
  <1>2. PutsNow
    BY <1>1, StoringNow DEF Stor
  <1>3. dc2s = <<>> /\ ~c.open
    BY <1>1 DEF Ends, ClientDataClosed
  <1>4. Len(dc2s) = 0
    BY <1>3
  <1> DEFINE n == Len(s.buf) + Len(dc2s)
  <1>5. n = Len(s.buf)
    BY <1>1, <1>4, Lens
  <1>6. /\ c.pc \in {"dh_recv", "put_prepare", "put_skip", "put_send", "dead"} \cup Away
        /\ c.pc \in Busy => s.id = c.id
    BY <1>1, StorFacts DEF Stor
  <1>7. c.pc \in Away \cup {"put_send"} /\ (c.pc = "put_send" => c.dataDone /\ s.id = c.id)
    BY <1>1, <1>3, <1>6 DEF Sockets, Busy, InDH, InPut, Alive
  <1>8. /\ c.pc \in Away => n \in {0, Blocks}
        /\ c.pc \in Away \cup {"put_send"} /\ s.id = c.id /\ c.dataDone => n = Blocks
    BY <1>2 DEF PutsNow, Puts
  <1> HIDE DEF n
  <1> QED
    BY <1>5, <1>7, <1>8

(* A child that is done with the data of a put whose client ran to its end *)
(* has received the client's whole file (do_put and do_stor).              *)
THEOREM PutWholeFile == Spec => []PutWhole
  <1>1. TypeInv /\ LinkInv /\ FileInv => PutWhole
    BY PutEnds, PutWholeBuf DEF PutWhole, Whole, Alive
  <1> QED
    BY <1>1, FileInvHolds, PTL

-----------------------------------------------------------------------------
(* The two directories.                                                    *)
LEMMA FilesKept ==
    ASSUME [Next]_vars
    PROVE  /\ faults' = faults
           /\ \/ ClientGetDecrypt \/ ClientGetUncomp
              \/ ServerStorDecrypt \/ ServerStorUncomp
              \/ UNCHANGED <<cfile, sfile>>
  <1>1. faults' = faults
    BY FaultsKept
  <1>2. CASE UserStep
    BY <1>1, <1>2 DEF UserStep, UserQuit, UserCommand
  <1>3. CASE ClientStep
    BY <1>1, <1>3 DEF ClientStep, ClientAccept, ClientSkipReply, ClientQuitReply,
       ClientLsControl, ClientLsData, ClientDHSend, ClientDHRecv, ClientGetOpen,
       ClientGetRecv, ClientGetReply, ClientPutPrepare, ClientPutWrite,
       ClientPutClose, ClientPutReply
  <1>4. CASE ServerStep
    BY <1>1, <1>4 DEF ServerStep, ServerQuit, ServerPort, ServerGarbled,
       ServerConnect, ServerCommand, ServerMerged, ServerClose, ServerList, ServerDH,
       ServerRetrOpen, ServerRetrWrite, ServerRetrDone, ServerStorOpen,
       ServerStorRecv, ServerStorEof
  <1>5. CASE SignalStep
    BY <1>1, <1>5 DEF SignalStep, ClientSigpipe, ClientKilled, ServerSigpipe,
       ServerKilled
  <1> QED
    BY <1>1, <1>2, <1>3, <1>4, <1>5 DEF Next, vars

(* A step of one program leaves the other alone; it starts or ends the     *)
(* writing of a copy only in process_received_file, or by being killed.    *)
LEMMA ClientWriting ==
    ASSUME TypeOK, Dispatched, UserStep \/ ClientStep \/ ClientSigpipe \/ ClientKilled
    PROVE  /\ UNCHANGED s
           /\ \/ ClientGetDecrypt \/ ClientGetUncomp
              \/ "crash" \in faults /\ c'.pc = "dead" /\ UNCHANGED <<cfile, sfile>>
              \/ c.pc # "get_uncomp" /\ c'.pc # "get_uncomp"
  <1>1. ASSUME NEW op \in Ops, NEW f \in Files, UserCommand(op, f)
        PROVE  UNCHANGED s /\ c.pc # "get_uncomp" /\ c'.pc # "get_uncomp"
    BY <1>1, UserCommandEffect
  <1>2. CASE UserQuit
    <2>1. UNCHANGED s /\ c.pc # "get_uncomp" /\ c'.pc \in {"quit"}
      BY <1>2, UserQuitEffect
    <2> QED
      BY <2>1
  <1>3. CASE ClientAccept
    <2>1. UNCHANGED s /\ c.pc # "get_uncomp" /\ c'.pc \in {"ls", "skip", "dh_send"}
      BY <1>3, AcceptEffect
    <2> QED
      BY <2>1
  <1>4. CASE ClientSkipReply
    <2>1. UNCHANGED s /\ c.pc # "get_uncomp" /\ c'.pc \in {"prompt"}
      BY <1>4, Locals DEF ClientSkipReply, ClientStates, Return
    <2> QED
      BY <2>1
  <1>5. CASE ClientQuitReply
    <2>1. UNCHANGED s /\ c.pc # "get_uncomp" /\ c'.pc \in {"done"}
      BY <1>5, Locals DEF ClientQuitReply, ClientStates
    <2> QED
      BY <2>1
  <1>6. CASE ClientLsControl
    <2>1. UNCHANGED s /\ c.pc # "get_uncomp" /\ c'.pc \in {"ls", "dead", "prompt"}
      BY <1>6, LsControlEffect
    <2> QED
      BY <2>1
  <1>7. CASE ClientLsData
    <2>1. UNCHANGED s /\ c.pc # "get_uncomp" /\ c'.pc \in {"ls", "prompt"}
      BY <1>7, LsDataEffect
    <2> QED
      BY <2>1
  <1>8. CASE ClientDHSend
    <2>1. UNCHANGED s /\ c.pc # "get_uncomp" /\ c'.pc \in {"dh_recv"}
      BY <1>8, Locals DEF ClientDHSend, ClientStates
    <2> QED
      BY <2>1
  <1>9. CASE ClientDHRecv
    <2>1. UNCHANGED s /\ c.pc # "get_uncomp" /\ c'.pc \in {"dh_send", "get_open", "put_prepare"}
      BY <1>9, DHRecvEffect
    <2> QED
      BY <2>1
  <1>10. CASE ClientGetOpen
    <2>1. UNCHANGED s /\ c.pc # "get_uncomp" /\ c'.pc \in {"get_recv", "prompt"}
      BY <1>10, GetOpenEffect
    <2> QED
      BY <2>1
  <1>11. CASE ClientGetRecv
    <2>1. UNCHANGED s /\ c.pc # "get_uncomp" /\ c'.pc \in {"get_recv", "get_reply", "get_abort"}
      BY <1>11, GetRecvEffect
    <2> QED
      BY <2>1
  <1>12. CASE ClientGetReply
    <2>1. UNCHANGED s /\ c.pc # "get_uncomp" /\ c'.pc \in {"get_process", "prompt"}
      BY <1>12, GetReplyEffect
    <2> QED
      BY <2>1
  <1>13. CASE ClientPutPrepare
    <2>1. UNCHANGED s /\ c.pc # "get_uncomp" /\ c'.pc \in {"put_skip", "put_send", "prompt"}
      BY <1>13, PutPrepareEffect
    <2> QED
      BY <2>1
  <1>14. CASE ClientPutWrite
    <2>1. UNCHANGED s /\ c.pc # "get_uncomp" /\ c'.pc \in {"put_send"}
      BY <1>14, Locals DEF ClientPutWrite, ClientStates
    <2> QED
      BY <2>1
  <1>15. CASE ClientPutClose
    <2>1. UNCHANGED s /\ c.pc # "get_uncomp" /\ c'.pc \in {"put_send", "prompt"}
      BY <1>15, PutCloseEffect
    <2> QED
      BY <2>1
  <1>16. CASE ClientPutReply
    <2>1. UNCHANGED s /\ c.pc # "get_uncomp" /\ c'.pc \in {"put_send", "dead", "prompt"}
      BY <1>16, PutReplyEffect
    <2> QED
      BY <2>1
  <1>17. CASE ClientSigpipe
    <2>1. UNCHANGED s /\ c.pc # "get_uncomp" /\ c'.pc \in {"dead"}
      BY <1>17, Locals DEF ClientSigpipe, ClientStates, Crash
    <2> QED
      BY <2>1
  <1>18. CASE ClientKilled
    <2>1. "crash" \in faults /\ UNCHANGED <<s, cfile, sfile>> /\ c'.pc = "dead"
      BY <1>18, Locals DEF ClientKilled, ClientStates, Crash
    <2> QED
      BY <2>1
  <1>19. CASE ClientGetDecrypt \/ ClientGetUncomp
    BY <1>19, GetProcessControl
  <1> QED
    BY <1>1, <1>2, <1>3, <1>4, <1>5, <1>6, <1>7, <1>8, <1>9, <1>10,
       <1>11, <1>12, <1>13, <1>14, <1>15, <1>16, <1>17, <1>18, <1>19
       DEF UserStep, ClientStep

LEMMA ServerWriting ==
    ASSUME TypeOK, Dispatched, PortInTurn, ServerStep \/ ServerSigpipe \/ ServerKilled
    PROVE  /\ UNCHANGED c
           /\ \/ ServerStorDecrypt \/ ServerStorUncomp
              \/ "crash" \in faults /\ s'.pc = "dead" /\ UNCHANGED <<cfile, sfile>>
              \/ s.pc # "stor_uncomp" /\ s'.pc # "stor_uncomp"
  <1>1. CASE ServerQuit
    <2>1. UNCHANGED c /\ s.pc # "stor_uncomp" /\ s'.pc \in {"exit"}
      BY <1>1, ServerQuitEffect
    <2> QED
      BY <2>1
  <1>2. CASE ServerPort
    <2>1. UNCHANGED c /\ s.pc # "stor_uncomp" /\ s'.pc \in {"setup"}
      BY <1>2, ServerPortEffect
    <2> QED
      BY <2>1
  <1>3. CASE ServerGarbled
    <2>1. UNCHANGED c /\ s.pc # "stor_uncomp" /\ s'.pc \in {"dead"}
      BY <1>3, Locals DEF ServerGarbled, ServerStates, Crash
    <2> QED
      BY <2>1
  <1>4. CASE ServerConnect
    <2>1. UNCHANGED c /\ s.pc # "stor_uncomp" /\ s'.pc \in {"cmd", "exit"}
      BY <1>4, ConnectEffect
    <2> QED
      BY <2>1
  <1>5. CASE ServerCommand
    <2>1. UNCHANGED c /\ s.pc # "stor_uncomp" /\ s'.pc \in {"list", "dh", "close"}
      BY <1>5, CommandEffect
    <2> QED
      BY <2>1
  <1>6. CASE ServerMerged
    <2>1. UNCHANGED c /\ s.pc # "stor_uncomp" /\ s'.pc \in {"close"}
      BY <1>6, ServerMergedEffect
    <2> QED
      BY <2>1
  <1>7. CASE ServerClose
    <2>1. UNCHANGED c /\ s.pc # "stor_uncomp" /\ s'.pc \in {"idle"}
      BY <1>7, Locals DEF ServerClose, ServerStates
    <2> QED
      BY <2>1
  <1>8. CASE ServerList
    <2>1. UNCHANGED c /\ s.pc # "stor_uncomp" /\ s'.pc \in {"close"}
      BY <1>8, ListEffect
    <2> QED
      BY <2>1
  <1>9. CASE ServerDH
    <2>1. UNCHANGED c /\ s.pc # "stor_uncomp" /\ s'.pc \in {"dh", "retr_open", "stor_open"}
      BY <1>9, ServerDHEffect
    <2> QED
      BY <2>1
  <1>10. CASE ServerRetrOpen
    <2>1. UNCHANGED c /\ s.pc # "stor_uncomp" /\ s'.pc \in {"close", "retr_send"}
      BY <1>10, RetrOpenEffect
    <2> QED
      BY <2>1
  <1>11. CASE ServerRetrWrite
    <2>1. UNCHANGED c /\ s.pc # "stor_uncomp" /\ s'.pc \in {"retr_send"}
      BY <1>11, Locals DEF ServerRetrWrite, ServerStates
    <2> QED
      BY <2>1
  <1>12. CASE ServerRetrDone
    <2>1. UNCHANGED c /\ s.pc # "stor_uncomp" /\ s'.pc \in {"close"}
      BY <1>12, Locals DEF ServerRetrDone, ServerStates, Leave
    <2> QED
      BY <2>1
  <1>13. CASE ServerStorOpen
    <2>1. UNCHANGED c /\ s.pc # "stor_uncomp" /\ s'.pc \in {"stor_recv", "close"}
      BY <1>13, Locals DEF ServerStorOpen, ServerStates, Leave
    <2> QED
      BY <2>1
  <1>14. CASE ServerStorRecv
    <2>1. UNCHANGED c /\ s.pc # "stor_uncomp" /\ s'.pc \in {"stor_recv"}
      BY <1>14, Locals DEF ServerStorRecv, ServerStates
    <2> QED
      BY <2>1
  <1>15. CASE ServerStorEof
    <2>1. UNCHANGED c /\ s.pc # "stor_uncomp" /\ s'.pc \in {"stor_process"}
      BY <1>15, Locals DEF ServerStorEof, ServerStates
    <2> QED
      BY <2>1
  <1>16. CASE ServerSigpipe
    <2>1. UNCHANGED c /\ s.pc # "stor_uncomp" /\ s'.pc \in {"dead"}
      BY <1>16, Locals DEF ServerSigpipe, ServerStates, Crash
    <2> QED
      BY <2>1
  <1>17. CASE ServerKilled
    <2>1. "crash" \in faults /\ UNCHANGED <<c, cfile, sfile>> /\ s'.pc = "dead"
      BY <1>17, Locals DEF ServerKilled, ServerStates, Crash
    <2> QED
      BY <2>1
  <1>18. CASE ServerStorDecrypt \/ ServerStorUncomp
    BY <1>18, StorProcessControl
  <1> QED
    BY <1>1, <1>2, <1>3, <1>4, <1>5, <1>6, <1>7, <1>8, <1>9, <1>10,
       <1>11, <1>12, <1>13, <1>14, <1>15, <1>16, <1>17, <1>18
       DEF ServerStep

(* What a child that processes a file has received, and a client.          *)
LEMMA StreamHead ==
    ASSUME NEW q \in Seq(Messages), NEW v, NEW key, q = Stream(v, key)
    PROVE  1 \in 1..Len(q) /\ q[1].of = v /\ q # <<>> /\ Len(q) > 0
  <1>1. Len(q) = Blocks /\ Part(q, v, key, 0)
    BY PartStream
  <1>2. 1 \in 1..Len(q) /\ Len(q) > 0
    BY <1>1, TransferAssumption
  <1>3. q # <<>>
    BY <1>2
  <1> QED
    BY <1>1, <1>2, <1>3, PartOf

LEMMA StorWholeOr ==
    ASSUME TypeInv, LinkInv, FileInv, s.pc \in {"stor_process", "stor_uncomp"},
           s.buf # <<>>
    PROVE  \/ cfile[s.file] \in Values /\ s.buf = Stream(cfile[s.file], s.key)
           \/ c.pc = "dead" /\ "crash" \in faults
  <1>1. TypeOK /\ Sockets
    BY DEF TypeInv, LinkInv
  <1>2. CASE Alive(c)
    <2>1. Len(s.buf) \in {0, Blocks}
      BY <1>2, PutEnds
    <2>2. Len(s.buf) # 0
      BY <1>1, Fields, EmptyFacts
    <2> QED
      BY <1>2, <2>1, <2>2, PutWholeBuf
  <1>3. CASE ~Alive(c)
    BY <1>1, <1>3 DEF Sockets, Serving, Stor, Alive
  <1> QED
    BY <1>2, <1>3

LEMMA StorSource ==
    ASSUME TypeInv, LinkInv, FileInv, s.pc \in {"stor_process", "stor_uncomp"},
           NEW v \in Values, s.buf = Stream(v, s.key)
    PROVE  v = cfile[s.file] /\ v # None
  <1>1. TypeOK /\ Storing
    BY DEF TypeInv, FileInv
  <1>2. 1 \in 1..Len(s.buf) /\ s.buf[1].of = v
    BY <1>1, Fields, StreamHead
  <1>3. PutsNow
    BY <1>1, StoringNow DEF Stor
  <1>4. \A i \in 1..Len(s.buf) : s.buf[i].of = cfile[s.file]
    BY <1>3 DEF PutsNow, Puts
  <1> QED
    BY <1>2, <1>4, TransferAssumption

LEMMA GetIsGot ==
    ASSUME TypeInv, LinkInv, FileInv, c.pc \in {"get_process", "get_uncomp"},
           c.buf # <<>>
    PROVE  /\ Got /\ GetsNow /\ Arriving = <<>> /\ Len(Arriving) = 0
           /\ s.pc \in {"dead", "close", "idle"}
  <1>1. /\ TypeOK /\ Dispatched /\ PortInTurn /\ Numbered /\ Sockets /\ Paired /\ Agreed
        /\ Rounds /\ InTurn /\ Ends /\ Sending
    BY DEF TypeInv, LinkInv, FileInv
  <1>2. c.file \in Files /\ c.op = "get" /\ c.pc \in Busy
    BY <1>1 DEF Dispatched, Busy, InGet
  <1>3. ds2c = <<>> /\ ~s.open /\ Arriving = <<>> /\ Len(Arriving) = 0
    BY <1>1 DEF Ends, Arriving
  <1>4. s.pc \in {"dead", "close", "idle"} /\ (s.pc # "dead" => s.id = c.id)
    BY <1>1, <1>2, <1>3 DEF Paired, Sockets, InDH
  <1>5. s.pc # "dead" => Len(s.key) = DHRounds
    <2> SUFFICES ASSUME s.pc # "dead" PROVE Len(s.key) = DHRounds
      OBVIOUS
    <2>1. s.verb = "RETR"
      BY <1>1, <1>2, <1>4, VerbFacts DEF Numbered
    <2> QED
      BY <1>1, <1>4, <2>1 DEF Rounds, Alive
  <1>6. s.pc = "dead" => ~(Len(s.key) < DHRounds) /\ s.id = c.id
    BY <1>1, <1>2 DEF InTurn, Alive
  <1>7. Len(s.key) <= DHRounds
    BY <1>1 DEF Rounds
  <1>8. Len(s.key) = DHRounds /\ s.id = c.id
    BY <1>1, <1>4, <1>5, <1>6, <1>7, Lens, TransferAssumption
  <1>9. Got
    BY <1>2, <1>8 DEF Got, InGet
  <1> QED
    BY <1>1, <1>3, <1>4, <1>9, SendingNow

LEMMA GetWholeOr ==
    ASSUME TypeInv, LinkInv, FileInv, c.pc \in {"get_process", "get_uncomp"},
           c.buf # <<>>
    PROVE  \/ sfile[c.file] \in Values /\ c.buf = Stream(sfile[c.file], c.key)
           \/ "crash" \in faults
  <1> SUFFICES ASSUME "crash" \notin faults
               PROVE  sfile[c.file] \in Values /\ c.buf = Stream(sfile[c.file], c.key)
    OBVIOUS
  <1>1. TypeOK /\ Paired
    BY DEF TypeInv, LinkInv
  <1>2. Alive(s)
    BY <1>1 DEF Paired, Busy, InGet
  <1>3. Got /\ GetsNow /\ Len(Arriving) = 0 /\ s.pc \in {"close", "idle"}
    BY <1>2, GetIsGot DEF Alive
  <1>4. Len(c.buf) + Len(Arriving) \in {0, Blocks}
    BY <1>3 DEF GetsNow, Gets
  <1>5. Len(c.buf) \in {0, Blocks}
    BY <1>1, <1>3, <1>4, Lens
  <1>6. Len(c.buf) # 0
    BY <1>1, Fields, EmptyFacts
  <1> QED
    BY <1>3, <1>5, <1>6, GotWhole

LEMMA GetSource ==
    ASSUME TypeInv, LinkInv, FileInv, c.pc \in {"get_process", "get_uncomp"},
           NEW v \in Values, c.buf = Stream(v, c.key)
    PROVE  v = sfile[c.file] /\ v # None
  <1>1. TypeOK
    BY DEF TypeInv
  <1>2. 1 \in 1..Len(c.buf) /\ c.buf[1].of = v /\ c.buf # <<>>
    BY <1>1, Fields, StreamHead
  <1>3. Part(c.buf, sfile[c.file], s.key, 0)
    BY <1>2, GetIsGot DEF GetsNow, Gets
  <1>4. \A i \in 1..Len(c.buf) : c.buf[i].of = sfile[c.file]
    BY <1>3, PartOf
  <1> QED
    BY <1>2, <1>4, TransferAssumption

(* What do_stor and do_get do to the two copies of a file.                 *)
LEMMA StorOutcome ==
    ASSUME TypeInv, LinkInv, FileInv, ServerStorDecrypt \/ ServerStorUncomp
    PROVE  /\ UNCHANGED <<c, cfile, faults>> /\ s.file \in Files /\ s'.file = s.file
           /\ \/ /\ s.pc = "stor_process" /\ s'.pc = "stor_uncomp"
                 /\ sfile' = [sfile EXCEPT ![s.file] = Spoiled]
                 /\ \/ cfile[s.file] # None /\ Whole(s.buf, s.key)
                    \/ c.pc = "dead" /\ "crash" \in faults
              \/ s.pc = "stor_process" /\ s'.pc = "close" /\ sfile' = sfile
              \/ /\ s.pc = "stor_uncomp" /\ s'.pc = "close"
                 /\ s.buf = Stream(cfile[s.file], s.key) /\ cfile[s.file] # None
                 /\ sfile' = [sfile EXCEPT ![s.file] = cfile[s.file]]
              \/ /\ s.pc = "stor_uncomp" /\ s'.pc = "close" /\ sfile' = sfile
                 /\ \/ "process" \in faults
                    \/ c.pc = "dead" /\ "crash" \in faults
  <1>1. TypeOK /\ Dispatched /\ Ends
    BY DEF TypeInv, LinkInv
  <1>2. UNCHANGED <<c, faults>> /\ KeepsRequest /\ s.pc \in {"stor_process", "stor_uncomp"}
    BY <1>1, StorProcessControl, Zenon
  <1>3. UNCHANGED cfile
    BY <1>1, StorProcessEffect, Zenon
  <1>4. s.file \in Files /\ s'.file = s.file
    BY <1>1, <1>2 DEF Dispatched, Serving, Stor, KeepsRequest
  <1>5. s.buf # <<>> => \/ /\ cfile[s.file] \in Values
                           /\ s.buf = Stream(cfile[s.file], s.key)
                        \/ c.pc = "dead" /\ "crash" \in faults
    BY <1>2, StorWholeOr
  <1>6. s.pc = "stor_uncomp" => s.buf # <<>>
    BY <1>1 DEF Ends
  <1>7. \/ /\ s.pc = "stor_process" /\ s'.pc = "stor_uncomp" /\ s.buf # <<>>
           /\ sfile' = [sfile EXCEPT ![s.file] = Spoiled]
        \/ s.pc = "stor_process" /\ s'.pc = "close" /\ sfile' = sfile
        \/ /\ s.pc = "stor_uncomp" /\ s'.pc = "close"
           /\ \E v \in Values : /\ s.buf = Stream(v, s.key)
                                /\ sfile' = [sfile EXCEPT ![s.file] = v]
        \/ /\ s.pc = "stor_uncomp" /\ s'.pc = "close" /\ sfile' = sfile
           /\ ~Whole(s.buf, s.key) \/ "process" \in faults
    BY <1>1, StorProcessEffect, Zenon
  <1>8. CASE /\ s.pc = "stor_process" /\ s'.pc = "stor_uncomp" /\ s.buf # <<>>
             /\ sfile' = [sfile EXCEPT ![s.file] = Spoiled]
    <2>1. \/ cfile[s.file] # None /\ Whole(s.buf, s.key)
          \/ c.pc = "dead" /\ "crash" \in faults
      BY <1>5, <1>8, TransferAssumption DEF Whole
    <2> QED
      BY <1>2, <1>3, <1>4, <1>8, <2>1
  <1>9. CASE s.pc = "stor_process" /\ s'.pc = "close" /\ sfile' = sfile
    BY <1>2, <1>3, <1>4, <1>9
  <1>10. CASE /\ s.pc = "stor_uncomp" /\ s'.pc = "close"
              /\ \E v \in Values : /\ s.buf = Stream(v, s.key)
                                   /\ sfile' = [sfile EXCEPT ![s.file] = v]
    <2>1. PICK v \in Values : /\ s.buf = Stream(v, s.key)
                              /\ sfile' = [sfile EXCEPT ![s.file] = v]
      BY <1>10
    <2>2. v = cfile[s.file] /\ v # None
      BY <1>2, <2>1, StorSource
    <2> QED
      BY <1>2, <1>3, <1>4, <1>10, <2>1, <2>2
  <1>11. CASE /\ s.pc = "stor_uncomp" /\ s'.pc = "close" /\ sfile' = sfile
              /\ ~Whole(s.buf, s.key) \/ "process" \in faults
    <2>1. "process" \in faults \/ (c.pc = "dead" /\ "crash" \in faults)
      BY <1>5, <1>6, <1>11 DEF Whole
    <2> QED
      BY <1>2, <1>3, <1>4, <1>11, <2>1
  <1> QED
    BY <1>7, <1>8, <1>9, <1>10, <1>11

LEMMA GetOutcome ==
    ASSUME TypeInv, LinkInv, FileInv, ClientGetDecrypt \/ ClientGetUncomp
    PROVE  /\ UNCHANGED <<s, sfile, faults>> /\ c.file \in Files /\ c'.file = c.file
           /\ \/ /\ c.pc = "get_process" /\ c'.pc = "get_uncomp"
                 /\ cfile' = [cfile EXCEPT ![c.file] = Spoiled]
                 /\ sfile[c.file] # None \/ "crash" \in faults
              \/ c.pc = "get_process" /\ c'.pc = "prompt" /\ cfile' = cfile
              \/ /\ c.pc = "get_uncomp" /\ c'.pc = "prompt" /\ sfile[c.file] # None
                 /\ cfile' = [cfile EXCEPT ![c.file] = sfile[c.file]]
              \/ /\ c.pc = "get_uncomp" /\ c'.pc = "prompt" /\ cfile' = cfile
                 /\ "process" \in faults \/ "crash" \in faults
  <1>1. TypeOK /\ Dispatched /\ Ends
    BY DEF TypeInv, LinkInv
  <1>2. UNCHANGED <<s, faults>> /\ KeepsCommand /\ c.pc \in {"get_process", "get_uncomp"}
    BY <1>1, GetProcessControl, Zenon
  <1>3. UNCHANGED sfile
    BY <1>1, GetProcessEffect, Zenon
  <1>4. c.file \in Files /\ c'.file = c.file
    BY <1>1, <1>2 DEF Dispatched, Busy, InGet, KeepsCommand
  <1>5. c.buf # <<>> => \/ /\ sfile[c.file] \in Values
                           /\ c.buf = Stream(sfile[c.file], c.key)
                        \/ "crash" \in faults
    BY <1>2, GetWholeOr
  <1>6. c.pc = "get_uncomp" => c.buf # <<>>
    BY <1>1 DEF Ends
  <1>7. \/ /\ c.pc = "get_process" /\ c'.pc = "get_uncomp" /\ c.buf # <<>>
           /\ cfile' = [cfile EXCEPT ![c.file] = Spoiled]
        \/ c.pc = "get_process" /\ c'.pc = "prompt" /\ cfile' = cfile
        \/ /\ c.pc = "get_uncomp" /\ c'.pc = "prompt"
           /\ \E v \in Values : /\ c.buf = Stream(v, c.key)
                                /\ cfile' = [cfile EXCEPT ![c.file] = v]
        \/ /\ c.pc = "get_uncomp" /\ c'.pc = "prompt" /\ cfile' = cfile
           /\ ~Whole(c.buf, c.key) \/ "process" \in faults
    BY <1>1, GetProcessEffect, Zenon
  <1>8. CASE /\ c.pc = "get_process" /\ c'.pc = "get_uncomp" /\ c.buf # <<>>
             /\ cfile' = [cfile EXCEPT ![c.file] = Spoiled]
    <2>1. sfile[c.file] # None \/ "crash" \in faults
      BY <1>5, <1>8, TransferAssumption
    <2> QED
      BY <1>2, <1>3, <1>4, <1>8, <2>1
  <1>9. CASE c.pc = "get_process" /\ c'.pc = "prompt" /\ cfile' = cfile
    BY <1>2, <1>3, <1>4, <1>9
  <1>10. CASE /\ c.pc = "get_uncomp" /\ c'.pc = "prompt"
              /\ \E v \in Values : /\ c.buf = Stream(v, c.key)
                                   /\ cfile' = [cfile EXCEPT ![c.file] = v]
    <2>1. PICK v \in Values : /\ c.buf = Stream(v, c.key)
                              /\ cfile' = [cfile EXCEPT ![c.file] = v]
      BY <1>10
    <2>2. v = sfile[c.file] /\ v # None
      BY <1>2, <2>1, GetSource
    <2> QED
      BY <1>2, <1>3, <1>4, <1>10, <2>1, <2>2
  <1>11. CASE /\ c.pc = "get_uncomp" /\ c'.pc = "prompt" /\ cfile' = cfile
              /\ ~Whole(c.buf, c.key) \/ "process" \in faults
    <2>1. "process" \in faults \/ "crash" \in faults
      BY <1>5, <1>6, <1>11 DEF Whole
    <2> QED
      BY <1>2, <1>3, <1>4, <1>11, <2>1
  <1> QED
    BY <1>7, <1>8, <1>9, <1>10, <1>11

(* The server's copy of a file is opened for writing only when its new     *)
(* content came whole or the client died, and a child that comes back from *)
(* writing it has written it whole, unless the client died or a whole      *)
(* stream could not be decompressed (process_received_file, in do_stor).   *)
THEOREM StoresWhole == Spec => StoredWhole
  <1> DEFINE Opened ==
        \A f \in Files : sfile'[f] # sfile[f] =>
            \/ s.buf = Stream(sfile'[f], s.key)
            \/ sfile'[f] = Spoiled /\ (Whole(s.buf, s.key) \/ c.pc = "dead")
  <1> DEFINE Closed ==
        s.pc = "stor_uncomp" /\ s'.pc \notin {"stor_uncomp", "dead"} =>
            \/ s.buf = Stream(sfile'[s.file], s.key)
            \/ c.pc = "dead" \/ "process" \in faults
  <1>1. ASSUME TypeInv, LinkInv, FileInv, [Next]_vars PROVE Opened
    <2> SUFFICES ASSUME NEW f \in Files, sfile'[f] # sfile[f]
                 PROVE  \/ s.buf = Stream(sfile'[f], s.key)
                        \/ /\ sfile'[f] = Spoiled
                           /\ Whole(s.buf, s.key) \/ c.pc = "dead"
      OBVIOUS
    <2>1. ServerStorDecrypt \/ ServerStorUncomp
      BY <1>1, FilesKept, GetOutcome
    <2>2. sfile \in [Files -> Values \cup {None}]
      BY <1>1 DEF TypeInv, TypeOK, Stores
    <2>3. \/ /\ sfile' = [sfile EXCEPT ![s.file] = Spoiled]
             /\ Whole(s.buf, s.key) \/ c.pc = "dead"
          \/ /\ sfile' = [sfile EXCEPT ![s.file] = cfile[s.file]]
             /\ s.buf = Stream(cfile[s.file], s.key)
      BY <1>1, <2>1, StorOutcome, Zenon
    <2> QED
      BY <2>2, <2>3
  <1>2. ASSUME TypeInv, LinkInv, FileInv, [Next]_vars PROVE Closed
    <2> SUFFICES ASSUME s.pc = "stor_uncomp", s'.pc \notin {"stor_uncomp", "dead"}
                 PROVE  \/ s.buf = Stream(sfile'[s.file], s.key)
                        \/ c.pc = "dead" \/ "process" \in faults
      OBVIOUS
    <2>1. TypeOK /\ Dispatched /\ PortInTurn
      BY <1>1, <1>2 DEF TypeInv
    <2>2. s' # s
      OBVIOUS
    <2>3. ServerStep \/ ServerSigpipe \/ ServerKilled
      BY <1>2, <2>1, <2>2, ClientWriting DEF Next, SignalStep, vars
    <2>4. ServerStorDecrypt \/ ServerStorUncomp
      BY <2>1, <2>3, ServerWriting
    <2>5. sfile \in [Files -> Values \cup {None}]
      BY <1>2 DEF TypeInv, TypeOK, Stores
    <2> QED
      BY <1>2, <2>4, <2>5, StorOutcome
  <1> DEFINE A ==
        /\ \A f \in Files : sfile'[f] # sfile[f] =>
             \/ s.buf = Stream(sfile'[f], s.key)
             \/ sfile'[f] = Spoiled /\ (Whole(s.buf, s.key) \/ c.pc = "dead")
        /\ s.pc = "stor_uncomp" /\ s'.pc \notin {"stor_uncomp", "dead"} =>
             \/ s.buf = Stream(sfile'[s.file], s.key)
             \/ c.pc = "dead" \/ "process" \in faults
  <1>3. TypeInv /\ LinkInv /\ FileInv /\ [Next]_vars => A
    BY <1>1, <1>2
  <1> HIDE DEF A
  <1>4. TypeInv /\ LinkInv /\ FileInv /\ [Next]_vars => [A]_vars
    BY <1>3
  <1>5. Spec => [][A]_vars
    BY <1>4, FileInvHolds, PTL DEF Spec
  <1> QED
    BY <1>5 DEF StoredWhole, A

(* A session implements FileService: every step of it leaves the two       *)
(* directories alone, opens a copy whose new content the other end has, or *)
(* completes it; only where a kill or a failed decompression is possible   *)
(* is a copy left open, or one opened for less than a whole file.          *)
THEOREM SessionService == Spec => ServiceSpec
  <1> DEFINE cw == {f \in {c.file} : c.pc = "get_uncomp"}
  <1> DEFINE sw == {f \in {s.file} : s.pc = "stor_uncomp"}
  <1> DEFINE un == faults \cap {"crash", "process"} # {}
  <1>0. Init => Service!NoneOpen
    BY DEF Init, Service!NoneOpen
  <1>1. ASSUME TypeInv, LinkInv, FileInv, [Next]_vars
        PROVE  [Service!Next]_(Service!vars)
    <2>1. faults' = faults /\ un' = un
      BY <1>1, FilesKept
    <2>2. CASE ServerStorDecrypt \/ ServerStorUncomp
      <3>1. /\ UNCHANGED <<c, cfile, faults>> /\ s.file \in Files /\ s'.file = s.file
            /\ cw' = cw
        BY <1>1, <2>2, StorOutcome
      <3>2. CASE /\ s.pc = "stor_process" /\ s'.pc = "stor_uncomp"
                 /\ sfile' = [sfile EXCEPT ![s.file] = Spoiled]
                 /\ cfile[s.file] # None \/ "crash" \in faults
        <4>1. c.pc # "get_uncomp"
          BY <1>1, <3>2 DEF LinkInv, Ends, Sockets, ClientDataClosed, Busy, InGet
        <4>2. cw = {} /\ sw = {} /\ sw' = {s.file} /\ ("crash" \in faults => un)
          BY <3>1, <3>2, <4>1
        <4>3. Service!BeginPut(s.file)
          BY <2>1, <3>1, <3>2, <4>2 DEF Service!BeginPut, Service!NoneOpen
        <4> QED
          BY <3>1, <4>3 DEF Service!Next
      <3>3. CASE s.pc = "stor_process" /\ s'.pc = "close" /\ sfile' = sfile
        BY <2>1, <3>1, <3>3 DEF Service!vars
      <3>4. CASE /\ s.pc = "stor_uncomp" /\ s'.pc = "close" /\ cfile[s.file] # None
                 /\ sfile' = [sfile EXCEPT ![s.file] = cfile[s.file]]
        <4>1. Service!EndPut(s.file)
          BY <2>1, <3>1, <3>4 DEF Service!EndPut
        <4> QED
          BY <3>1, <4>1 DEF Service!Next
      <3>5. CASE /\ s.pc = "stor_uncomp" /\ s'.pc = "close" /\ sfile' = sfile
                 /\ "process" \in faults \/ "crash" \in faults
        <4>1. Service!BreakPut(s.file)
          BY <2>1, <3>1, <3>5 DEF Service!BreakPut
        <4> QED
          BY <3>1, <4>1 DEF Service!Next
      <3> QED
        BY <1>1, <2>2, <3>2, <3>3, <3>4, <3>5, StorOutcome, Zenon
    <2>3. CASE ClientGetDecrypt \/ ClientGetUncomp
      <3>1. /\ UNCHANGED <<s, sfile, faults>> /\ c.file \in Files /\ c'.file = c.file
            /\ sw' = sw
        BY <1>1, <2>3, GetOutcome
      <3>2. CASE /\ c.pc = "get_process" /\ c'.pc = "get_uncomp"
                 /\ cfile' = [cfile EXCEPT ![c.file] = Spoiled]
                 /\ sfile[c.file] # None \/ "crash" \in faults
        <4>1. s.pc # "stor_uncomp"
          BY <1>1, <3>2 DEF LinkInv, Ends, Sockets, Serving, Stor
        <4>2. sw = {} /\ cw = {} /\ cw' = {c.file} /\ ("crash" \in faults => un)
          BY <3>1, <3>2, <4>1
        <4>3. Service!BeginGet(c.file)
          BY <2>1, <3>1, <3>2, <4>2 DEF Service!BeginGet, Service!NoneOpen
        <4> QED
          BY <3>1, <4>3 DEF Service!Next
      <3>3. CASE c.pc = "get_process" /\ c'.pc = "prompt" /\ cfile' = cfile
        BY <2>1, <3>1, <3>3 DEF Service!vars
      <3>4. CASE /\ c.pc = "get_uncomp" /\ c'.pc = "prompt" /\ sfile[c.file] # None
                 /\ cfile' = [cfile EXCEPT ![c.file] = sfile[c.file]]
        <4>1. Service!EndGet(c.file)
          BY <2>1, <3>1, <3>4 DEF Service!EndGet
        <4> QED
          BY <3>1, <4>1 DEF Service!Next
      <3>5. CASE /\ c.pc = "get_uncomp" /\ c'.pc = "prompt" /\ cfile' = cfile
                 /\ "process" \in faults \/ "crash" \in faults
        <4>1. Service!BreakGet(c.file)
          BY <2>1, <3>1, <3>5 DEF Service!BreakGet
        <4> QED
          BY <3>1, <4>1 DEF Service!Next
      <3> QED
        BY <1>1, <2>3, <3>2, <3>3, <3>4, <3>5, GetOutcome, Zenon
    <2>4. CASE /\ ~(ServerStorDecrypt \/ ServerStorUncomp)
               /\ ~(ClientGetDecrypt \/ ClientGetUncomp)
      <3>1. UNCHANGED <<cfile, sfile>>
        BY <1>1, <2>4, FilesKept
      <3>2. TypeOK /\ Dispatched /\ PortInTurn
        BY <1>1 DEF TypeInv
      <3>3. CASE UserStep \/ ClientStep \/ ClientSigpipe \/ ClientKilled
        <4>1. /\ UNCHANGED s
              /\ \/ "crash" \in faults /\ c'.pc = "dead"
                 \/ c.pc # "get_uncomp" /\ c'.pc # "get_uncomp"
          BY <2>4, <3>2, <3>3, ClientWriting
        <4>2. CASE c.pc = "get_uncomp" /\ "crash" \in faults /\ c'.pc = "dead"
          <5>1. c.file \in Files
            BY <3>2, <4>2 DEF Dispatched, Busy, InGet
          <5>2. Service!BreakGet(c.file)
            BY <2>1, <3>1, <4>1, <4>2 DEF Service!BreakGet
          <5> QED
            BY <5>1, <5>2 DEF Service!Next
        <4>3. CASE c.pc # "get_uncomp" /\ c'.pc # "get_uncomp"
          BY <2>1, <3>1, <4>1, <4>3 DEF Service!vars
        <4> QED
          BY <4>1, <4>2, <4>3
      <3>4. CASE ServerStep \/ ServerSigpipe \/ ServerKilled
        <4>1. /\ UNCHANGED c
              /\ \/ "crash" \in faults /\ s'.pc = "dead"
                 \/ s.pc # "stor_uncomp" /\ s'.pc # "stor_uncomp"
          BY <2>4, <3>2, <3>4, ServerWriting
        <4>2. CASE s.pc = "stor_uncomp" /\ "crash" \in faults /\ s'.pc = "dead"
          <5>1. s.file \in Files
            BY <3>2, <4>2 DEF Dispatched, Serving, Stor
          <5>2. Service!BreakPut(s.file)
            BY <2>1, <3>1, <4>1, <4>2 DEF Service!BreakPut
          <5> QED
            BY <5>1, <5>2 DEF Service!Next
        <4>3. CASE s.pc # "stor_uncomp" /\ s'.pc # "stor_uncomp"
          BY <2>1, <3>1, <4>1, <4>3 DEF Service!vars
        <4> QED
          BY <4>1, <4>2, <4>3
      <3>5. CASE UNCHANGED vars
        BY <3>5 DEF vars, Service!vars
      <3> QED
        BY <1>1, <3>3, <3>4, <3>5 DEF Next, SignalStep
    <2> QED
      BY <2>2, <2>3, <2>4
  <1>2. TypeInv /\ LinkInv /\ FileInv /\ [Next]_vars => [Service!Next]_(Service!vars)
    BY <1>1
  <1>3. Spec => Service!NoneOpen /\ [][Service!Next]_(Service!vars)
    BY <1>0, <1>2, FileInvHolds, PTL DEF Spec
  <1> QED
    BY <1>3 DEF ServiceSpec, Service!Spec
=============================================================================
