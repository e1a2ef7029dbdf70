---------------------------- MODULE TransferInv ----------------------------
(***************************************************************************)
(* The inductive invariant behind Transfer's safety properties: what each  *)
(* control point of the client and of the server child says of the other,  *)
(* of the four queues between them and of the two directories.             *)
(***************************************************************************)
EXTENDS Transfer

InDH   == {"dh_send", "dh_recv"}
InGet  == {"get_open", "get_recv", "get_reply", "get_abort", "get_process",
           "get_uncomp"}
InPut  == {"put_prepare", "put_skip", "put_send"}
Busy   == InDH \cup InGet \cup InPut            \* a client past RETR or STOR
Retr   == {"retr_open", "retr_send"}
Stor   == {"stor_open", "stor_recv", "stor_process", "stor_uncomp"}
Serving == {"dh"} \cup Retr \cup Stor           \* a child in do_retr or do_stor
Owing  == {"list", "dh", "retr_open", "retr_send", "stor_open", "stor_recv"}
Away   == {"prompt", "accept", "quit", "done"}  \* a client between commands

Alive(p) == p.pc # "dead"

(* What the command says is what its handlers were chosen by.              *)
Dispatched ==
    /\ c.pc \in InDH => c.op \in {"get", "put"}
    /\ c.pc \in InGet => c.op = "get"
    /\ c.pc \in InPut => c.op = "put"
    /\ c.pc \in {"ls", "skip"} => c.op = c.pc
    /\ s.pc = "dh" => s.verb \in {"RETR", "STOR"}
    /\ s.pc \in Retr => s.verb = "RETR"
    /\ s.pc \in Stor => s.verb = "STOR"
    /\ c.pc \in Busy \cup {"accept"} => c.file \in Files
    /\ s.pc \in Serving => s.file \in Files
    /\ \A i \in 1..Len(c2s) : c2s[i].verb \in {"RETR", "STOR"} => c2s[i].file \in Files

(* PORT is the last thing a client writes before it waits for the data     *)
(* connection, so a child that has read it has read everything, and what   *)
(* it reads next is that client's command.                                 *)
PortInTurn ==
    /\ pending => /\ c.pc = "accept" /\ s.pc \in {"cmd", "dead"}
                  /\ c2s = <<>> /\ dc2s = <<>> /\ ds2c = <<>>
    /\ s.pc = "setup" => c.pc \in {"accept", "dead"} /\ ~pending /\ c2s = <<>>
    /\ \A i \in 1..Len(c2s) :
          c2s[i].verb = "PORT" => /\ i = Len(c2s) /\ c.pc \in {"accept", "dead"}
                                  /\ ~pending
    /\ s.pc = "cmd" /\ c2s = <<>> => pending \/ c.pc = "dead"
    /\ s.pc = "cmd" /\ c2s # <<>> => Head(c2s).verb \in Verbs

(* The numbers of commands grow, and one number is one command.            *)
Numbered ==
    /\ s.id <= c.id
    /\ \A i \in 1..Len(c2s) :
          /\ c2s[i].id <= c.id
          /\ c2s[i].verb = "QUIT" => c2s[i].id = c.id /\ c.pc \in {"quit", "done", "dead"}
          /\ c.pc = "accept" /\ c2s[i].verb # "PORT" => c2s[i].id < c.id
    /\ c.pc = "accept" => s.id < c.id
    /\ s.pc = "cmd" /\ c2s # <<>> =>
          /\ s.id < Head(c2s).id
          /\ Head(c2s).id = c.id => Head(c2s) = Command(Verb[c.op], c.file, c.id)
    /\ s.id = c.id => s.verb = Verb[c.op] /\ s.file = c.file

(* Which data sockets are open, by control point.                          *)
Sockets ==
    /\ s.open <=> s.pc \in {"cmd", "list", "close"} \cup Serving
    /\ c.open <=> \/ c.pc \in {"skip", "ls"} \cup (Busy \ {"put_send"})
                  \/ c.pc = "put_send" /\ ~c.dataDone
    /\ c.pc \in {"accept"} \cup (Busy \ {"put_send"}) => ~c.dataDone /\ ~c.ctlDone
    /\ c.pc = "dead" /\ "crash" \notin faults => ~s.open

(* A client past its command has a child that has read that command, or    *)
(* will read it next, or is dead; a child in a handler has a client in the *)
(* same command, or one that has closed the data connection.               *)
Paired ==
    /\ c.pc \in Busy =>
          \/ s.pc = "dead"
          \/ /\ s.pc = "cmd" /\ c.pc \in InDH /\ s.id # c.id
             /\ c2s = <<Command(Verb[c.op], c.file, c.id)>>
          \/ /\ s.pc \in Serving \cup {"close", "idle"} /\ s.id = c.id
             /\ c2s = IF c.pc = "put_skip" THEN <<Command("SKIP", None, c.id)>> ELSE <<>>
    /\ s.pc = "cmd" /\ c2s # <<>> /\ Head(c2s).verb \in {"RETR", "STOR"} =>
          c.pc \in InDH \cup {"dead"}
    /\ s.pc = "dh" => c.pc \in InDH \cup {"dead"}
    /\ s.pc \in Serving => c.pc \in Busy \cup Away \cup {"dead"}
    /\ pending \/ c.pc \in Busy \ {"put_skip", "put_send"} =>
          "crash" \in faults \/ Alive(s)

-----------------------------------------------------------------------------
(* The key exchange.                                                       *)
Proper(key, id) ==
    \A r \in 1..Len(key) : key[r] = <<Half("client", id, r), Half("server", id, r)>>

(* A child whose exchange ended, or has not been cut short.                *)
Exchanging == Alive(s) \/ Len(s.key) = DHRounds

Agreed ==
    /\ s.id = c.id /\ Alive(c) /\ Exchanging =>
          Proper(c.key, c.id) /\ Proper(s.key, s.id)
    /\ c.pc = "accept" \/ (s.pc \in {"setup", "cmd"} /\ Alive(c)) => c.key = <<>>

Rounds ==
    /\ c.pc \in InDH => Len(c.key) < DHRounds
    /\ c.pc \in InGet \cup InPut => Len(c.key) = DHRounds
    /\ s.pc = "dh" => Len(s.key) < DHRounds
    /\ Alive(s) /\ s.pc # "dh" /\ s.verb \in {"RETR", "STOR"} => Len(s.key) = DHRounds
    /\ Len(s.key) <= DHRounds
    /\ c.pc \in InDH \cup {"accept", "get_open", "put_prepare", "put_skip"} => c.buf = <<>>
    /\ s.pc \in {"dh", "retr_open", "stor_open"} => s.buf = <<>>

(* Whose turn it is, and what is in flight then.                           *)
ClientTurn ==
    /\ s.pc = "dh" /\ Len(s.key) = Len(c.key) /\ dc2s = <<>> /\ ds2c = <<>>
ServerTurn ==
    /\ s.pc = "dh" /\ Len(s.key) = Len(c.key)
    /\ dc2s = <<Half("client", c.id, Len(c.key) + 1)>> /\ ds2c = <<>>
HalfWaits ==
    /\ Len(s.key) = Len(c.key) + 1 /\ dc2s = <<>> /\ ds2c # <<>>
    /\ Head(ds2c) = Half("server", c.id, Len(c.key) + 1)
    /\ Len(ds2c) > 1 => Len(s.key) = DHRounds

InTurn ==
    /\ c.pc \in InDH /\ s.pc = "cmd" =>
          /\ ds2c = <<>>
          /\ dc2s = IF c.pc = "dh_send" THEN <<>> ELSE <<Half("client", c.id, 1)>>
    /\ c.pc = "dh_send" /\ s.id = c.id /\ Exchanging => ClientTurn
    /\ c.pc = "dh_recv" /\ s.id = c.id /\ Exchanging => ServerTurn \/ HalfWaits
    /\ c.pc \in Busy /\ ~Alive(s) /\ (Len(s.key) < DHRounds \/ s.id # c.id) =>
          /\ c.op = "get" => c.buf = <<>>
          /\ ds2c # <<>> => c.pc = "dh_recv" /\ Len(ds2c) = 1
    /\ s.pc \in {"cmd", "dh"} => Len(dc2s) <= 1

-----------------------------------------------------------------------------
(* File data.  A part of the stream of content v after its first n blocks. *)
Part(q, v, key, n) ==
    \A i \in 1..Len(q) : q[i] = [of |-> v, key |-> key, n |-> n + i]

Arriving == IF c.pc = "dh_recv" THEN Tail(ds2c) ELSE ds2c
Answered == \/ c.reply = Reply(200, c.id)
            \/ \E i \in 1..Len(s2c) : s2c[i] = Reply(200, c.id)

(* A get: what the client has, what is in flight and what the child has    *)
(* still to write make up the server's file.                               *)
Sending ==
    LET v == sfile[c.file]
        n == Len(c.buf) + Len(Arriving)
    IN  /\ c.pc \in InGet \cup {"dh_recv"} /\ c.op = "get" /\ s.id = c.id
        /\ Len(s.key) = DHRounds
        => /\ Part(c.buf, v, s.key, 0) /\ Part(Arriving, v, s.key, Len(c.buf))
           /\ n > 0 => v # None
           /\ s.pc = "retr_open" => n = 0
           /\ s.pc = "retr_send" => /\ v # None /\ n + Len(s.buf) = Blocks
                                    /\ Part(s.buf, v, s.key, n)
           /\ s.pc \in {"close", "idle"} => n \in {0, Blocks}
           /\ Answered /\ s.pc # "retr_send" => n = Blocks

(* A put, in the same way; of a client that died the contents remain.      *)
Storing ==
    LET v == cfile[s.file]
        n == Len(s.buf) + Len(dc2s)
    IN  s.pc \in Stor =>
           /\ Alive(c) => Part(s.buf, v, s.key, 0) /\ Part(dc2s, v, s.key, Len(s.buf))
           /\ \A i \in 1..Len(s.buf) : s.buf[i].of = v
           /\ \A i \in 1..Len(dc2s) : dc2s[i].of = v
           /\ n > 0 => v # None
           /\ c.pc \in {"dh_recv", "put_prepare", "put_skip"} => n = 0
           /\ c.pc = "put_send" /\ ~c.dataDone =>
                 n + Len(c.buf) = Blocks /\ v # None /\ Part(c.buf, v, s.key, n)
           /\ c.pc \in Away \cup {"put_send"} /\ s.id = c.id /\ c.dataDone => n = Blocks
           /\ c.pc \in Away => n \in {0, Blocks}

(* The ends of the two streams.                                            *)
Ends ==
    /\ c.pc \in {"get_reply", "get_process", "get_uncomp"} => ds2c = <<>> /\ ~s.open
    /\ s.pc \in {"stor_process", "stor_uncomp"} => dc2s = <<>> /\ ClientDataClosed
    /\ c.pc = "get_uncomp" => c.buf # <<>>
    /\ s.pc = "stor_uncomp" => s.buf # <<>>

-----------------------------------------------------------------------------
(* Replies.  No reply comes before its command, and none before the data.  *)
NotBefore ==
    /\ \A i \in 1..Len(s2c) :
          /\ s2c[i].code # 0
          /\ s2c[i].code = 200 => s2c[i].id <= s.id
    /\ c.reply.code = 200 => c.reply.id <= s.id
    /\ s.pc \in Owing =>
          /\ c.reply.code = 200 => c.reply.id # s.id
          /\ \A i \in 1..Len(s2c) : s2c[i].code = 200 => s2c[i].id # s.id
    /\ s.id = c.id /\ c.op = "get" /\ c.pc \in InDH \cup InGet /\ Answered =>
          Len(s.key) = DHRounds

(* One reply for one command, as long as the client's temporary files can  *)
(* be opened.                                                              *)
Answering ==
    /\ ServerUp => Len(c2s) <= 1
    /\ c.reply.code # 0 => c.reply.id = c.id
    /\ c.pc \notin {"dead", "done"} =>
          /\ Len(s2c) <= 1
          /\ \A i \in 1..Len(s2c) : s2c[i].id = c.id
          /\ s.pc \in Owing \cup {"setup", "cmd"} => s2c = <<>> /\ c.reply.code = 0
          /\ s.pc \in Owing => c.pc \in Busy \cup {"ls"} /\ s.id = c.id
          /\ s.pc = "cmd" => c.pc \in InDH \cup {"accept", "skip", "ls"}
          /\ s.pc = "cmd" /\ c2s # <<>> => Head(c2s).id = c.id
          /\ c.reply.code # 0 /\ c.pc # "quit" => s2c = <<>>
          /\ c.pc = "accept" => c.reply.code = 0
          /\ c.pc \in {"prompt", "accept", "get_process", "get_uncomp", "put_prepare",
                      "put_skip"} => s2c = <<>>
          /\ c.pc \in InDH /\ c.op = "put" => s2c = <<>>
          /\ c.pc = "quit" /\ ServerUp => s2c = <<>>
          /\ c.pc = "prompt" /\ ServerUp => c2s = <<>>
          /\ c.pc \in {"skip", "ls"} /\ ServerUp /\ c2s # <<>> => s.pc = "cmd"
          /\ c.pc \in {"ls", "put_send"} /\ c.ctlDone => c.reply.code # 0
OneReply == "copen" \notin faults => Answering

-----------------------------------------------------------------------------
(* Temporary files: those of the command at hand.                          *)
Mine(p) == {t \in p.temp : t[2] = p.id}
TempsOf ==
    /\ \A t \in c.temp : t[2] <= c.id
    /\ \A t \in s.temp : t[2] <= s.id
    /\ c.pc \in InDH \cup {"accept", "ls", "get_open", "put_prepare"} => Mine(c) = {}
    /\ c.pc \in {"get_recv", "get_reply", "get_process", "put_send"} =>
          Mine(c) \subseteq Temp({"enc"}, c.id)
    /\ c.pc = "get_uncomp" => Mine(c) \subseteq Temp({"comp"}, c.id)
    /\ c.pc = "prompt" /\ c.ok => Mine(c) = {}
    /\ s.pc \in {"list", "dh", "retr_open", "stor_open"} => Mine(s) = {}
    /\ s.pc \in {"retr_send", "stor_recv", "stor_process"} =>
          Mine(s) \subseteq Temp({"enc"}, s.id)
    /\ s.pc = "stor_uncomp" => Mine(s) \subseteq Temp({"comp"}, s.id)
    /\ s.pc \in {"close", "idle", "setup", "cmd"} /\ s.ok => Mine(s) = {}

(* Types and dispatch; which end is where, and what is in flight between   *)
(* them; what has been transferred.                                        *)
TypeInv == TypeOK /\ Dispatched /\ PortInTurn
LinkInv == /\ Numbered /\ Sockets /\ Paired
           /\ Agreed /\ Rounds /\ InTurn
           /\ Ends /\ NotBefore
FileInv == Sending /\ Storing

(* The inductive invariant.  Wherever the client is in its command loop,   *)
(* do_ls, do_get or do_put, and the child in its loop, do_list, do_retr or *)
(* do_stor: each is where the other's last message put it, the queues hold *)
(* what is still to be read and no more, one reply is owed for one command *)
(* and the bytes received, in flight and unsent make up one file.          *)
SessionInv == TypeInv /\ LinkInv /\ FileInv /\ OneReply /\ TempsOf
=============================================================================
