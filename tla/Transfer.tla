------------------------------ MODULE Transfer ------------------------------
(***************************************************************************)
(* One ec-ftp session: the client program (src/src/ecftpclient.c) and the  *)
(* server child forked for it (src/src/ecftpserver.c), joined by the       *)
(* control connection, which lasts, and a data connection made anew for    *)
(* every command.  TCP is a pair of FIFO byte streams per connection: what *)
(* one write sends may be read together with what a later write sends, and *)
(* a read from a peer that has closed returns nothing.                     *)
(*                                                                         *)
(* A prepared (compressed and encrypted) file is a sequence of blocks that *)
(* carry its content and the key; a half-key of the Diffie-Hellman         *)
(* exchange is a message of its own, and a key the sequence of the pairs   *)
(* of half-keys it was computed from.                                      *)
(***************************************************************************)
EXTENDS Naturals, Sequences

CONSTANTS
    Files,         \* file names
    Contents,      \* contents a file may start with
    None,          \* no such file; also a half-key that was never read
    Spoiled,       \* the content left by a transfer that broke off
    Blocks,        \* number of writes a prepared file is sent in
    DHRounds,      \* rounds of the key exchange (4 in the code)
    MaxCmds,       \* bound: commands the user enters
    ClientStores,  \* possible starting directories of the client ...
    ServerStores,  \* ... and of the server, both [Files -> content or None]
    FaultSets      \* the sets of faults, of FaultKinds, a session may meet

FaultKinds ==
    { "cprepare",  \* the client fails to compress or encrypt a file it has
      "sprepare",  \* the server does
      "process",   \* decrypting or decompressing a whole stream fails
      "copen",     \* the client cannot name or open its temporary file
      "sopen",     \* the server cannot
      "list",      \* the directory to list is missing or popen() fails
      "connect",   \* the server cannot connect to the client's data port
      "crash" }    \* either program is killed

Values == Contents \cup {Spoiled}
Stores == [Files -> Values \cup {None}]

ASSUME TransferAssumption ==
    /\ Blocks \in Nat \ {0} /\ DHRounds \in Nat \ {0} /\ MaxCmds \in Nat
    /\ None \notin Values /\ Spoiled \notin Contents
    /\ ClientStores \subseteq Stores /\ ServerStores \subseteq Stores
    /\ FaultSets \subseteq SUBSET FaultKinds

VARIABLES
    c,        \* the client's local state
    s,        \* the server child's local state
    cfile,    \* the client's working directory
    sfile,    \* the server's working directory
    c2s, s2c, \* control connection: commands and replies in flight
    dc2s, ds2c, \* data connection: half-keys and blocks in flight
    pending,  \* a data connection waits in the client's listen queue
    faults    \* the faults this session may meet

ctl  == <<c2s, s2c>>
data == <<dc2s, ds2c, pending>>
vars == <<c, s, cfile, sfile, c2s, s2c, dc2s, ds2c, pending, faults>>

-----------------------------------------------------------------------------
(* Messages.                                                               *)
Verb == [ls |-> "LIST", get |-> "RETR", put |-> "STOR", skip |-> "SKIP"]
Ops  == DOMAIN Verb          \* "skip" is a get or put without a file name
Codes == {0, 200, 221, 451, 550}
Ids   == 0..MaxCmds
Names == Files \cup {None}
Verbs == {Verb[op] : op \in Ops}

Command(verb, file, id) == [verb |-> verb, file |-> file, id |-> id]
Reply(code, id) == [code |-> code, id |-> id]
NoReply == Reply(0, 0)       \* what a read leaves when the peer has gone
Halves == [side : {"client", "server"}, id : Ids, round : Nat]
Keys   == Seq((Halves \cup {None}) \X (Halves \cup {None}))
Half(side, id, round) == [side |-> side, id |-> id, round |-> round]
Stream(v, key) == [n \in 1..Blocks |-> [of |-> v, key |-> key, n |-> n]]
Listing(n) == [i \in 1..n |-> [of |-> "listing", key |-> <<>>, n |-> i]]

Init ==
    /\ c = [pc |-> "prompt", op |-> "skip", file |-> None, id |-> 0,
            key |-> <<>>, buf |-> <<>>, open |-> FALSE, ctlDone |-> FALSE,
            dataDone |-> FALSE, reply |-> NoReply, ok |-> TRUE, temp |-> {}]
    /\ s = [pc |-> "idle", verb |-> "SKIP", file |-> None, id |-> 0,
            key |-> <<>>, buf |-> <<>>, open |-> FALSE, ok |-> TRUE, temp |-> {}]
    /\ cfile \in ClientStores /\ sfile \in ServerStores
    /\ c2s = <<>> /\ s2c = <<>> /\ dc2s = <<>> /\ ds2c = <<>>
    /\ pending = FALSE
    /\ faults \in FaultSets

ClientUp == c.pc \notin {"done", "dead"}
ServerUp == s.pc \notin {"exit", "dead"}
ClientDataClosed == ~c.open /\ ~pending    \* the server reads end of file
ServerDataClosed == ~s.open                \* the client does

Temp(kinds, id) == {<<k, id>> : k \in kinds}

(* prepare_file: the ways it can end on content v, and the temporary files *)
(* each leaves.                                                            *)
Prepared(v, fault) ==
    {[ok |-> TRUE, left |-> {"enc"}] : x \in {v} \ {None}}
    \cup {[ok |-> FALSE, left |-> l] :
            l \in {k \in {{"comp"}, {"comp", "enc"}} :
                     \/ fault \in faults
                     \/ v \in {None, Spoiled} /\ k = {"comp"}}}

(* process_received_file on the received temporary file buf takes two      *)
(* steps.  dec_file fails on an empty file and can fail on one that is not *)
(* whole, which leaves the destination alone.  Then uncomp_file opens the  *)
(* destination for writing, which empties it, and writes it batch by batch *)
(* until it ends or fails: until then, and for good if it fails or the     *)
(* program is killed, the destination is Spoiled.  A stream cut at a chunk *)
(* header uncompresses without an error.                                   *)
Whole(buf, key) == \E v \in Values : buf = Stream(v, key)

Decrypted(buf, key) ==
    {ok \in BOOLEAN : IF ok THEN buf # <<>>
                      ELSE buf = <<>> \/ ~Whole(buf, key) \/ "process" \in faults}

Incomplete(buf, key) ==
    {ok \in BOOLEAN : ~Whole(buf, key) \/ (~ok /\ "process" \in faults)}

-----------------------------------------------------------------------------
(* The client.                                                             *)

(* main: the user enters a command; PORT goes out.                         *)
UserCommand(op, f) ==
    /\ c.pc = "prompt" /\ c.id < MaxCmds
    /\ c' = [c EXCEPT !.pc = "accept", !.op = op, !.file = f, !.id = @ + 1,
                      !.key = <<>>, !.buf = <<>>, !.ctlDone = FALSE,
                      !.dataDone = FALSE, !.reply = NoReply]
    /\ c2s' = Append(c2s, Command("PORT", f, c.id + 1))
    /\ UNCHANGED <<s, cfile, sfile, s2c, data, faults>>

(* main and do_quit: QUIT goes out, then any reply (or none) ends the      *)
(* program.                                                                *)
UserQuit ==
    /\ c.pc = "prompt"
    /\ c' = [c EXCEPT !.pc = "quit"]
    /\ c2s' = Append(c2s, Command("QUIT", None, c.id))
    /\ UNCHANGED <<s, cfile, sfile, s2c, data, faults>>

(* accept() returns once the server has connected; the handler's first act *)
(* is to write its command.                                                *)
ClientAccept ==
    /\ c.pc = "accept" /\ pending
    /\ pending' = FALSE
    /\ c' = [c EXCEPT !.open = TRUE,
                      !.pc = CASE c.op = "ls"   -> "ls"
                               [] c.op = "skip" -> "skip"
                               [] OTHER         -> "dh_send"]
    /\ c2s' = Append(c2s, Command(Verb[c.op], c.file, c.id))
    /\ UNCHANGED <<s, cfile, sfile, s2c, dc2s, ds2c, faults>>

(* A read of the control connection takes whatever has arrived, at least   *)
(* the first reply; only the first is looked at.                           *)
ControlReadable == s2c # <<>> \/ ~ServerUp
ReplyRead == IF s2c = <<>> THEN NoReply ELSE Head(s2c)
TakeReplies ==
    \E n \in 0..Len(s2c) :
        /\ n = 0 <=> s2c = <<>>
        /\ s2c' = SubSeq(s2c, n + 1, Len(s2c))

(* A handler returns to main, which closes the data connection.            *)
Return(cl, ok) ==
    [cl EXCEPT !.pc = "prompt", !.open = FALSE, !.ok = ok]

Crash(p) == [p EXCEPT !.pc = "dead", !.open = FALSE]

(* Mutant: SKIP is written and its reply not waited for.                   *)
ClientSkipUnread ==
    /\ c.pc \in {"skip", "put_skip"}
    /\ c' = Return(c, FALSE)
    /\ UNCHANGED <<s, cfile, sfile, ctl, data, faults>>

ClientSkipReply ==
    /\ c.pc \in {"skip", "put_skip"} /\ ControlReadable
    /\ TakeReplies
    /\ c' = Return([c EXCEPT !.reply = ReplyRead], FALSE)
    /\ UNCHANGED <<s, cfile, sfile, c2s, data, faults>>

ClientQuitReply ==
    /\ c.pc = "quit" /\ ControlReadable
    /\ TakeReplies
    /\ c' = [c EXCEPT !.pc = "done", !.reply = ReplyRead]
    /\ UNCHANGED <<s, cfile, sfile, c2s, data, faults>>

(* do_ls: a select loop over both connections.  A reply that is not 200    *)
(* ends it; at end of file on a dead control connection strtok returns     *)
(* NULL and atoi crashes.                                                  *)
ClientLsControl ==
    /\ c.pc = "ls" /\ ~c.ctlDone /\ ControlReadable
    /\ TakeReplies
    /\ LET r  == ReplyRead
           c1 == [c EXCEPT !.reply = r, !.ctlDone = TRUE]
       IN  c' = CASE r.code = 0 -> Crash(c)
                  [] r.code = 200 /\ ~c.dataDone -> c1
                  [] OTHER -> Return(c1, TRUE)
    /\ UNCHANGED <<s, cfile, sfile, c2s, data, faults>>

ClientLsData ==
    /\ c.pc = "ls" /\ ~c.dataDone /\ ServerDataClosed
    /\ ds2c' = <<>>
    /\ LET c1 == [c EXCEPT !.dataDone = TRUE, !.buf = ds2c]
       IN  c' = IF c.ctlDone THEN Return(c1, TRUE) ELSE c1
    /\ UNCHANGED <<s, cfile, sfile, ctl, dc2s, pending, faults>>

(* do_dh_client: one half-key out, one in, DHRounds times.  What read()    *)
(* returns is not looked at: at end of file the previous half is used, and *)
(* file data would be taken for a half (None: nobody's half).              *)
ClientHalf == Half("client", c.id, Len(c.key) + 1)
HalfRead(queue, key, i) ==
    CASE queue # <<>> /\ Head(queue) \in Halves -> Head(queue)
      [] queue = <<>> /\ key # <<>>             -> key[Len(key)][i]
      [] OTHER                                  -> None

ClientDHSend ==
    /\ c.pc = "dh_send"
    /\ dc2s' = IF ServerDataClosed THEN dc2s ELSE Append(dc2s, ClientHalf)
    /\ c' = [c EXCEPT !.pc = "dh_recv"]
    /\ UNCHANGED <<s, cfile, sfile, ctl, ds2c, pending, faults>>

(* Mutant: the client leaves the exchange one round early.                 *)
ClientDHRecvShort ==
    /\ c.pc = "dh_recv" /\ (ds2c # <<>> \/ ServerDataClosed)
    /\ LET kb  == HalfRead(ds2c, c.key, 2)
           key == Append(c.key, <<ClientHalf, kb>>)
       IN  c' = [c EXCEPT !.key = key,
                          !.pc = IF Len(key) < DHRounds - 1 THEN "dh_send"
                                ELSE IF c.op = "get"         THEN "get_open"
                                ELSE "put_prepare"]
    /\ ds2c' = IF ds2c = <<>> THEN <<>> ELSE Tail(ds2c)
    /\ UNCHANGED <<s, cfile, sfile, ctl, dc2s, pending, faults>>

ClientDHRecv ==
    /\ c.pc = "dh_recv" /\ (ds2c # <<>> \/ ServerDataClosed)
    /\ LET kb  == HalfRead(ds2c, c.key, 2)
           key == Append(c.key, <<ClientHalf, kb>>)
       IN  c' = [c EXCEPT !.key = key,
                          !.pc = IF Len(key) < DHRounds THEN "dh_send"
                                ELSE IF c.op = "get"     THEN "get_open"
                                ELSE "put_prepare"]
    /\ ds2c' = IF ds2c = <<>> THEN <<>> ELSE Tail(ds2c)
    /\ UNCHANGED <<s, cfile, sfile, ctl, dc2s, pending, faults>>

(* do_get: open the receive file, or return with the reply unread.         *)
ClientGetOpen ==
    /\ c.pc = "get_open"
    /\ \/ c' = [c EXCEPT !.pc = "get_recv", !.temp = @ \cup Temp({"enc"}, c.id)]
       \/ "copen" \in faults /\ c' = Return(c, FALSE)
    /\ UNCHANGED <<s, cfile, sfile, ctl, data, faults>>

ClientGetRecv ==
    /\ c.pc = "get_recv"
    /\ \/ /\ ds2c # <<>>
          /\ c' = [c EXCEPT !.buf = Append(@, Head(ds2c))]
          /\ ds2c' = Tail(ds2c)
       \/ /\ ds2c = <<>> /\ ServerDataClosed
          /\ c' = [c EXCEPT !.pc = "get_reply"]
          /\ UNCHANGED ds2c
       \/ /\ s.pc = "dead"                      \* connection reset
          /\ c' = [c EXCEPT !.pc = "get_abort"]
          /\ UNCHANGED ds2c
    /\ UNCHANGED <<s, cfile, sfile, ctl, dc2s, pending, faults>>

(* The reply is read and printed; only a failed read of the data removes   *)
(* the receive file.                                                       *)
ClientGetReply ==
    /\ c.pc \in {"get_reply", "get_abort"} /\ ControlReadable
    /\ TakeReplies
    /\ LET c1 == [c EXCEPT !.reply = ReplyRead]
       IN  c' = IF c.pc = "get_reply"
                THEN [c1 EXCEPT !.pc = "get_process"]
                ELSE Return([c1 EXCEPT !.temp = @ \ Temp({"enc"}, c.id)], FALSE)
    /\ UNCHANGED <<s, cfile, sfile, c2s, data, faults>>

ClientGetDecrypt ==
    /\ c.pc = "get_process"
    /\ \E ok \in Decrypted(c.buf, c.key) :
        \/ /\ ok
           /\ c' = [c EXCEPT !.pc = "get_uncomp",
                             !.temp = (@ \ Temp({"enc"}, c.id))
                                      \cup Temp({"comp"}, c.id)]
           /\ cfile' = [cfile EXCEPT ![c.file] = Spoiled]
        \/ /\ ~ok
           /\ c' = Return([c EXCEPT !.temp = @ \cup Temp({"enc", "comp"}, c.id)], FALSE)
           /\ UNCHANGED cfile
    /\ UNCHANGED <<s, sfile, ctl, data, faults>>

ClientGetUncomp ==
    /\ c.pc = "get_uncomp"
    /\ \/ \E v \in Values :
            /\ c.buf = Stream(v, c.key)
            /\ cfile' = [cfile EXCEPT ![c.file] = v]
            /\ c' = Return([c EXCEPT !.temp = @ \ Temp({"comp"}, c.id)], TRUE)
       \/ \E ok \in Incomplete(c.buf, c.key) :
            /\ c' = Return([c EXCEPT !.temp = @ \ {t \in Temp({"comp"}, c.id) : ok}], ok)
            /\ UNCHANGED cfile
    /\ UNCHANGED <<s, sfile, ctl, data, faults>>

(* do_put: prepare the file.  If that fails the client writes SKIP and     *)
(* waits for a reply; if the prepared file cannot be opened it returns     *)
(* with the reply unread.                                                  *)
ClientPutPrepare ==
    /\ c.pc = "put_prepare"
    /\ \E o \in Prepared(cfile[c.file], "cprepare") :
        LET c1 == [c EXCEPT !.temp = @ \cup Temp(o.left, c.id)]
        IN  \/ /\ ~o.ok
               /\ c' = [c1 EXCEPT !.pc = "put_skip"]
               /\ c2s' = Append(c2s, Command("SKIP", None, c.id))
            \/ /\ o.ok
               /\ c' = [c1 EXCEPT !.pc = "put_send",
                                  !.buf = Stream(cfile[c.file], c.key)]
               /\ UNCHANGED c2s
            \/ /\ o.ok /\ "copen" \in faults
               /\ c' = Return(c1, FALSE)
               /\ UNCHANGED c2s
    /\ UNCHANGED <<s, cfile, sfile, s2c, data, faults>>

PutReturn(cl) == Return([cl EXCEPT !.temp = @ \ Temp({"enc"}, c.id)], TRUE)

(* One write of the inner loop that sends the prepared file ...            *)
ClientPutWrite ==
    /\ c.pc = "put_send" /\ ~c.dataDone /\ c.buf # <<>>
    /\ dc2s' = IF ServerDataClosed THEN dc2s ELSE Append(dc2s, Head(c.buf))
    /\ c' = [c EXCEPT !.buf = Tail(@)]
    /\ UNCHANGED <<s, cfile, sfile, ctl, ds2c, pending, faults>>

(* Mutant: the loop may end before the file has been read to its end.      *)
ClientPutCloseEarly ==
    /\ c.pc = "put_send" /\ ~c.dataDone
    /\ LET c1 == [c EXCEPT !.dataDone = TRUE, !.open = FALSE]
       IN  c' = IF c.ctlDone THEN PutReturn(c1) ELSE c1
    /\ UNCHANGED <<s, cfile, sfile, ctl, data, faults>>

(* ... and, at its end, the close of the data connection.                  *)
ClientPutClose ==
    /\ c.pc = "put_send" /\ ~c.dataDone /\ c.buf = <<>>
    /\ LET c1 == [c EXCEPT !.dataDone = TRUE, !.open = FALSE]
       IN  c' = IF c.ctlDone THEN PutReturn(c1) ELSE c1
    /\ UNCHANGED <<s, cfile, sfile, ctl, data, faults>>

(* The reply is looked for before the inner loop and after it.             *)
ClientPutReply ==
    /\ c.pc = "put_send" /\ ~c.ctlDone /\ ControlReadable
    /\ c.dataDone \/ Len(c.buf) = Blocks
    /\ TakeReplies
    /\ LET r  == ReplyRead
           c1 == [c EXCEPT !.reply = r, !.ctlDone = TRUE]
       IN  c' = CASE r.code = 0 -> Crash(c)
                  [] r.code = 200 /\ ~c.dataDone -> c1
                  [] OTHER -> PutReturn(c1)
    /\ UNCHANGED <<s, cfile, sfile, c2s, data, faults>>

(* A write to a peer that has gone can raise SIGPIPE, which nobody handles. *)
ClientSigpipe ==
    /\ \/ c.pc = "prompt" /\ ~ServerUp
       \/ c.pc \in {"dh_send", "put_send"} /\ ~c.dataDone /\ ServerDataClosed
    /\ c' = Crash(c)
    /\ UNCHANGED <<s, cfile, sfile, ctl, data, faults>>

ClientKilled ==
    /\ "crash" \in faults /\ ClientUp
    /\ c' = Crash(c)
    /\ pending' = FALSE
    /\ UNCHANGED <<s, cfile, sfile, ctl, dc2s, ds2c, faults>>

ClientStep ==
    \/ ClientAccept \/ ClientSkipReply \/ ClientQuitReply
    \/ ClientLsControl \/ ClientLsData
    \/ ClientDHSend \/ ClientDHRecv
    \/ ClientGetOpen \/ ClientGetRecv \/ ClientGetReply
    \/ ClientGetDecrypt \/ ClientGetUncomp
    \/ ClientPutPrepare \/ ClientPutWrite \/ ClientPutClose \/ ClientPutReply

-----------------------------------------------------------------------------
(* The server child.                                                       *)

(* A read of the control connection takes one command or several at once.  *)
TakeCommands(n) == c2s' = SubSeq(c2s, n + 1, Len(c2s))
HasPort(n) == \E i \in 1..n : c2s[i].verb = "PORT"

(* Mutant: the loop is not left after QUIT.                                *)
ServerQuitStays ==
    /\ s.pc = "idle" /\ c2s # <<>> /\ Head(c2s).verb = "QUIT"
    /\ c2s' = Tail(c2s)
    /\ s2c' = Append(s2c, Reply(221, Head(c2s).id))
    /\ UNCHANGED <<c, s, cfile, sfile, data, faults>>

(* main: the first read of a turn expects QUIT or PORT.  Text before PORT  *)
(* is skipped up to the first blank; an empty read, or any other command,  *)
(* makes read_port_command parse fields that are missing.                  *)
ServerQuit ==
    /\ s.pc = "idle" /\ c2s # <<>> /\ Head(c2s).verb = "QUIT"
    /\ c2s' = Tail(c2s)
    /\ s2c' = Append(s2c, Reply(221, Head(c2s).id))
    /\ s' = [s EXCEPT !.pc = "exit"]
    /\ UNCHANGED <<c, cfile, sfile, data, faults>>

ServerPort ==
    /\ s.pc = "idle" /\ c2s # <<>> /\ Head(c2s).verb # "QUIT"
    /\ \E n \in 1..Len(c2s) : HasPort(n) /\ TakeCommands(n)
    /\ s' = [s EXCEPT !.pc = "setup"]
    /\ UNCHANGED <<c, cfile, sfile, s2c, data, faults>>

(* Mutant: an empty read is retried instead of parsed.                     *)
ServerGarbledRetry ==
    /\ s.pc = "idle" /\ c2s # <<>> /\ Head(c2s).verb # "QUIT"
    /\ \E n \in 1..Len(c2s) : ~HasPort(n)
    /\ s' = Crash(s)
    /\ UNCHANGED <<c, cfile, sfile, ctl, data, faults>>

ServerGarbled ==
    /\ \/ s.pc \in {"idle", "cmd"} /\ c2s = <<>> /\ ~ClientUp
       \/ /\ s.pc = "idle" /\ c2s # <<>> /\ Head(c2s).verb # "QUIT"
          /\ \E n \in 1..Len(c2s) : ~HasPort(n)
    /\ s' = Crash(s)
    /\ UNCHANGED <<c, cfile, sfile, ctl, data, faults>>

(* setup_data_connection: connect() succeeds as soon as the client listens;*)
(* if it fails the child closes the control connection and exits.          *)
ServerConnect ==
    /\ s.pc = "setup"
    /\ \/ /\ ClientUp
          /\ s' = [s EXCEPT !.pc = "cmd", !.open = TRUE]
          /\ pending' = TRUE /\ dc2s' = <<>> /\ ds2c' = <<>>
       \/ /\ "connect" \in faults \/ ~ClientUp
          /\ s' = [s EXCEPT !.pc = "exit"]
          /\ UNCHANGED data
    /\ UNCHANGED <<c, cfile, sfile, ctl, faults>>

(* main: the second read of the turn, and the dispatch on get_command;     *)
(* two commands read as one are no command, and get no reply.              *)
ServerCommand ==
    /\ s.pc = "cmd" /\ c2s # <<>>
    /\ c2s' = Tail(c2s)
    /\ LET m == Head(c2s)
       IN  /\ s' = [s EXCEPT !.verb = m.verb, !.file = m.file, !.id = m.id,
                             !.key = <<>>, !.buf = <<>>,
                             !.pc = CASE m.verb = "LIST" -> "list"
                                      [] m.verb \in {"RETR", "STOR"} -> "dh"
                                      [] OTHER -> "close"]
           /\ s2c' = IF m.verb = "SKIP" THEN Append(s2c, Reply(550, m.id)) ELSE s2c
    /\ UNCHANGED <<c, cfile, sfile, data, faults>>

ServerMerged ==
    /\ s.pc = "cmd"
    /\ \E n \in 2..Len(c2s) : TakeCommands(n)
    /\ s' = [s EXCEPT !.pc = "close"]
    /\ UNCHANGED <<c, cfile, sfile, s2c, data, faults>>

(* A handler replies and returns; main then closes the data connection.    *)
SendReply(code) == s2c' = Append(s2c, Reply(code, s.id))
Leave(sv, ok) == [sv EXCEPT !.pc = "close", !.ok = ok]

(* Mutant: main forgets to close the data connection.                      *)
ServerCloseLeaks ==
    /\ s.pc = "close"
    /\ s' = [s EXCEPT !.pc = "idle"]
    /\ UNCHANGED <<c, cfile, sfile, ctl, data, faults>>

ServerClose ==
    /\ s.pc = "close"
    /\ s' = [s EXCEPT !.pc = "idle", !.open = FALSE]
    /\ UNCHANGED <<c, cfile, sfile, ctl, data, faults>>

ServerList ==
    /\ s.pc = "list"
    /\ \/ \E n \in 0..Blocks :
            /\ ds2c' = ds2c \o Listing(n)
            /\ SendReply(200)
            /\ s' = Leave(s, TRUE)
       \/ /\ "list" \in faults
          /\ \E code \in {451, 550} : SendReply(code)
          /\ s' = Leave(s, FALSE)
          /\ UNCHANGED ds2c
    /\ UNCHANGED <<c, cfile, sfile, c2s, dc2s, pending, faults>>

(* do_dh_server: one half-key in, one out, DHRounds times.                 *)
ServerHalf == Half("server", s.id, Len(s.key) + 1)

(* Mutant: the half-key is read without waiting for it.                    *)
ServerDHNoWait ==
    /\ s.pc = "dh"
    /\ LET ka  == HalfRead(dc2s, s.key, 1)
           key == Append(s.key, <<ka, ServerHalf>>)
       IN  s' = [s EXCEPT !.key = key,
                          !.pc = IF Len(key) < DHRounds   THEN "dh"
                                ELSE IF s.verb = "RETR" THEN "retr_open"
                                ELSE "stor_open"]
    /\ dc2s' = IF dc2s = <<>> THEN <<>> ELSE Tail(dc2s)
    /\ ds2c' = IF ClientDataClosed THEN ds2c ELSE Append(ds2c, ServerHalf)
    /\ UNCHANGED <<c, cfile, sfile, ctl, pending, faults>>

ServerDH ==
    /\ s.pc = "dh" /\ (dc2s # <<>> \/ ClientDataClosed)
    /\ LET ka  == HalfRead(dc2s, s.key, 1)
           key == Append(s.key, <<ka, ServerHalf>>)
       IN  s' = [s EXCEPT !.key = key,
                          !.pc = IF Len(key) < DHRounds   THEN "dh"
                                ELSE IF s.verb = "RETR" THEN "retr_open"
                                ELSE "stor_open"]
    /\ dc2s' = IF dc2s = <<>> THEN <<>> ELSE Tail(dc2s)
    /\ ds2c' = IF ClientDataClosed THEN ds2c ELSE Append(ds2c, ServerHalf)
    /\ UNCHANGED <<c, cfile, sfile, ctl, pending, faults>>

(* do_retr: the file must exist, be prepared, and its prepared form be     *)
(* opened; each failure has its reply.                                     *)
ServerRetrOpen ==
    /\ s.pc = "retr_open"
    /\ \/ /\ sfile[s.file] = None
          /\ SendReply(550)
          /\ s' = Leave(s, FALSE)
       \/ /\ sfile[s.file] # None
          /\ \E o \in Prepared(sfile[s.file], "sprepare") :
              LET s1 == [s EXCEPT !.temp = @ \cup Temp(o.left, s.id)]
              IN  \/ /\ ~o.ok \/ "sopen" \in faults
                     /\ SendReply(451)
                     /\ s' = Leave(s1, FALSE)
                  \/ /\ o.ok
                     /\ s' = [s1 EXCEPT !.pc = "retr_send",
                                        !.buf = Stream(sfile[s.file], s.key)]
                     /\ UNCHANGED s2c
    /\ UNCHANGED <<c, cfile, sfile, c2s, data, faults>>

(* A failed write is not noticed (nmem_written is unsigned): the loop goes *)
(* on and the reply is still 200.                                          *)
ServerRetrWrite ==
    /\ s.pc = "retr_send" /\ s.buf # <<>>
    /\ ds2c' = IF ClientDataClosed THEN ds2c ELSE Append(ds2c, Head(s.buf))
    /\ s' = [s EXCEPT !.buf = Tail(@)]
    /\ UNCHANGED <<c, cfile, sfile, ctl, dc2s, pending, faults>>

(* Mutant: the success reply does not wait for the last write.             *)
ServerRetrDoneEarly ==
    /\ s.pc = "retr_send"
    /\ SendReply(200)
    /\ s' = Leave([s EXCEPT !.temp = @ \ Temp({"enc"}, s.id)], TRUE)
    /\ UNCHANGED <<c, cfile, sfile, c2s, data, faults>>

(* Mutant: the prepared file is not removed.                               *)
ServerRetrDoneKeeps ==
    /\ s.pc = "retr_send" /\ s.buf = <<>>
    /\ SendReply(200)
    /\ s' = Leave(s, TRUE)
    /\ UNCHANGED <<c, cfile, sfile, c2s, data, faults>>

ServerRetrDone ==
    /\ s.pc = "retr_send" /\ s.buf = <<>>
    /\ SendReply(200)
    /\ s' = Leave([s EXCEPT !.temp = @ \ Temp({"enc"}, s.id)], TRUE)
    /\ UNCHANGED <<c, cfile, sfile, c2s, data, faults>>

(* do_stor: open the receive file, or return without any reply.            *)
ServerStorOpen ==
    /\ s.pc = "stor_open"
    /\ \/ s' = [s EXCEPT !.pc = "stor_recv", !.temp = @ \cup Temp({"enc"}, s.id)]
       \/ "sopen" \in faults /\ s' = Leave(s, FALSE)
    /\ UNCHANGED <<c, cfile, sfile, ctl, data, faults>>

ServerStorRecv ==
    /\ s.pc = "stor_recv" /\ dc2s # <<>>
    /\ s' = [s EXCEPT !.buf = Append(@, Head(dc2s))]
    /\ dc2s' = Tail(dc2s)
    /\ UNCHANGED <<c, cfile, sfile, ctl, ds2c, pending, faults>>

(* Mutant: the receive loop stops before the end of file.                  *)
ServerStorEofEarly ==
    /\ s.pc = "stor_recv"
    /\ SendReply(200)
    /\ s' = [s EXCEPT !.pc = "stor_process"]
    /\ UNCHANGED <<c, cfile, sfile, c2s, data, faults>>

(* At end of file (or on a read error) the reply is 200, before the file   *)
(* is decrypted and decompressed.                                          *)
ServerStorEof ==
    /\ s.pc = "stor_recv" /\ dc2s = <<>> /\ ClientDataClosed
    /\ SendReply(200)
    /\ s' = [s EXCEPT !.pc = "stor_process"]
    /\ UNCHANGED <<c, cfile, sfile, c2s, data, faults>>

(* Mutant: the destination is opened before the file has been decrypted.   *)
ServerStorDecryptLate ==
    /\ s.pc = "stor_process"
    /\ \E ok \in Decrypted(s.buf, s.key) :
        s' = IF ok THEN [s EXCEPT !.pc = "stor_uncomp",
                                  !.temp = (@ \ Temp({"enc"}, s.id))
                                           \cup Temp({"comp"}, s.id)]
             ELSE Leave([s EXCEPT !.temp = @ \cup Temp({"enc", "comp"}, s.id)], FALSE)
    /\ sfile' = [sfile EXCEPT ![s.file] = Spoiled]
    /\ UNCHANGED <<c, cfile, ctl, data, faults>>

ServerStorDecrypt ==
    /\ s.pc = "stor_process"
    /\ \E ok \in Decrypted(s.buf, s.key) :
        \/ /\ ok
           /\ s' = [s EXCEPT !.pc = "stor_uncomp",
                             !.temp = (@ \ Temp({"enc"}, s.id))
                                      \cup Temp({"comp"}, s.id)]
           /\ sfile' = [sfile EXCEPT ![s.file] = Spoiled]
        \/ /\ ~ok
           /\ s' = Leave([s EXCEPT !.temp = @ \cup Temp({"enc", "comp"}, s.id)], FALSE)
           /\ UNCHANGED sfile
    /\ UNCHANGED <<c, cfile, ctl, data, faults>>

(* Mutant: a failure after the 200 is reported by a second reply.          *)
ServerStorUncompReply ==
    /\ s.pc = "stor_uncomp"
    /\ \/ \E v \in Values :
            /\ s.buf = Stream(v, s.key)
            /\ sfile' = [sfile EXCEPT ![s.file] = v]
            /\ s' = Leave([s EXCEPT !.temp = @ \ Temp({"comp"}, s.id)], TRUE)
            /\ UNCHANGED s2c
       \/ \E ok \in Incomplete(s.buf, s.key) :
            /\ s' = Leave([s EXCEPT !.temp = @ \ {t \in Temp({"comp"}, s.id) : ok}], ok)
            /\ s2c' = IF ok THEN s2c ELSE Append(s2c, Reply(451, s.id))
            /\ UNCHANGED sfile
    /\ UNCHANGED <<c, cfile, c2s, data, faults>>

ServerStorUncomp ==
    /\ s.pc = "stor_uncomp"
    /\ \/ \E v \in Values :
            /\ s.buf = Stream(v, s.key)
            /\ sfile' = [sfile EXCEPT ![s.file] = v]
            /\ s' = Leave([s EXCEPT !.temp = @ \ Temp({"comp"}, s.id)], TRUE)
       \/ \E ok \in Incomplete(s.buf, s.key) :
            /\ s' = Leave([s EXCEPT !.temp = @ \ {t \in Temp({"comp"}, s.id) : ok}], ok)
            /\ UNCHANGED sfile
    /\ UNCHANGED <<c, cfile, ctl, data, faults>>

ServerSigpipe ==
    /\ \/ s.pc \in {"dh", "list", "retr_send"} /\ ClientDataClosed
       \/ s.pc \in {"retr_open", "retr_send"} /\ ~ClientUp
       \/ s.pc = "stor_recv" /\ dc2s = <<>> /\ ~ClientUp
    /\ s' = Crash(s)
    /\ UNCHANGED <<c, cfile, sfile, ctl, data, faults>>

ServerKilled ==
    /\ "crash" \in faults /\ ServerUp
    /\ s' = Crash(s)
    /\ UNCHANGED <<c, cfile, sfile, ctl, data, faults>>

ServerStep ==
    \/ ServerQuit \/ ServerPort \/ ServerGarbled \/ ServerConnect
    \/ ServerCommand \/ ServerMerged \/ ServerClose
    \/ ServerList \/ ServerDH
    \/ ServerRetrOpen \/ ServerRetrWrite \/ ServerRetrDone
    \/ ServerStorOpen \/ ServerStorRecv \/ ServerStorEof
    \/ ServerStorDecrypt \/ ServerStorUncomp

UserStep ==
    \/ UserQuit \/ \E op \in Ops, f \in Files : UserCommand(op, f)

SignalStep ==
    \/ ClientSigpipe \/ ClientKilled \/ ServerSigpipe \/ ServerKilled

Next == UserStep \/ ClientStep \/ ServerStep \/ SignalStep

Spec == Init /\ [][Next]_vars

(* Both programs run whenever they are not blocked in a system call.       *)
(* Nothing is assumed of the user, of signals or of kills.                 *)
FairSpec == Spec /\ WF_vars(ClientStep) /\ WF_vars(ServerStep)

-----------------------------------------------------------------------------
(* Types.                                                                  *)
ClientPcs == {"prompt", "accept", "skip", "quit", "ls", "dh_send", "dh_recv",
              "get_open", "get_recv", "get_reply", "get_abort", "get_process",
              "get_uncomp", "put_prepare", "put_skip", "put_send", "done", "dead"}
ServerPcs == {"idle", "setup", "cmd", "close", "list", "dh", "retr_open",
              "retr_send", "stor_open", "stor_recv", "stor_process",
              "stor_uncomp", "exit", "dead"}
Replies  == [code : Codes, id : Ids]
Commands == [verb : Verbs \cup {"PORT", "QUIT"}, file : Names, id : Ids]
FileBlocks == [of : Values \cup {"listing"}, key : Keys, n : Nat]
Messages == Halves \cup FileBlocks
Temps    == SUBSET ({"enc", "comp"} \X Ids)

ClientStates ==
    [pc : ClientPcs, op : Ops, file : Names, id : Ids, key : Keys,
     buf : Seq(Messages), open : BOOLEAN, ctlDone : BOOLEAN, dataDone : BOOLEAN,
     reply : Replies, ok : BOOLEAN, temp : Temps]
ServerStates ==
    [pc : ServerPcs, verb : Verbs, file : Names, id : Ids, key : Keys,
     buf : Seq(Messages), open : BOOLEAN, ok : BOOLEAN, temp : Temps]

(* The types of both programs' state and of everything in flight.          *)
TypeOK ==
    /\ c \in ClientStates /\ s \in ServerStates
    /\ cfile \in Stores /\ sfile \in Stores
    /\ c2s \in Seq(Commands) /\ s2c \in Seq(Replies)
    /\ dc2s \in Seq(Messages)
    /\ ds2c \in Seq(Messages)
    /\ pending \in BOOLEAN
    /\ faults \in SUBSET FaultKinds

-----------------------------------------------------------------------------
(* Safety.                                                                 *)

(* Neither program frames its control messages, so a read may return two   *)
(* commands at once and get_command would see one.  It does not happen: a  *)
(* running server child is always sent its next command after it has read  *)
(* the last, whatever fails, unless the client left a reply unread.        *)
ControlLockStep == ServerUp /\ "copen" \notin faults => Len(c2s) <= 1

(* Both ends of a command that is past the key exchange hold the same key, *)
(* made of each round's own half-keys, although half-keys and file data    *)
(* share one unframed connection and the reads are not checked.            *)
PastDH(key) == Len(key) = DHRounds
KeysAgree ==
    /\ PastDH(c.key) /\ PastDH(s.key) /\ c.id = s.id
    /\ c.pc \notin {"dead", "prompt"} /\ s.pc # "dead"
    => /\ c.key = s.key
       /\ \A r \in 1..DHRounds : c.key[r] = <<Half("client", c.id, r),
                                               Half("server", c.id, r)>>

(* A get whose own reply was 200 has the whole prepared file, under the    *)
(* client's key, in its receive file, even if the server dies right after  *)
(* the reply: do_retr replies only once it has written everything.         *)
GetWhole ==
    c.pc = "get_process" /\ c.reply = Reply(200, c.id) => Whole(c.buf, c.key)

(* A server child that is done with the data of a put whose client ran to  *)
(* its end has received the whole prepared file.                           *)
PutWhole ==
    s.pc = "stor_process" /\ c.id = s.id /\ c.dataDone /\ c.pc # "dead"
        => Whole(s.buf, s.key)

(* The reply a client takes for the answer to its command is the answer to *)
(* that command: every path through a handler of the server sends at most  *)
(* one reply, and every path through the client's reads one, except the    *)
(* two that return when a temporary file cannot be opened ("copen").       *)
RepliesMatch ==
    "copen" \notin faults /\ c.reply.code # 0 => c.reply.id = c.id

(* A handler that returns success has removed every temporary file it      *)
(* made; those of a handler that failed stay.                              *)
TempsCleared ==
    /\ c.pc = "prompt" /\ c.ok => \A t \in c.temp : t[2] # c.id
    /\ s.pc \in {"close", "idle"} /\ s.ok => \A t \in s.temp : t[2] # s.id

(* Action property: the server's copy of a file is opened for writing only *)
(* when its new content has come whole under the server's key, or from a   *)
(* client that died; and a child that comes back from writing it, as every *)
(* child does that is not killed there, has written that content whole,    *)
(* unless the client died or a whole stream could not be decompressed.     *)
StoredWhole ==
    [][/\ \A f \in Files : sfile'[f] # sfile[f] =>
             \/ s.buf = Stream(sfile'[f], s.key)
             \/ sfile'[f] = Spoiled /\ (Whole(s.buf, s.key) \/ c.pc = "dead")
       /\ s.pc = "stor_uncomp" /\ s'.pc \notin {"stor_uncomp", "dead"} =>
             \/ s.buf = Stream(sfile'[s.file], s.key)
             \/ c.pc = "dead" \/ "process" \in faults]_vars

(* Refinement: whatever is lost, killed or refused, every transfer does to *)
(* the two directories what FileService says: it empties the copy it is    *)
(* about to replace and then completes it, or breaks off between the two.  *)
Service == INSTANCE FileService WITH
               cwrites <- {f \in {c.file} : c.pc = "get_uncomp"},
               swrites <- {f \in {s.file} : s.pc = "stor_uncomp"},
               unreliable <- faults \cap {"crash", "process"} # {}
ServiceSpec == Service!Spec

-----------------------------------------------------------------------------
(* Liveness.                                                               *)

(* What can fail and leave both programs with their turns: the server      *)
(* answers the first two, and process_received_file, at either end, comes  *)
(* after the reply.                                                        *)
Survivable == {"sprepare", "list", "process"}

(* A command that was sent comes back to the prompt, if nothing but that   *)
(* fails, and if it is not a put of a file that cannot be prepared, which  *)
(* is what SkipAnswered is about.                                          *)
CommandReturns ==
    /\ c.pc = "accept" /\ faults \subseteq Survivable
    /\ c.op = "put" => cfile[c.file] \in Contents
    ~> c.pc = "prompt"

(* When the user quits, the client ends and so does its server child.      *)
QuitEnds ==
    c.pc = "quit" /\ faults \subseteq Survivable ~> c.pc = "done" /\ s.pc = "exit"

(* A server child outlives neither a client that ended nor one that was    *)
(* killed in the middle of any command.                                    *)
ChildEnds == c.pc \in {"done", "dead"} ~> ~ServerUp

(* A client that gives up a put writes SKIP and reads the answer that main *)
(* gives to SKIP, 550 (src/src/ecftpclient.c:477-486,                      *)
(* src/src/ecftpserver.c:482-486).                                         *)
SkipAnswered == c.pc = "put_skip" ~> c.pc = "prompt"

(* "If there was an error receiving the file, delete the temp file it was  *)
(* to be written to" (src/src/ecftpclient.c:391-392): when the server has  *)
(* answered a get with an error, no receive file is left behind.           *)
FailedGetCleansUp ==
    c.pc = "prompt" /\ c.op = "get" /\ ~c.ok /\ c.reply.code \in {451, 550}
        => <<"enc", c.id>> \notin c.temp
=============================================================================
