--------------------------- MODULE SecureChannel ---------------------------
(***************************************************************************)
(* A block of a file from one end of a data connection to the other: the   *)
(* ends agree on a key (DiffieHellman), the sender encrypts the block with *)
(* its key and the receiver decrypts it with its own.  The block of        *)
(* padding that enc_file adds is encrypted without being put in rows.      *)
(***************************************************************************)
EXTENDS DiffieHellman, Aes

CONSTANT Texts  \* blocks to send

VARIABLES
    avars,   \* the tables: both ends fill in the same
    rkeys,   \* the round keys of each end, as far as expanded
    sender,  \* the server in a RETR, the client in a STOR
    text,    \* the block as it is in the file
    block,   \* what the cipher has made of it
    stage,   \* what is being done with it
    round    \* the round that is next

channelVars == <<avars, rkeys, sender, text, block, stage, round>>
vars == <<dhVars, channelVars>>

Init ==
    /\ DHInit
    /\ avars = SboxStart
    /\ rkeys = [e \in Ends |-> <<>>]
    /\ sender = "none" /\ text = <<>> /\ block = <<>>
    /\ stage = "tables" /\ round = 0

KeyExchange == DHNext /\ UNCHANGED channelVars

FillTables ==
    /\ stage = "tables" /\ \A e \in Ends : pc[e] = "done"
    /\ LET turned == SboxTurn(avars)
       IN  IF turned.p # 1
           THEN avars' = turned /\ UNCHANGED stage
           ELSE avars' = initialize_aes_sbox_zero(turned) /\ stage' = "keys"
    /\ UNCHANGED <<dhVars, rkeys, sender, text, block, round>>

(* enc_file at the sender, dec_file at the receiver, expand their keys.    *)
ExpandKeys ==
    /\ stage = "keys"
    /\ rkeys' = [e \in Ends |->
         Append(rkeys[e], IF round = 0
                          THEN FirstRoundKey(key[e])
                          ELSE NextRoundKey(rkeys[e][round], round - 1, avars.sbox))]
    /\ IF round < 10
       THEN round' = round + 1 /\ UNCHANGED stage
       ELSE round' = 0 /\ stage' = "file"
    /\ UNCHANGED <<dhVars, avars, sender, text, block>>

(* encrypt_chunk_of_file takes the next block.                             *)
TakeBlock(e) ==
    /\ stage = "file"
    /\ \E t \in Texts : text' = t /\ block' = to_column_order(t)
    /\ sender' = e /\ stage' = "encrypt" /\ round' = 0
    /\ UNCHANGED <<dhVars, avars, rkeys>>

(* enc_file's last block.                                                  *)
TakePadding(e) ==
    /\ stage = "file"
    /\ text' = [k \in 1..16 |-> 16] /\ block' = text'
    /\ sender' = e /\ stage' = "encrypt" /\ round' = 0
    /\ UNCHANGED <<dhVars, avars, rkeys>>

EncryptRound ==
    /\ stage = "encrypt"
    /\ block' = encrypt(block, round, At(rkeys[sender], round), avars.sbox)
    /\ IF round < 10
       THEN round' = round + 1 /\ UNCHANGED stage
       ELSE round' = 0 /\ stage' = "decrypt"
    /\ UNCHANGED <<dhVars, avars, rkeys, sender, text>>

(* At the other end, with its key schedule backwards.                      *)
DecryptRound ==
    /\ stage = "decrypt"
    /\ LET plain == decrypt(block, round, At(rkeys[Other(sender)], 10 - round), avars.sboxinv)
       IN  IF round < 10
           THEN block' = plain /\ round' = round + 1 /\ UNCHANGED stage
           ELSE block' = to_row_order(plain) /\ round' = 0 /\ stage' = "received"
    /\ UNCHANGED <<dhVars, avars, rkeys, sender, text>>

Next ==
    \/ KeyExchange
    \/ FillTables
    \/ ExpandKeys
    \/ \E e \in Ends : TakeBlock(e) \/ TakePadding(e)
    \/ EncryptRound
    \/ DecryptRound

Spec == Init /\ [][Next]_vars

-----------------------------------------------------------------------------
(* What is decrypted is what was encrypted: the tables, the row and column *)
(* steps and the key schedule are undone in order, whichever end sends     *)
(* (src/src/aes.c:197-234, src/src/enc.c:74-94, 119-145, 414-427).         *)
BlocksBack == stage = "received" => block = text
=============================================================================
