--------------------------- MODULE DiffieHellman ---------------------------
(***************************************************************************)
(* do_dh_client and do_dh_server (src/src/ecftp.c:316-372) and the loop of *)
(* sq_mp (src/src/enc.c:55-72) that both are built on: the two ends of a   *)
(* data connection agree on a key, word by word.  The client writes its    *)
(* half of a word before it reads the other, the server after.  Transfer   *)
(* has the messages and what can happen to them; here are the numbers.     *)
(***************************************************************************)
EXTENDS Integers, Sequences

CONSTANTS
    dh_p, dh_g,  \* modulus and base
    Words,       \* words of a key
    WordSize,    \* 2^32: a word of the key
    IntSize,     \* 2^64: an integer of sq_mp
    Draws        \* what rand() gives the two ends for their words

Ends == {"client", "server"}
Other(e) == IF e = "client" THEN "server" ELSE "client"

ASSUME DHAssumption ==
    /\ dh_p \in Nat /\ dh_g \in Nat /\ WordSize \in Nat /\ IntSize \in Nat
    /\ dh_g < dh_p /\ 2 < dh_p /\ dh_p <= WordSize
    /\ WordSize * WordSize <= IntSize
    /\ Words \in Nat \ {0}
    /\ Draws \subseteq [Ends -> [1..Words -> 2..(dh_p - 1)]]

VARIABLES
    draw,  \* the secret exponents of each end
    pc,    \* what each end is doing
    i,     \* the word each end is at
    a, b, y,  \* the variables of the sq_mp each end is in
    half,  \* the half-key each end computed: dh_ka or dh_kb
    fd,    \* numbers on their way to each end
    key    \* the key of each end

dhVars == <<draw, pc, i, a, b, y, half, fd, key>>

DHInit ==
    /\ draw \in Draws
    /\ pc = [e \in Ends |-> "half"]
    /\ i = [e \in Ends |-> 1]
    /\ a = [e \in Ends |-> dh_g] /\ y = [e \in Ends |-> 1]
    /\ b = [e \in Ends |-> draw[e][1]]
    /\ half = [e \in Ends |-> 0]
    /\ fd = [e \in Ends |-> <<>>]
    /\ key = [e \in Ends |-> [k \in 1..Words |-> 0]]

(* Unsigned arithmetic of sq_mp.                                           *)
Times(m, n) == (m * n) % IntSize

(* Mutant: squares are not reduced.                                        *)
SquareUnreduced(e) ==
    /\ pc[e] \in {"half", "key"} /\ b[e] > 0
    /\ y' = [y EXCEPT ![e] = IF b[e] % 2 = 1 THEN Times(y[e], a[e]) % dh_p ELSE y[e]]
    /\ a' = [a EXCEPT ![e] = Times(a[e], a[e])]
    /\ b' = [b EXCEPT ![e] = b[e] \div 2]
    /\ UNCHANGED <<draw, pc, i, half, fd, key>>

(* One turn of sq_mp's loop.                                               *)
Square(e) ==
    /\ pc[e] \in {"half", "key"} /\ b[e] > 0
    /\ y' = [y EXCEPT ![e] = IF b[e] % 2 = 1 THEN Times(y[e], a[e]) % dh_p ELSE y[e]]
    /\ a' = [a EXCEPT ![e] = Times(a[e], a[e]) % dh_p]
    /\ b' = [b EXCEPT ![e] = b[e] \div 2]
    /\ UNCHANGED <<draw, pc, i, half, fd, key>>

(* The half-key is computed; the client sends first, the server second.    *)
HalfDone(e) ==
    /\ pc[e] = "half" /\ b[e] = 0
    /\ half' = [half EXCEPT ![e] = y[e]]
    /\ pc' = [pc EXCEPT ![e] = IF e = "client" THEN "write" ELSE "read"]
    /\ UNCHANGED <<draw, i, a, b, y, fd, key>>

WriteHalf(e) ==
    /\ pc[e] = "write"
    /\ fd' = [fd EXCEPT ![Other(e)] = Append(@, half[e])]
    /\ pc' = [pc EXCEPT ![e] = IF e = "client" THEN "read" ELSE "key"]
    /\ UNCHANGED <<draw, i, a, b, y, half, key>>

(* The number read is what the second sq_mp starts from.                   *)
ReadHalf(e) ==
    /\ pc[e] = "read" /\ fd[e] # <<>>
    /\ fd' = [fd EXCEPT ![e] = Tail(@)]
    /\ a' = [a EXCEPT ![e] = Head(fd[e])]
    /\ y' = [y EXCEPT ![e] = 1]
    /\ b' = [b EXCEPT ![e] = draw[e][i[e]]]
    /\ pc' = [pc EXCEPT ![e] = IF e = "client" THEN "key" ELSE "write"]
    /\ UNCHANGED <<draw, i, half, key>>

(* Mutant: the word is the power of the base, not of the other's half.     *)
KeyDoneOwnHalf(e) ==
    /\ pc[e] = "key" /\ b[e] = 0
    /\ key' = [key EXCEPT ![e][i[e]] = half[e] % WordSize]
    /\ IF i[e] < Words
       THEN /\ pc' = [pc EXCEPT ![e] = "half"]
            /\ i' = [i EXCEPT ![e] = @ + 1]
            /\ a' = [a EXCEPT ![e] = dh_g] /\ y' = [y EXCEPT ![e] = 1]
            /\ b' = [b EXCEPT ![e] = draw[e][i[e] + 1]]
       ELSE pc' = [pc EXCEPT ![e] = "done"] /\ UNCHANGED <<i, a, b, y>>
    /\ UNCHANGED <<draw, half, fd>>

(* A word of the key is done, and the next is begun.                       *)
KeyDone(e) ==
    /\ pc[e] = "key" /\ b[e] = 0
    /\ key' = [key EXCEPT ![e][i[e]] = y[e] % WordSize]
    /\ IF i[e] < Words
       THEN /\ pc' = [pc EXCEPT ![e] = "half"]
            /\ i' = [i EXCEPT ![e] = @ + 1]
            /\ a' = [a EXCEPT ![e] = dh_g] /\ y' = [y EXCEPT ![e] = 1]
            /\ b' = [b EXCEPT ![e] = draw[e][i[e] + 1]]
       ELSE pc' = [pc EXCEPT ![e] = "done"] /\ UNCHANGED <<i, a, b, y>>
    /\ UNCHANGED <<draw, half, fd>>

DHStep(e) == Square(e) \/ HalfDone(e) \/ WriteHalf(e) \/ ReadHalf(e) \/ KeyDone(e)
DHNext == \E e \in Ends : DHStep(e)

DHSpec == DHInit /\ [][DHNext]_dhVars

-----------------------------------------------------------------------------
(* The products of sq_mp never exceed 64 bits, at either end and at every  *)
(* turn of the loop, the half-key that came from the other end included    *)
(* (src/src/enc.c:64, 67).                                                 *)
NoOverflow ==
    \A e \in Ends : b[e] > 0 => y[e] * a[e] < IntSize /\ a[e] * a[e] < IntSize

(* Once the exchange is over both ends hold the same key, word by word:    *)
(* each computed it from its own secret and the other's half               *)
(* (src/src/ecftp.c:337, 366).                                             *)
SameKey == (\A e \in Ends : pc[e] = "done") => key["client"] = key["server"]

(* Every number an end computes with is below the modulus.                 *)
Reduced ==
    /\ draw \in [Ends -> [1..Words -> Nat]]
    /\ pc \in [Ends -> {"half", "write", "read", "key", "done"}]
    /\ i \in [Ends -> 1..Words]
    /\ a \in [Ends -> 0..(dh_p - 1)] /\ y \in [Ends -> 0..(dh_p - 1)]
    /\ b \in [Ends -> Nat]
    /\ half \in [Ends -> 0..(dh_p - 1)]
    /\ fd \in [Ends -> Seq(0..(dh_p - 1))]
=============================================================================
