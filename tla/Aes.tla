-------------------------------- MODULE Aes --------------------------------
(***************************************************************************)
(* The block cipher of src/src/aes.c, byte for byte: tables, key schedule, *)
(* encrypt and decrypt, as coded.  A text is four rows of four bytes.      *)
(* Texts, words and tables are sequences, indexed as in the code by At.    *)
(***************************************************************************)
EXTENDS Integers, Sequences

Table(F(_), n) == SubSeq([k \in 1..n |-> F(k - 1)], 1, n)
Word(B(_)) == Table(B, 4)
Text(B(_)) == Table(B, 16)
At(bytes, k) == bytes[k + 1]

Xor(m, n) ==
    LET Sum(w) == w * (((m \div w) + (n \div w)) % 2)
    IN  Sum(1) + Sum(2) + Sum(4) + Sum(8) + Sum(16) + Sum(32) + Sum(64) + Sum(128)

(* Shifts of a byte: what leaves it on the left is lost.                   *)
Shl(n, s) == (n * 2^s) % 256
ROTL8(n, s) == Shl(n, s) + (n \div 2^(8 - s))

Times2(n) == Xor(Shl(n, 1), IF n >= 128 THEN 27 ELSE 0)

Divide3(q) ==
    LET q1 == Xor(q, Shl(q, 1))
        q2 == Xor(q1, Shl(q1, 2))
        q4 == Xor(q2, Shl(q2, 4))
    IN  Xor(q4, IF q4 >= 128 THEN 9 ELSE 0)

Affine(q) ==
    Xor(Xor(Xor(Xor(Xor(q, ROTL8(q, 1)), ROTL8(q, 2)), ROTL8(q, 3)), ROTL8(q, 4)), 99)

(* One turn of the loop of initialize_aes_sbox: p is multiplied by 3 and q *)
(* divided by 3.  The loop is left when p is 1 again; 0 has no inverse.    *)
SboxTurn(s) ==
    LET p == Xor(s.p, Times2(s.p))
        q == Divide3(s.q)
    IN  [p |-> p, q |-> q,
         sbox |-> [s.sbox EXCEPT ![p + 1] = Affine(q)],
         sboxinv |-> [s.sboxinv EXCEPT ![Affine(q) + 1] = p]]

Unset == [k \in 1..256 |-> 0]
SboxStart == [p |-> 1, q |-> 1, sbox |-> Unset, sboxinv |-> Unset]

initialize_aes_sbox_zero(s) ==
    [s EXCEPT !.sbox = [@ EXCEPT ![1] = 99], !.sboxinv = [@ EXCEPT ![100] = 0]]

sub_text(text, box) == LET B(k) == At(box, At(text, k)) IN Text(B)
add_round_key(text, rkey) == LET B(k) == Xor(At(text, k), At(rkey, k)) IN Text(B)

(* Every row but the first moves by n places, 1 there and 3 back.          *)
Rotated(text, n) ==
    LET B(k) == At(text, IF k < 4 THEN k ELSE 4 * (k \div 4) + ((k + n) % 4)) IN Text(B)

shift_rows(text) == Rotated(text, 1)

(* Mutant: the rows move the same way back.                                *)
shift_rows_invSame(text) == Rotated(text, 1)

shift_rows_inv(text) == Rotated(text, 3)

(* What the last n turns of the loop of g_mul add to p.                    *)
g_mul_loop[n \in 0..8, x \in 0..255, z \in 0..255] ==
    IF n = 0
    THEN 0
    ELSE Xor(IF z % 2 # 0 THEN x ELSE 0, g_mul_loop[n - 1, Times2(x), z \div 2])

g_mul(x, z) == g_mul_loop[8, x, z]

(* Every column is multiplied by the factors f, which turn with the row.   *)
Mixed(text, f) ==
    LET T(k, row) == g_mul(At(f, (row - (k \div 4) + 4) % 4), At(text, 4 * row + (k % 4)))
        B(k) == Xor(Xor(T(k, 0), T(k, 1)), Xor(T(k, 2), T(k, 3)))
    IN  Text(B)

gmix_column == <<2, 3, 1, 1>>
gmix_column_inv == <<14, 11, 13, 9>>
mix_columns(text) == Mixed(text, gmix_column)
mix_columns_inv(text) == Mixed(text, gmix_column_inv)

rc == <<1, 2, 4, 8, 16, 32, 64, 128, 27, 54>>
rot_word(w) == LET B(j) == At(w, (j + 1) % 4) IN Word(B)
split_word(word) == LET B(j) == (word \div 2^(8 * j)) % 256 IN Word(B)

XorWords(v, w) == LET B(j) == Xor(At(v, j), At(w, j)) IN Word(B)

(* expkey, a round at a time: the first round key is the key, and the four *)
(* words of the next are each made of the one before and the one four      *)
(* before.  The round constant goes into every byte of the first.          *)
FirstRoundKey(key) == split_word(key[1]) \o split_word(key[2]) \o split_word(key[3]) \o split_word(key[4])

NextRoundKey(rkey, r, sbox) ==
    LET W(n) == SubSeq(rkey, 4 * n + 1, 4 * n + 4)
        Sub(j) == Xor(At(sbox, At(rot_word(W(3)), j)), At(rc, r))
        w0 == XorWords(W(0), Word(Sub))
        w1 == XorWords(W(1), w0)
        w2 == XorWords(W(2), w1)
    IN  w0 \o w1 \o w2 \o XorWords(W(3), w2)

(* One turn of the loops of encrypt and decrypt, the steps before and      *)
(* after the loops included, with the round key it uses.                   *)
encrypt(text, r, rkey, sbox) ==
    LET shifted == shift_rows(sub_text(text, sbox))
    IN  IF r = 0
        THEN add_round_key(text, rkey)
        ELSE add_round_key(IF r < 10 THEN mix_columns(shifted) ELSE shifted, rkey)

decrypt(text, r, rkey, sboxinv) ==
    LET back == add_round_key(sub_text(shift_rows_inv(text), sboxinv), rkey)
    IN  IF r = 0
        THEN add_round_key(text, rkey)
        ELSE IF r < 10 THEN mix_columns_inv(back) ELSE back

(* enc.c's change between the order of a file and rows, and back.          *)
to_column_order(text) == LET B(k) == At(text, 4 * (k % 4) + (k \div 4)) IN Text(B)
to_row_order(text) == LET B(k) == At(text, 4 * (k % 4) + (k \div 4)) IN Text(B)
=============================================================================
