-------------------------------- MODULE Sha512 --------------------------------
(***************************************************************************)
(* SHA-512 as src/kernel/crypto/sha512/hash_sha512_cp.c computes it.  The  *)
(* streaming part keeps a count of bits in two words and a buffer of one   *)
(* block; what it hands to SHA512_Transform is recorded as a sequence of   *)
(* blocks, which determines the hash.  The transform is separate: rounds   *)
(* that rename the registers instead of moving them.                       *)
(***************************************************************************)
EXTENDS Integers, Sequences, Bitwise

CONSTANTS
    BlockSize,   \* 128 bytes
    LengthSize,  \* 16 bytes at the end of the last block
    CountWidth,  \* 64, bits in each word of the count
    Rounds,      \* 80
    WordBits,    \* 64, in a word of the transform
    Krnd(_)      \* the constant of a round

LOCAL S == INSTANCE SequencesExt

(* PAD is one marker byte and zeros; Count is the field of the bit count.  *)
Marker == -1
Zero == 0
Count(hi, lo) == [hi |-> hi, lo |-> lo]

crypto_hash_sha512_init ==
    [count |-> Count(0, 0), buf |-> [i \in 0 .. BlockSize - 1 |-> Zero], blocks |-> <<>>]

Fill(buf, at, bytes) ==
    [i \in 0 .. BlockSize - 1 |-> IF i \in at .. at + Len(bytes) - 1 THEN bytes[i - at + 1] ELSE buf[i]]
Transform(st) == [st EXCEPT !.blocks = Append(@, st.buf)]
Fill0(st) == (st.count.lo \div 8) % BlockSize

(* bitlen is the length of the input in bits, over two words. *)
AddCount(c, inlen) ==
    LET b1 == (inlen * 8) % 2^CountWidth
        lo == (c.lo + b1) % 2^CountWidth
    IN  Count(c.hi + (IF lo < b1 THEN 1 ELSE 0) + inlen \div 2^(CountWidth - 3), lo)

RECURSIVE WholeBlocks(_, _)
WholeBlocks(st, in) ==
    IF Len(in) < BlockSize THEN [st EXCEPT !.buf = Fill(@, 0, in)]
    ELSE WholeBlocks([st EXCEPT !.blocks = Append(@, Fill(st.buf, 0, SubSeq(in, 1, BlockSize)))],
                     SubSeq(in, BlockSize + 1, Len(in)))

crypto_hash_sha512_update(st, in) ==
    LET r == Fill0(st)
        room == BlockSize - r
        counted == [st EXCEPT !.count = AddCount(@, Len(in))]
    IN  IF Len(in) = 0 THEN st
        ELSE IF Len(in) < room THEN [counted EXCEPT !.buf = Fill(@, r, in)]
        ELSE WholeBlocks(Transform([counted EXCEPT !.buf = Fill(@, r, SubSeq(in, 1, room))]),
                         SubSeq(in, room + 1, Len(in)))

(* SHA512_Pad: the marker and zeros up to the length field, through a      *)
(* further block when the field does not fit, then the count.              *)
Pad(n) == [i \in 1 .. n |-> IF i = 1 THEN Marker ELSE Zero]
SHA512_PadStale(st) ==
    LET r == Fill0(st)
        end == BlockSize - LengthSize
        padded == IF r < end THEN [st EXCEPT !.buf = Fill(@, r, Pad(end - r))]
                  ELSE Transform([st EXCEPT !.buf = Fill(@, r, Pad(BlockSize - r))])
    IN  Transform([padded EXCEPT !.buf = Fill(@, end, [i \in 1 .. LengthSize |-> <<i, st.count>>])])
SHA512_Pad(st) ==
    LET r == Fill0(st)
        end == BlockSize - LengthSize
        padded == IF r < end THEN [st EXCEPT !.buf = Fill(@, r, Pad(end - r))]
                  ELSE LET t == Transform([st EXCEPT !.buf = Fill(@, r, Pad(BlockSize - r))])
                       IN  [t EXCEPT !.buf = Fill(@, 0, [i \in 1 .. end |-> Zero])]
    IN  Transform([padded EXCEPT !.buf = Fill(@, end, [i \in 1 .. LengthSize |-> <<i, st.count>>])])

(* What crypto_hash_sha512_final hashes, after the given updates. *)
crypto_hash_sha512_final(st) == SHA512_Pad(st).blocks
Hashed(pieces) == crypto_hash_sha512_final(
    S!FoldLeft(crypto_hash_sha512_update, crypto_hash_sha512_init, pieces))

-------------------------------------------------------------------------------
(* SHA512_Transform, on words of WordBits bits; a rotation by more than    *)
(* that goes round.                                                        *)
W64(x) == x % 2^WordBits
SHR(x, n) == x \div 2^n
ROTR(x, n) == LET k == n % WordBits IN SHR(x, k) + (x % 2^k) * 2^(WordBits - k)
BigS0(x) == (ROTR(x, 28) ^^ ROTR(x, 34)) ^^ ROTR(x, 39)
BigS1(x) == (ROTR(x, 14) ^^ ROTR(x, 18)) ^^ ROTR(x, 41)
SmallS0(x) == (ROTR(x, 1) ^^ ROTR(x, 8)) ^^ SHR(x, 7)
SmallS1(x) == (ROTR(x, 19) ^^ ROTR(x, 61)) ^^ SHR(x, 6)
Ch(x, y, z) == (x & (y ^^ z)) ^^ z
Maj(x, y, z) == (x & (y | z)) | (y & z)

MSCH(w, i) ==
    [j \in DOMAIN w \cup {i + 16} |->
        IF j = i + 16 THEN W64(SmallS1(w[i + 14]) + w[i + 9] + SmallS0(w[i + 1]) + w[i]) ELSE w[j]]

(* Round i of a group of 16: register a is S[(80 - i) % 8], and so on. *)
RNDr(regs, w, i) ==
    LET R(n) == (80 + n - (i % 16)) % 8
        h == W64(regs[R(7)] + BigS1(regs[R(4)]) + Ch(regs[R(4)], regs[R(5)], regs[R(6)])
                 + w[i] + Krnd(i))
    IN  [regs EXCEPT ![R(3)] = W64(@ + h),
                     ![R(7)] = W64(h + BigS0(regs[R(0)]) + Maj(regs[R(0)], regs[R(1)], regs[R(2)]))]

SHA512_Transform(state, block) ==
    LET Group(n) == [k \in 1 .. 16 |-> 16 * n + k - 1]
        Step(st, n) ==
            LET regs == S!FoldLeft(LAMBDA r, i : RNDr(r, st.w, i), st.regs, Group(n))
                w == IF n = Rounds \div 16 - 1 THEN st.w ELSE S!FoldLeft(MSCH, st.w, Group(n))
            IN  [regs |-> regs, w |-> w]
        last == S!FoldLeft(Step, [regs |-> state, w |-> block],
                           [n \in 1 .. Rounds \div 16 |-> n - 1]).regs
    IN  [j \in 0 .. 7 |-> W64(state[j] + last[j])]
===============================================================================
