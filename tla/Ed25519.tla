-------------------------------- MODULE Ed25519 -------------------------------
(***************************************************************************)
(* Key pairs, signatures and their verification, keypair.c, sign.c,        *)
(* open.c and obsolete.c of src/kernel/crypto/ed25519, over the operations *)
(* of Edwards25519.  The hash is any function of sequences to pairs of     *)
(* halves, a lower and an upper scalar's worth of bits.                    *)
(***************************************************************************)
EXTENDS Edwards25519

CONSTANTS
    Order,      \* the order L of the base point
    blacklist,  \* the table in small_order
    Hash(_)     \* [lo, hi] of a sequence of fields

sc_reduce(h) == (h.lo + 2^(4 * Nibbles) * h.hi) % Order
sc_muladd(a, b, c) == (a * (b % Order) + c) % Order

(* &= 248 on the first byte; &= 63 and |= 64 on the last. *)
Clamp(a) ==
    LET top == 2^(4 * Nibbles - 2) IN ((a % top) \div 8) * 8 + top

crypto_sign_ed25519_seed_keypair(seed) ==
    LET pk == ge_tobytes(ge_scalarmult_base(Clamp(Hash(<<seed>>).lo)))
    IN  [pk |-> pk, sk |-> [seed |-> seed, pk |-> pk]]

crypto_sign_ed25519_detached(m, sk) ==
    LET az == Hash(<<sk.seed>>)
        nonce == sc_reduce(Hash(<<az.hi, m>>))
        R == ge_tobytes(ge_scalarmult_base(nonce))
        hram == sc_reduce(Hash(<<R, sk.pk, m>>))
    IN  [R |-> R, S |-> sc_muladd(hram, Clamp(az.lo), nonce)]
small_order(R) == R \in blacklist

verify_detachedUnreduced(sig, m, pk) ==
    LET A == ge_frombytes_negate_vartime(pk)
        h == sc_reduce(Hash(<<sig.R, pk, m>>))
    IN  IF small_order(sig.R) \/ A = NotOnCurve \/ pk = 0 THEN -1
        ELSE IF ge_tobytes(ge_double_scalarmult_vartime(h, A, sig.S)) = sig.R THEN 0
        ELSE -1
crypto_sign_ed25519_verify_detached(sig, m, pk) ==
    LET A == ge_frombytes_negate_vartime(pk)
        h == sc_reduce(Hash(<<sig.R, pk, m>>))
    IN  IF sig.S >= Order \/ small_order(sig.R) \/ A = NotOnCurve \/ pk = 0 THEN -1
        ELSE IF ge_tobytes(ge_double_scalarmult_vartime(h, A, sig.S)) = sig.R THEN 0
        ELSE -1

(* crypto_sign_ed25519 puts the signature before the message;              *)
(* crypto_sign_ed25519_open gives the message back, or nothing.            *)
crypto_sign_ed25519(m, sk) == <<crypto_sign_ed25519_detached(m, sk), m>>
crypto_sign_ed25519_open(sm, pk) ==
    IF Len(sm) < 2 THEN [ret |-> -1, m |-> <<>>]
    ELSE IF crypto_sign_ed25519_verify_detached(sm[1], sm[2], pk) # 0 THEN [ret |-> -1, m |-> <<>>]
    ELSE [ret |-> 0, m |-> <<sm[2]>>]
-------------------------------------------------------------------------------
(* obsolete.c: the nonce multiplies the hash, and the signature is split   *)
(* around the message.                                                     *)
crypto_sign_edwards25519sha512batch_keypair(seed) ==
    LET sk == [Hash(<<seed>>) EXCEPT !.lo = Clamp(@)]
    IN  [pk |-> ge_tobytes(ge_scalarmult_base(sk.lo)), sk |-> sk]

crypto_sign_edwards25519sha512batch(m, sk) ==
    LET nonce == sc_reduce(Hash(<<sk.hi, m>>))
        R == ge_tobytes(ge_scalarmult_base(nonce))
        hram == sc_reduce(Hash(<<R, m>>))
    IN  <<R, m, sc_muladd(hram, nonce, sk.lo)>>

(* t1 encodes -(h R + A) with the sign bit flipped. *)
crypto_sign_edwards25519sha512batch_open(sm, pk) ==
    LET A == ge_frombytes_negate_vartime(pk)
        R == ge_frombytes_negate_vartime(sm[1])
        h == sc_reduce(Hash(<<sm[1], sm[2]>>))
        t1 == ge_tobytes(ge_p1p1_to_p2(ge_add(ge_scalarmult_vartime(h, R), ge_p3_to_cached(A))))
        t2 == ge_tobytes(ge_scalarmult_base(sm[3]))
        Flip(t) == (t + SignBit) % (2 * SignBit)
    IN  IF Len(sm) < 3 THEN [ret |-> -1, m |-> <<>>]
        ELSE IF sm[3] >= 2^(4 * Nibbles - 3) \/ A = NotOnCurve \/ R = NotOnCurve \/ Flip(t1) # t2
             THEN [ret |-> -1, m |-> <<>>]
        ELSE [ret |-> 0, m |-> <<sm[2]>>]
===============================================================================
