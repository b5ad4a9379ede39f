------------------------------- MODULE MCCrypto -------------------------------
(***************************************************************************)
(* Calls of the cryptographic library with small parameters, each checked  *)
(* against arithmetic on Int.                                              *)
(***************************************************************************)
EXTENDS Integers, Sequences

VARIABLE call

(* Ten limbs of two bits and one: P = 2^15 - 19. *)
F == INSTANCE Field25519 WITH Limbs <- 10, Even <- 2, Odd <- 1, C <- 19, Byte <- 2, Word <- 8
(* Four limbs of five bits and four: P = 2^18 - 5, for the bytes. *)
G == INSTANCE Field25519 WITH Limbs <- 4, Even <- 5, Odd <- 4, C <- 5, Byte <- 3, Word <- 8
(* Limbs of two bits; L = 2^24 + 1831. *)
Q == INSTANCE Scalar25519 WITH Bits <- 2, Mu <- <<1, -2, 2, -1, 1, -2>>
(* A curve of order 8 * 13. *)
ToyHash(fields) ==
    LET n == Len(fields)
        x == 31 * fields[1] + (IF n > 1 THEN 57 * fields[2] ELSE 0) + (IF n > 2 THEN 101 * fields[3] ELSE 0) + 7 * n
    IN  [lo |-> (x * 1237) % 253, hi |-> (x * 811 + 5) % 251]
R == INSTANCE EdwardsLaw WITH Prime <- 101, d <- 29
Curve == R!Curve
Base == <<2, 33>>
BaseTable == [i \in 0 .. 1 |-> [j \in 0 .. 7 |-> R!Prepared(R!Times((j + 1) * 256^i, Base))]]
OddTable == [i \in 0 .. 7 |-> R!Prepared(R!Times(2 * i + 1, Base))]
(* What the bytes in small_order spell (its comments name some entries     *)
(* differently): 0, 1, -1 and the y of order 8, and the same above P.      *)
Order8 == {q[2] : q \in {r \in Curve : R!Times(8, r) = <<0, 1>> /\ R!Times(4, r) # <<0, 1>>}}
SmallOrder == {0, 1, 100, 101, 102, 201, 202, 203} \cup Order8 \cup {101 + y : y \in Order8}
(* Scalars of 16 bits for the multiples, of 8 for the signatures. *)
E == INSTANCE Edwards25519 WITH Prime <- 101, d <- 29, sqrtm1 <- 10, Nibbles <- 4,
                                base <- BaseTable, Bi <- OddTable
D == INSTANCE Ed25519 WITH Prime <- 101, d <- 29, sqrtm1 <- 10, Nibbles <- 2, Order <- 13,
                           Hash <- ToyHash, base <- BaseTable, Bi <- OddTable, blacklist <- SmallOrder
Round(i) == (37 * i + 11) % 256
H == INSTANCE Sha512 WITH BlockSize <- 8, LengthSize <- 2, CountWidth <- 6,
                          Rounds <- 32, WordBits <- 8, Krnd <- Round

None == [fn |-> "none"]
Call(f, args) == {[fn |-> f, a |-> x] : x \in args}

(* Multiples of one limb over a constant background, and bounded ones. *)
Sparse == {[k \in F!Index |-> IF k = i THEN v ELSE w] : i \in F!Index, v \in {-3, 2}, w \in {0, 1}}
Small == [G!Index -> {-16, -9, -1, 0, 16}]
Digits == {[k \in 1 .. 24 |-> IF k = i THEN v ELSE w] : i \in 1 .. 24, v \in {0, 3}, w \in {0, 3}}
Lower == {[k \in 1 .. 12 |-> IF k = i THEN v ELSE w] : i \in {1, 12}, v \in {0, 3}, w \in {0, 3}}
Points == {R!Times(k, Base) : k \in 0 .. 4} \cup {<<0, 100>>, <<10, 0>>, <<91, 0>>}
              \cup {R!Plus(Base, <<10, 0>>)}
Scalars == 0 .. 40 \cup {77, 255, 256, 1000, 4095, 7919, 8191}
BatchKeys == {D!crypto_sign_edwards25519sha512batch_keypair(seed) : seed \in 0 .. 15}
Keys == {D!crypto_sign_ed25519_seed_keypair(seed) : seed \in 0 .. 15}
KeyPair == D!crypto_sign_ed25519_seed_keypair(3)
KeyPoint == CHOOSE q \in Curve : D!ge_tobytes(R!Extended(q)) = KeyPair.pk
Pieces == UNION {[1 .. n -> {0, 1, 5, 6, 8, 17}] : n \in 0 .. 3}

(* One set for each function, as their arguments are of different kinds. *)
Calls ==
    {Call("fe_mul", Sparse \X {h \in Sparse : 0 \in {h[k] : k \in F!Index}}), Call("fe_sq", Sparse),
     Call("bytes", 0 .. 300 \cup (2^18 - 300) .. (2^18 - 1)),
     Call("limbs", {h \in Small : G!Value(h) \in -G!P .. G!P}),
     Call("chain", 2 .. 200),
     Call("points", Points \X Curve), Call("encoding", 0 .. 255),
     Call("multiple", Scalars \X {0, 1, 9, 12} \X {<<10, 0>>, R!Plus(Base, <<10, 0>>)}),
     Call("sign", {<<k, m, D!crypto_sign_ed25519(m, k.sk)>> : k \in Keys, m \in 0 .. 3}),
     Call("batch", {<<k, m, D!crypto_sign_edwards25519sha512batch(m, k.sk)>> : k \in BatchKeys, m \in 0 .. 3}),
     Call("verify", {<<KeyPair, KeyPoint, R0, s>> : R0 \in 0 .. 255, s \in {5, 12, 18}}),
     Call("hash", Pieces), Call("transform", (0 .. 20) \X {0, 3})}

(* The scalar functions run step by step: s holds the limbs, and value     *)
(* what they must go on standing for.                                      *)
Product(x, y) ==
    LET Horner[k \in 0 .. 12] ==
            IF k = 12 THEN 0 ELSE (4 * Horner[k + 1] + y[k] * Q!ModL(x)) % Q!L
    IN  Horner[0]
ScalarCalls ==
    {[fn |-> "sc_reduce", s |-> Q!LoadScalar(a), value |-> Q!ModL(Q!LoadScalar(a)), steps |-> Q!sc_reduce] :
        a \in Digits}
    \cup {LET x == Q!LoadScalar(a[1])
              y == Q!LoadScalar(a[2])
          IN  [fn |-> "sc_muladd", s |-> Q!MulAdd(x, y, x), value |-> (Product(x, y) + Q!ModL(x)) % Q!L,
               steps |-> Q!sc_muladd] : a \in Lower \X Lower}

CryptoInit == call = None
Invoke == call = None /\ \E calls \in Calls \cup {ScalarCalls} : call' \in calls
Scalar(c) == c.fn \in {"sc_reduce", "sc_muladd"}
Continue ==
    /\ Scalar(call)
    /\ call.steps # <<>>
    /\ call' = [call EXCEPT !.s = Q!Step(@, Head(call.steps)), !.steps = Tail(@)]
Return ==
    /\ call # None
    /\ Scalar(call) => call.steps = <<>>
    /\ call' = None
CryptoNext == Invoke \/ Continue \/ Return
-------------------------------------------------------------------------------
On(f, Holds(_)) == call.fn = f => Holds(call.a)

(* The limb arithmetic is arithmetic modulo P: fe_mul, fe_add, fe_sub and  *)
(* fe_neg on any pair, and fe_sq and fe_sq2 agree with the product,        *)
(* whatever the signs and sizes of the limbs.                              *)
FieldArithmetic ==
    LET V(h) == F!Value(h) % F!P
    IN  /\ On("fe_mul", LAMBDA a : /\ V(F!fe_mul(a[1], a[2])) = (V(a[1]) * V(a[2])) % F!P
                                   /\ V(F!fe_add(a[1], a[2])) = (V(a[1]) + V(a[2])) % F!P
                                   /\ V(F!fe_add(F!fe_sub(a[1], a[2]), a[2])) = V(a[1])
                                   /\ V(F!fe_neg(a[1])) = (-V(a[1])) % F!P)
        /\ On("fe_sq", LAMBDA a : /\ V(F!fe_sq(a)) = (V(a) * V(a)) % F!P
                                  /\ V(F!fe_sq2(a)) = (2 * V(a) * V(a)) % F!P)

(* fe_tobytes gives the one representative between 0 and P - 1, of every   *)
(* number that bytes can spell, above P too, and of every limb vector      *)
(* within the bound |h| <= p that its comment derives the claim from.      *)
CanonicalBytes ==
    /\ On("bytes", LAMBDA n : G!fe_tobytes(G!fe_frombytes(n)) = n % G!P)
    /\ On("limbs", LAMBDA h : LET n == G!Value(h) % G!P
                              IN  /\ G!fe_tobytes(h) = n
                                  /\ G!fe_isnegative(h) = n % 2
                                  /\ G!fe_isnonzero(h) = 0 <=> n = 0)

(* The addition chains compute z^(P-2) = z^(2^255 - 21) and                *)
(* z^((P-5)/8) = z^(2^252 - 3): their exponents agree modulo every number  *)
(* up to 200, whose least common multiple exceeds 2^256, so they are equal.*)
ChainExponents ==
    On("chain", LAMBDA n : /\ F!InvertExponent(n) = (F!Sq(1, 255, n) - 21) % n
                           /\ F!Pow22523Exponent(n) = (F!Sq(1, 252, n) - 3) % n)

(* Every step of sc_reduce and sc_muladd keeps the number modulo L; at the *)
(* end nothing is left in the upper limbs, and the lower ones are digits   *)
(* but for the last, which may have one bit more.                          *)
ScalarReduction ==
    Scalar(call) =>
        /\ Q!ModL(call.s) = call.value
        /\ call.steps = <<>> => /\ \A i \in 0 .. 10 : call.s[i] \in 0 .. 3
                               /\ call.s[11] \in 0 .. 4
                               /\ \A i \in 12 .. 23 : call.s[i] = 0

(* Every form of addition, subtraction and doubling agrees with the        *)
(* addition law of the curve, for any two points, equal, opposite or       *)
(* neutral ones included.                                                  *)
PointArithmetic ==
    On("points", LAMBDA a :
        LET p == R!Extended(a[1])
            q == a[2]
            sum == R!Plus(a[1], q)
            dif == R!Plus(a[1], R!Minus(q))
            Out(c) == R!Affine(E!ge_p1p1_to_p3(c))
        IN  /\ Out(E!ge_add(p, E!ge_p3_to_cached(R!Extended(q)))) = sum
            /\ Out(E!ge_sub(p, E!ge_p3_to_cached(R!Extended(q)))) = dif
            /\ Out(E!ge_madd(p, R!Prepared(q))) = sum
            /\ Out(E!ge_msub(p, R!Prepared(q))) = dif
            /\ R!Affine(E!ge_p1p1_to_p2(E!ge_p3_dbl(p))) = R!Plus(a[1], a[1]))

(* Decoding accepts exactly the bytes whose y is that of a point, and      *)
(* gives the negation of the point whose encoding they are.                *)
PointEncoding ==
    On("encoding", LAMBDA n :
        LET y == (n % E!SignBit) % 101
            r == E!ge_frombytes_negate_vartime(n)
            at == {q \in Curve : q[2] = y}
        IN  IF at = {} THEN r = E!NotOnCurve
            ELSE /\ R!Affine(r) \in at
                 /\ r.X # 0 => r.X % 2 # n \div E!SignBit
                 /\ E!ge_tobytes(r) % E!SignBit = y)

(* The sliding digits spell the scalar, are odd and at most 15, and the    *)
(* three multiplications give the multiple that the addition law gives.    *)
ScalarMultiples ==
    On("multiple", LAMBDA a :
        LET r == E!slide(a[1])
            A == R!Extended(a[3])
            RECURSIVE Spelled(_)
            Spelled(i) == IF i \notin E!Bits THEN 0 ELSE r[i] + 2 * Spelled(i + 1)
        IN  /\ Spelled(0) = a[1]
            /\ \A i \in E!Bits : r[i] # 0 => r[i] % 2 = 1 /\ r[i] \in -15 .. 15
            /\ R!Affine(E!ge_scalarmult_base(a[1])) = R!Times(a[1], Base)
            /\ R!Affine(E!ge_scalarmult_vartime(a[1], A)) = R!Times(a[1], a[3])
            /\ R!Affine(E!ge_double_scalarmult_vartime(a[1], A, a[2])) =
                   R!Plus(R!Times(a[1], a[3]), R!Times(a[2], Base)))

(* What a key signs, its public key verifies and opens; the one exception  *)
(* is a nonce whose point is on the verifier's list, such as the nonce 0.  *)
SignedVerifies ==
    On("sign", LAMBDA a :
        LET k == a[1]
            sm == a[3]
            ok == D!crypto_sign_ed25519_verify_detached(sm[1], a[2], k.pk) = 0
        IN  /\ ok <=> ~D!small_order(sm[1].R)
            /\ D!crypto_sign_ed25519_open(sm, k.pk) =
                   IF ok THEN [ret |-> 0, m |-> <<a[2]>>] ELSE [ret |-> -1, m |-> <<>>])

(* The older batch format round-trips too, for every key and message whose *)
(* S B is neither of the two points with x = 0: their sign bit is flipped  *)
(* although negation leaves it alone.                                      *)
BatchSignedOpens ==
    On("batch", LAMBDA a :
        LET opened == D!crypto_sign_edwards25519sha512batch_open(a[3], a[1].pk)
        IN  opened = IF R!Times(a[3][3], Base)[1] = 0 THEN [ret |-> -1, m |-> <<>>]
                     ELSE [ret |-> 0, m |-> <<a[2]>>])

(* A signature is accepted exactly if S is below the order, the first half *)
(* is not on the list, and S B = R + h A holds on the curve: one signature *)
(* has one accepted encoding.                                              *)
VerificationEquation ==
    On("verify", LAMBDA a :
        LET pk == a[1].pk
            h == D!sc_reduce(ToyHash(<<a[3], pk, 1>>))
            rhs == R!Plus(R!Times(a[4], Base), R!Minus(R!Times(h, a[2])))
        IN  (D!crypto_sign_ed25519_verify_detached([R |-> a[3], S |-> a[4]], 1, pk) = 0)
                <=> /\ a[4] < 13
                    /\ a[3] = D!ge_tobytes(R!Extended(rhs))
                    /\ ~D!small_order(a[3]))

(* However a message is cut into updates, the blocks hashed are those of   *)
(* the padded message: its bytes, the marker, zeros, and its length in     *)
(* bits over two words.                                                    *)
HashOfWhole ==
    On("hash", LAMBDA lens :
        LET RECURSIVE Cut(_, _)
            Cut(k, from) == IF k > Len(lens) THEN <<>>
                            ELSE <<[i \in 1 .. lens[k] |-> from + i]>> \o Cut(k + 1, from + lens[k])
            RECURSIVE Total(_)
            Total(k) == IF k = 0 THEN 0 ELSE lens[k] + Total(k - 1)
            n == Total(Len(lens))
            blocks == (n + 2) \div 8 + 1
            length == [hi |-> (8 * n) \div 64, lo |-> (8 * n) % 64]
            Whole(i) == IF i <= n THEN i
                        ELSE IF i = n + 1 THEN H!Marker
                        ELSE IF i > 8 * blocks - 2 THEN <<i - (8 * blocks - 2), length>>
                        ELSE H!Zero
        IN  H!Hashed(Cut(1, 0)) =
                [b \in 1 .. blocks |-> [i \in 0 .. 7 |-> Whole(8 * (b - 1) + i + 1)]])

(* The transform that renames registers is the textbook's, which moves     *)
(* them: (a,...,h) becomes (T1 + T2, a, b, c, d + T1, e, f, g).            *)
TextbookTransform ==
    On("transform", LAMBDA a :
        LET state == [j \in 0 .. 7 |-> (a[1] * (j + 3) + j) % 256]
            block == [j \in 0 .. 15 |-> (a[2] * 17 + a[1] + 29 * j) % 256]
            W[i \in 0 .. 31] == IF i < 16 THEN block[i]
                ELSE H!W64(H!SmallS1(W[i - 2]) + W[i - 7] + H!SmallS0(W[i - 15]) + W[i - 16])
            V[i \in 0 .. 32] == IF i = 0 THEN state
                ELSE LET v == V[i - 1]
                         t1 == v[7] + H!BigS1(v[4]) + H!Ch(v[4], v[5], v[6]) + Round(i - 1) + W[i - 1]
                         t2 == H!BigS0(v[0]) + H!Maj(v[0], v[1], v[2])
                     IN  [j \in 0 .. 7 |-> IF j = 0 THEN H!W64(t1 + t2)
                                           ELSE IF j = 4 THEN H!W64(v[3] + t1)
                                           ELSE v[j - 1]]
        IN  H!SHA512_Transform(state, block) = [j \in 0 .. 7 |-> H!W64(state[j] + V[32][j])])

(* One statement for each part of the cryptography.  The field functions   *)
(* compute in the field of P elements.                                     *)
FieldComputes == FieldArithmetic /\ CanonicalBytes /\ ChainExponents

(* The ge functions compute in the group of points of the curve.           *)
PointsCompute == PointArithmetic /\ PointEncoding /\ ScalarMultiples

(* Both signature formats accept what was signed, with the exceptions      *)
(* named, and the detached one nothing that the equation does not allow.   *)
SignaturesDecide == SignedVerifies /\ BatchSignedOpens /\ VerificationEquation

(* SHA-512 hashes the whole padded message with the textbook's transform.  *)
HashComputes == HashOfWhole /\ TextbookTransform
===============================================================================
